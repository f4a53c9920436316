----------------------- MODULE ContactRequestsProofs ------------------------
(***************************************************************************)
(* Proofs about ContactRequests and the notification stream under it, for  *)
(* any number of calls, rows, events and connections, and any limits.      *)
(***************************************************************************)
EXTENDS ContactRequests, SequenceTheorems, FiniteSetTheorems, FunctionTheorems,
        TLAPS

-----------------------------------------------------------------------------
(* The stream.  The badge is right when nothing is on its way because a    *)
(* count that is on its way is right too, unless a change has committed    *)
(* since whose own event is still to come; and, as long as nothing         *)
(* crossed, there is only one.                                             *)

(* A Set has the streams that hold it, open streams hold the entry's, and  *)
(* so every other Set is empty; an event on its way holds some Set.        *)
SetsHold ==
  /\ \A s \in Sets : members[s] = {c \in Connections : connections[c].set = s}
  /\ \A c \in Connections : Open(c) => connections[c].set = entry
  /\ \A p \in Publishes :
       publishes[p].at \in {"asked", "counted"} => publishes[p].set # None

CurrentIsOpen ==
  /\ current # None => Open(current)
  /\ \A c \in Connections : connections[c].snapshot # "none" => Open(c)

EventToCome == \E p \in Publishes : publishes[p].at = "committed"

OneOnTheWay ==
  /\ \A p, q \in Publishes : Asking(p) /\ Asking(q) => p = q
  /\ \A p \in Publishes : Asking(p) => connections[current].snapshot = "none"

CountsAreRight ==
  /\ \A p \in Publishes :
       Asking(p) /\ publishes[p].at = "counted" => publishes[p].count = Unread
  /\ connections[current].snapshot = "counted" =>
       connections[current].count = Unread
  /\ ~OnTheWay => badge = Unread

CountsInOrder ==
  current # None /\ ~crossed /\ ~lost =>
    OneOnTheWay /\ (EventToCome \/ CountsAreRight)

StreamInv == StreamTypeOK /\ SetsHold /\ CurrentIsOpen /\ CountsInOrder

-----------------------------------------------------------------------------
(* The calls.  A call writes one row, after the limits; its row, the       *)
(* owner's mailbox and the notification follow the call step by step.      *)

TypesFit ==
  /\ contacts \in Seq(Contact)
  /\ calls \in [Requests -> Call]
  /\ mailed \subseteq Requests
  /\ together \in Nat \ {0}

Rowless == {"idle", "found", "allowed", "refused"}

RowsAreOfCalls ==
  /\ \A k \in Requests : calls[k].at # "idle" =>
       calls[k].from \in Requesters /\ calls[k].listing \in Listings
  /\ \A i, j \in DOMAIN contacts :
       contacts[i].call = contacts[j].call => i = j
  /\ \A i \in DOMAIN contacts :
       calls[contacts[i].call].at \notin Rowless

OutcomesAgree ==
  /\ \A k \in Requests : notes[k] # "none" <=> At(k, "sent")
  /\ \A k \in Requests : calls[k].at \in {"accepted", "notifying", "sent"} =>
       k \in mailed
  /\ \A i \in DOMAIN contacts :
       /\ calls[contacts[i].call].at \in {"notifying", "sent"} =>
            contacts[i].status = "sent"
       /\ contacts[i].status = "sent" => contacts[i].call \in mailed
       /\ contacts[i].status = "failed" => At(contacts[i].call, "error")

-----------------------------------------------------------------------------
(* The stream keeps its invariant.                                         *)

(* The unread count is one that a message can carry.                       *)
LEMMA UnreadIsACount == Unread \in Counts
<1>1. {n \in Notes : notes[n] = "unread"} \in SUBSET Notes
  OBVIOUS
<1>2. /\ Unread \in Nat /\ Cardinality(Notes) \in Nat
      /\ Unread <= Cardinality(Notes)
  BY <1>1, StreamAssumption, FS_Subset, FS_CardinalityType DEF Unread
<1> QED
  BY <1>2 DEF Counts

LEMMA StreamStarts == StreamInit => StreamInv
<1> SUFFICES ASSUME StreamInit PROVE StreamInv
  OBVIOUS
<1>1. NoPublish \in Publish /\ NoConnection \in Connection
  BY DEF NoPublish, NoConnection, Publish, Connection, Counts
<1>2. StreamTypeOK
  BY <1>1 DEF StreamInit, StreamTypeOK, Counts
<1>3. SetsHold /\ CurrentIsOpen /\ CountsInOrder
  BY StreamAssumption
     DEF StreamInit, SetsHold, CurrentIsOpen, CountsInOrder, Open, NoConnection,
         NoPublish
<1> QED
  BY <1>2, <1>3 DEF StreamInv

(* The stream of the browser is in the Set of the user's entry.            *)
LEMMA CurrentIsFound ==
  ASSUME StreamInv, current # None
  PROVE  /\ current \in Connections /\ entry \in Sets
         /\ connections[current].set = entry
         /\ current \in members[entry]
         /\ \A s \in Sets : current \in members[s] => s = entry
<1>1. current \in Connections /\ connections[current].set \in Sets
  BY DEF StreamInv, StreamTypeOK, CurrentIsOpen, Open, Connection
<1> QED
  BY <1>1 DEF StreamInv, SetsHold, CurrentIsOpen

(* A step that leaves the streams in their Sets.                           *)
LEMMA SetsUntouched ==
  ASSUME SetsHold, UNCHANGED <<entry, members>>,
         \A c \in Connections : connections'[c].set = connections[c].set,
         \A p \in Publishes : publishes'[p].at \in {"asked", "counted"} =>
           \/ publishes'[p].set # None
           \/ publishes'[p].set = publishes[p].set
              /\ publishes[p].at \in {"asked", "counted"}
  PROVE  SetsHold'
BY DEF SetsHold, Open

(* A step that changes one event at most.                                  *)
LEMMA EventStep ==
  ASSUME publishes \in [Publishes -> Publish], NEW p \in Publishes,
         NEW event \in Publish, publishes' = [publishes EXCEPT ![p] = event]
  PROVE  /\ publishes' \in [Publishes -> Publish]
         /\ publishes'[p] = event
         /\ \A q \in Publishes : q # p => publishes'[q] = publishes[q]
  OBVIOUS

LEMMA ConnectionStep ==
  ASSUME connections \in [Connections -> Connection], NEW c \in Connections,
         NEW stream \in Connection,
         connections' = [connections EXCEPT ![c] = stream]
  PROVE  /\ connections' \in [Connections -> Connection]
         /\ connections'[c] = stream
         /\ \A d \in Connections : d # c => connections'[d] = connections[d]
  OBVIOUS

(* A row changes: its event is still to come.                              *)
LEMMA CommitKeepsStream ==
  ASSUME StreamInv, NEW p \in Publishes,
         NEW rows \in [Notes -> {"none", "unread", "read", "deleted"}],
         Commit(p, rows)
  PROVE  StreamInv'
<1> DEFINE event == [publishes[p] EXCEPT !.at = "committed"]
<1>1. event \in Publish /\ event.at = "committed"
  BY DEF StreamInv, StreamTypeOK, Publish
<1>2. publishes' = [publishes EXCEPT ![p] = event]
  BY DEF Commit
<1>3. /\ publishes' \in [Publishes -> Publish]
      /\ publishes'[p] = event
      /\ \A q \in Publishes : q # p => publishes'[q] = publishes[q]
  BY <1>1, <1>2, EventStep DEF StreamInv, StreamTypeOK
<1> HIDE DEF event
<1>4. StreamTypeOK'
  BY <1>3 DEF StreamInv, StreamTypeOK, Commit, Counts
<1>5. SetsHold' /\ CurrentIsOpen'
  BY <1>1, <1>3, SetsUntouched DEF StreamInv, CurrentIsOpen, Open, Commit
<1>6. EventToCome'
  BY <1>1, <1>3 DEF EventToCome
<1>7. OneOnTheWay => OneOnTheWay'
  BY <1>1, <1>3 DEF OneOnTheWay, Asking, Commit
<1>8. CountsInOrder'
  BY <1>6, <1>7 DEF StreamInv, CountsInOrder, Commit
<1> QED
  BY <1>4, <1>5, <1>8 DEF StreamInv

(* A publication, a count of an event and its delivery.                    *)
LEMMA PublishKeepsStream ==
  ASSUME StreamInv, NEW p \in Publishes, PublishToUser(p)
  PROVE  StreamInv'
<1> DEFINE event == IF Subscribed
                      THEN [publishes[p] EXCEPT !.at = "asked", !.set = entry]
                      ELSE NoPublish
<1>1. event \in Publish /\ event.at \in {"idle", "asked"}
  BY DEF StreamInv, StreamTypeOK, Publish, NoPublish, Counts
<1>2. publishes' = [publishes EXCEPT ![p] = event]
  BY DEF PublishToUser
<1>3. /\ publishes' \in [Publishes -> Publish]
      /\ publishes'[p] = event
      /\ \A q \in Publishes : q # p => publishes'[q] = publishes[q]
  BY <1>1, <1>2, EventStep DEF StreamInv, StreamTypeOK
<1>4. /\ Subscribed => event.at = "asked" /\ event.set = entry
      /\ event.at = "asked" => event.set # None
  BY DEF StreamInv, StreamTypeOK, Publish, Subscribed, NoPublish
<1> HIDE DEF event
<1>5. StreamTypeOK'
  BY <1>3 DEF StreamInv, StreamTypeOK, PublishToUser, Counts
<1>6. SetsHold' /\ CurrentIsOpen'
  BY <1>1, <1>3, <1>4, SetsUntouched
     DEF StreamInv, CurrentIsOpen, Open, PublishToUser
<1>7. CountsInOrder'
  <2> SUFFICES ASSUME current' # None, ~crossed', ~lost'
               PROVE  OneOnTheWay' /\ CountsAreRight'
    BY DEF CountsInOrder
  <2>1. /\ UNCHANGED <<notes, entry, connections, current, badge>>
        /\ ~OnTheWay /\ Subscribed
    BY CurrentIsFound, StreamAssumption DEF PublishToUser, Subscribed
  <2>2. \A q \in Publishes : Asking(q)' <=> q = p
    BY <1>3, <1>4, <2>1 DEF OnTheWay, Asking
  <2>3. connections'[current'].snapshot = "none"
    BY <2>1 DEF OnTheWay
  <2>4. OneOnTheWay'
    BY <2>2, <2>3 DEF OneOnTheWay
  <2>5. OnTheWay'
    BY <2>2 DEF OnTheWay
  <2>6. CountsAreRight'
    BY <1>3, <1>4, <2>1, <2>2, <2>3, <2>5 DEF CountsAreRight
  <2> QED BY <2>4, <2>6
<1> QED
  BY <1>5, <1>6, <1>7 DEF StreamInv

LEMMA CountKeepsStream ==
  ASSUME StreamInv, NEW p \in Publishes, CountForEvent(p)
  PROVE  StreamInv'
<1> DEFINE event == [publishes[p] EXCEPT !.at = "counted", !.count = Unread]
<1>1. /\ event \in Publish /\ event.at = "counted" /\ event.count = Unread
      /\ event.set = publishes[p].set
  BY UnreadIsACount DEF StreamInv, StreamTypeOK, Publish
<1>2. publishes' = [publishes EXCEPT ![p] = event]
  BY DEF CountForEvent
<1>3. /\ publishes' \in [Publishes -> Publish]
      /\ publishes'[p] = event
      /\ \A q \in Publishes : q # p => publishes'[q] = publishes[q]
  BY <1>1, <1>2, EventStep DEF StreamInv, StreamTypeOK
<1> HIDE DEF event
<1>4. StreamTypeOK'
  BY <1>3 DEF StreamInv, StreamTypeOK, CountForEvent, Counts
<1>5. SetsHold' /\ CurrentIsOpen'
  BY <1>1, <1>3, SetsUntouched
     DEF StreamInv, CurrentIsOpen, Open, CountForEvent
<1>6. /\ \A q \in Publishes : Asking(q)' <=> Asking(q)
      /\ EventToCome' <=> EventToCome
      /\ UNCHANGED <<notes, connections, current, badge, crossed, lost>>
      /\ Unread' = Unread
  BY <1>1, <1>3 DEF CountForEvent, Asking, EventToCome, Unread
<1>7. /\ OneOnTheWay => OneOnTheWay'
      /\ OnTheWay' <=> OnTheWay
  BY <1>6 DEF OneOnTheWay, OnTheWay
<1>8. CountsAreRight => CountsAreRight'
  BY <1>1, <1>3, <1>6, <1>7 DEF CountsAreRight
<1>9. CountsInOrder'
  BY <1>6, <1>7, <1>8 DEF StreamInv, CountsInOrder
<1> QED
  BY <1>4, <1>5, <1>9 DEF StreamInv

LEMMA EventFailureKeepsStream ==
  ASSUME StreamInv, NEW p \in Publishes, CountFails(p)
  PROVE  StreamInv'
<1>1. NoPublish \in Publish /\ NoPublish.at = "idle"
  BY DEF NoPublish, Publish, Counts
<1>2. /\ publishes' \in [Publishes -> Publish]
      /\ publishes'[p] = NoPublish
      /\ \A q \in Publishes : q # p => publishes'[q] = publishes[q]
  BY <1>1, EventStep DEF StreamInv, StreamTypeOK, CountFails
<1>3. StreamTypeOK'
  BY <1>2 DEF StreamInv, StreamTypeOK, CountFails, Publish, Counts
<1>4. SetsHold' /\ CurrentIsOpen'
  BY <1>1, <1>2, SetsUntouched DEF StreamInv, CurrentIsOpen, Open, CountFails
<1>5. CountsInOrder'
  <2> SUFFICES ASSUME current' # None, ~crossed', ~lost'
               PROVE  OneOnTheWay' /\ (EventToCome' \/ CountsAreRight')
    BY DEF CountsInOrder
  <2>1. /\ UNCHANGED <<notes, entry, connections, current, badge>>
        /\ ~crossed /\ ~lost /\ ~Asking(p)
        /\ Unread' = Unread
    BY DEF CountFails, Unread
  <2>2. \A q \in Publishes : Asking(q)' <=> Asking(q)
    BY <1>1, <1>2, <2>1 DEF Asking
  <2>3. EventToCome' <=> EventToCome
    BY <1>1, <1>2 DEF EventToCome, CountFails
  <2>4. \A q \in Publishes : Asking(q) => publishes'[q] = publishes[q]
    BY <1>2, <2>1 DEF Asking
  <2>5. OneOnTheWay => OneOnTheWay'
    BY <2>1, <2>2 DEF OneOnTheWay
  <2>6. CountsAreRight => CountsAreRight'
    BY <2>1, <2>2, <2>4 DEF CountsAreRight, OnTheWay
  <2> QED BY <2>1, <2>3, <2>5, <2>6 DEF StreamInv, CountsInOrder
<1> QED
  BY <1>3, <1>4, <1>5 DEF StreamInv

LEMMA DeliveryKeepsStream ==
  ASSUME StreamInv, NEW p \in Publishes, Deliver(p)
  PROVE  StreamInv'
<1>1. NoPublish \in Publish /\ NoPublish.at = "idle"
  BY DEF NoPublish, Publish, Counts
<1>2. /\ publishes' \in [Publishes -> Publish]
      /\ publishes'[p] = NoPublish
      /\ \A q \in Publishes : q # p => publishes'[q] = publishes[q]
  BY <1>1, EventStep DEF StreamInv, StreamTypeOK, Deliver
<1>3. publishes[p].count \in Counts
  BY DEF StreamInv, StreamTypeOK, Publish
<1>4. StreamTypeOK'
  BY <1>2, <1>3 DEF StreamInv, StreamTypeOK, Deliver, Counts
<1>5. SetsHold' /\ CurrentIsOpen'
  BY <1>1, <1>2, SetsUntouched DEF StreamInv, CurrentIsOpen, Open, Deliver
<1>6. CountsInOrder'
  <2> SUFFICES ASSUME current # None, ~crossed, ~lost
               PROVE  OneOnTheWay' /\ (EventToCome' \/ CountsAreRight')
    BY DEF CountsInOrder, Deliver
  <2>1. /\ UNCHANGED <<notes, connections, current>>
        /\ Unread' = Unread
    BY DEF Deliver, Unread
  <2>2. /\ \A q \in Publishes : Asking(q)' <=> Asking(q) /\ q # p
        /\ EventToCome' <=> EventToCome
    BY <1>1, <1>2 DEF Asking, EventToCome, Deliver
  <2>3. OneOnTheWay /\ (EventToCome \/ CountsAreRight)
    BY DEF StreamInv, CountsInOrder
  <2>4. OneOnTheWay'
    BY <2>1, <2>2, <2>3 DEF OneOnTheWay
  <2>5. ASSUME CountsAreRight PROVE CountsAreRight'
    <3>1. CASE Asking(p)
      <4>1. publishes[p].set = entry /\ publishes[p].at = "counted"
        BY <3>1 DEF Asking, Deliver
      <4>2. badge' = Unread
        BY <2>5, <3>1, <4>1, CurrentIsFound DEF Deliver, CountsAreRight
      <4> QED BY <1>2, <2>1, <2>2, <2>5, <4>2 DEF CountsAreRight
    <3>2. CASE ~Asking(p)
      <4>1. publishes[p].set \in Sets /\ publishes[p].set # entry
        BY <3>2 DEF Asking, Deliver, StreamInv, StreamTypeOK, Publish, SetsHold
      <4>2. ~Asking(p) /\ badge' = badge
        BY <3>2, <4>1, CurrentIsFound DEF Deliver
      <4> QED BY <1>2, <2>1, <2>2, <2>5, <4>2 DEF CountsAreRight, OnTheWay
    <3> QED BY <3>1, <3>2
  <2> QED BY <2>2, <2>3, <2>4, <2>5
<1> QED
  BY <1>4, <1>5, <1>6 DEF StreamInv

(* A stream opens: it is alone, and asks for its snapshot.                 *)
LEMMA ConnectKeepsStream ==
  ASSUME StreamInv, NEW c \in Connections, NEW s \in Sets, Connect(c, s)
  PROVE  StreamInv'
<1> DEFINE stream == [set |-> s, snapshot |-> "asked", count |-> None]
<1>1. stream \in Connection /\ c # None /\ s # None
  BY StreamAssumption DEF Connection, Counts
<1>2. /\ connections' = [connections EXCEPT ![c] = stream]
      /\ IF entry = None THEN New(s) ELSE s = entry
      /\ members' = [members EXCEPT ![s] = @ \cup {c}]
      /\ entry' = s /\ UNCHANGED <<notes, publishes, badge>>
  BY DEF Connect, Subscribe
<1>3. /\ connections' \in [Connections -> Connection]
      /\ connections'[c] = stream
      /\ \A d \in Connections : d # c => connections'[d] = connections[d]
  BY <1>1, <1>2, ConnectionStep DEF StreamInv, StreamTypeOK
<1>4. stream.set = s /\ stream.snapshot = "asked"
  OBVIOUS
<1> HIDE DEF stream
<1>a. members' \in [Sets -> SUBSET Connections]
  BY <1>2 DEF StreamInv, StreamTypeOK
<1>5. StreamTypeOK'
  BY <1>2, <1>3, <1>a DEF StreamInv, StreamTypeOK, Connect, Counts
<1>b. CurrentIsOpen'
  BY <1>1, <1>3, <1>4 DEF StreamInv, CurrentIsOpen, Open, Connect
<1>c. \A t \in Sets : members'[t] = IF t = s THEN members[s] \cup {c} ELSE members[t]
  BY <1>2 DEF StreamInv, StreamTypeOK
<1>d. connections[c].set = None
  BY DEF Connect, Open
<1>e. \A t \in Sets : members'[t] = {d \in Connections : connections'[d].set = t}
  BY <1>3, <1>4, <1>c, <1>d, StreamAssumption DEF StreamInv, SetsHold
<1>f. \A d \in Connections : d # c /\ connections[d].set # None
                              => connections[d].set = s
  BY <1>2 DEF StreamInv, SetsHold, Open
<1>6. SetsHold'
  BY <1>2, <1>3, <1>4, <1>e, <1>f DEF StreamInv, SetsHold, Open
<1>7. CountsInOrder'
  <2> SUFFICES ASSUME ~crossed'
               PROVE  OneOnTheWay' /\ CountsAreRight'
    BY DEF CountsInOrder
  <2>1. \A p \in Publishes : ~Asking(p)'
    BY <1>2 DEF Connect, Asking, New
  <2>2. connections'[current'].snapshot = "asked" /\ current' # None
    BY <1>1, <1>3, <1>4 DEF Connect
  <2> QED BY <2>1, <2>2 DEF OneOnTheWay, CountsAreRight, OnTheWay
<1> QED
  BY <1>5, <1>6, <1>7, <1>b DEF StreamInv

LEMMA SnapshotCountKeepsStream ==
  ASSUME StreamInv, NEW c \in Connections, CountForSnapshot(c)
  PROVE  StreamInv'
<1> DEFINE stream == [connections[c] EXCEPT !.snapshot = "counted",
                                            !.count = Unread]
<1>1. /\ stream \in Connection /\ stream.snapshot = "counted"
      /\ stream.count = Unread /\ stream.set = connections[c].set
  BY UnreadIsACount DEF StreamInv, StreamTypeOK, Connection
<1>2. connections' = [connections EXCEPT ![c] = stream]
  BY DEF CountForSnapshot
<1>3. /\ connections' \in [Connections -> Connection]
      /\ connections'[c] = stream
      /\ \A d \in Connections : d # c => connections'[d] = connections[d]
  BY <1>1, <1>2, ConnectionStep DEF StreamInv, StreamTypeOK
<1> HIDE DEF stream
<1>4. StreamTypeOK'
  BY <1>3 DEF StreamInv, StreamTypeOK, CountForSnapshot, Counts
<1>5. SetsHold' /\ CurrentIsOpen'
  <2>1. /\ UNCHANGED <<entry, members, publishes, current>>
        /\ \A d \in Connections : connections'[d].set = connections[d].set
        /\ connections[c].snapshot # "none"
    BY <1>1, <1>3 DEF CountForSnapshot
  <2>2. \A d \in Connections :
          connections'[d].snapshot # "none" => connections[d].snapshot # "none"
    BY <1>3, <2>1
  <2>3. SetsHold'
    BY <2>1, SetsUntouched DEF StreamInv, SetsHold
  <2>4. CurrentIsOpen'
    BY <2>1, <2>2 DEF StreamInv, StreamTypeOK, CurrentIsOpen, Open
  <2> QED BY <2>3, <2>4
<1>6. CountsInOrder'
  <2> SUFFICES ASSUME current # None, ~crossed, ~lost
               PROVE  OneOnTheWay' /\ (EventToCome' \/ CountsAreRight')
    BY DEF CountsInOrder, CountForSnapshot
  <2>1. /\ UNCHANGED <<notes, publishes, current, badge>>
        /\ Unread' = Unread /\ current \in Connections
        /\ \A p \in Publishes : Asking(p)' <=> Asking(p)
        /\ EventToCome' <=> EventToCome
    BY DEF CountForSnapshot, Unread, Asking, EventToCome, StreamInv, StreamTypeOK
  <2>2. /\ connections'[current].snapshot = "none"
             <=> connections[current].snapshot = "none"
        /\ connections'[current] # connections[current]
             => connections'[current].count = Unread
    BY <1>1, <1>3, <2>1 DEF CountForSnapshot
  <2>3. OneOnTheWay => OneOnTheWay'
    BY <2>1, <2>2 DEF OneOnTheWay
  <2>4. CountsAreRight => CountsAreRight'
    BY <2>1, <2>2 DEF CountsAreRight, OnTheWay
  <2> QED BY <2>1, <2>3, <2>4 DEF StreamInv, CountsInOrder
<1> QED
  BY <1>4, <1>5, <1>6 DEF StreamInv

LEMMA SnapshotKeepsStream ==
  ASSUME StreamInv, NEW c \in Connections, SendSnapshot(c)
  PROVE  StreamInv'
<1> DEFINE stream == [connections[c] EXCEPT !.snapshot = "none", !.count = None]
<1>1. /\ stream \in Connection /\ stream.snapshot = "none"
      /\ stream.set = connections[c].set
  BY DEF StreamInv, StreamTypeOK, Connection, Counts
<1>2. connections' = [connections EXCEPT ![c] = stream]
  BY DEF SendSnapshot
<1>3. /\ connections' \in [Connections -> Connection]
      /\ connections'[c] = stream
      /\ \A d \in Connections : d # c => connections'[d] = connections[d]
  BY <1>1, <1>2, ConnectionStep DEF StreamInv, StreamTypeOK
<1>4. connections[c].count \in Counts
  BY DEF StreamInv, StreamTypeOK, Connection
<1> HIDE DEF stream
<1>5. StreamTypeOK'
  BY <1>3, <1>4 DEF StreamInv, StreamTypeOK, SendSnapshot, Counts
<1>6. SetsHold' /\ CurrentIsOpen'
  <2>1. /\ UNCHANGED <<entry, members, publishes, current>>
        /\ \A d \in Connections : connections'[d].set = connections[d].set
        /\ connections[c].snapshot # "none"
    BY <1>1, <1>3 DEF SendSnapshot
  <2>2. \A d \in Connections :
          connections'[d].snapshot # "none" => connections[d].snapshot # "none"
    BY <1>3, <2>1
  <2>3. SetsHold'
    BY <2>1, SetsUntouched DEF StreamInv, SetsHold
  <2>4. CurrentIsOpen'
    BY <2>1, <2>2 DEF StreamInv, StreamTypeOK, CurrentIsOpen, Open
  <2> QED BY <2>3, <2>4
<1>7. CountsInOrder'
  <2> SUFFICES ASSUME current # None, ~crossed, ~lost
               PROVE  OneOnTheWay' /\ (EventToCome' \/ CountsAreRight')
    BY DEF CountsInOrder, SendSnapshot
  <2>1. /\ UNCHANGED <<notes, publishes, current>>
        /\ Unread' = Unread /\ current \in Connections
        /\ \A p \in Publishes : Asking(p)' <=> Asking(p)
        /\ EventToCome' <=> EventToCome
    BY DEF SendSnapshot, Unread, Asking, EventToCome, StreamInv, StreamTypeOK
  <2>2. OneOnTheWay /\ (EventToCome \/ CountsAreRight)
    BY DEF StreamInv, CountsInOrder
  <2>3. CASE c = current
    <3>1. connections'[current].snapshot = "none"
      BY <1>1, <1>3, <2>3
    <3>2. OneOnTheWay'
      BY <2>1, <2>2, <3>1 DEF OneOnTheWay
    <3>3. badge' = connections[current].count
      BY <2>3 DEF SendSnapshot
    <3>4. connections[current].snapshot = "counted"
      BY <2>3 DEF SendSnapshot
    <3>5. CountsAreRight => CountsAreRight'
      BY <2>1, <3>1, <3>3, <3>4 DEF CountsAreRight
    <3> QED BY <2>1, <2>2, <3>2, <3>5
  <2>4. CASE c # current
    <3>1. connections'[current] = connections[current] /\ badge' = badge
      BY <1>3, <2>1, <2>4 DEF SendSnapshot
    <3>2. OneOnTheWay'
      BY <2>1, <2>2, <3>1 DEF OneOnTheWay
    <3>3. CountsAreRight => CountsAreRight'
      BY <2>1, <3>1 DEF CountsAreRight, OnTheWay
    <3> QED BY <2>1, <2>2, <3>2, <3>3
  <2> QED BY <2>3, <2>4
<1> QED
  BY <1>5, <1>6, <1>7 DEF StreamInv

(* A stream that the browser no longer holds is torn down.                 *)
LEMMA TeardownKeepsStream ==
  ASSUME StreamInv, NEW c \in Connections, Open(c), Unsubscribe(c),
         UNCHANGED <<notes, publishes, badge, crossed, lost>>,
         current' = IF current = c THEN None ELSE current
  PROVE  StreamInv'
<1> DEFINE left == members[entry] \ {c}
<1>1. /\ NoConnection \in Connection /\ NoConnection.set = None
      /\ NoConnection.snapshot = "none"
  BY DEF NoConnection, Connection, Counts
<1>2. /\ connections' \in [Connections -> Connection]
      /\ connections'[c] = NoConnection
      /\ \A d \in Connections : d # c => connections'[d] = connections[d]
  BY <1>1, ConnectionStep DEF StreamInv, StreamTypeOK, Unsubscribe
<1>3. connections[c].set = entry /\ entry \in Sets
  BY DEF Open, StreamInv, StreamTypeOK, SetsHold, Connection
<1>4. /\ members' = [members EXCEPT ![entry] = left]
      /\ entry' = IF left = {} THEN None ELSE entry
  BY <1>3 DEF Unsubscribe, EntryAfter
<1>5. left \subseteq Connections
  BY <1>3 DEF StreamInv, StreamTypeOK
<1>6. \A d \in Connections : d \in left <=> d # c /\ Open(d)
  BY <1>3 DEF StreamInv, SetsHold, Open
<1> HIDE DEF left
<1>7. StreamTypeOK'
  BY <1>2, <1>4, <1>5 DEF StreamInv, StreamTypeOK, Counts
<1>8. CurrentIsOpen'
  BY <1>1, <1>2 DEF StreamInv, StreamTypeOK, CurrentIsOpen, Open
<1>9. \A s \in Sets : members'[s] = IF s = entry THEN left ELSE members[s]
  BY <1>4 DEF StreamInv, StreamTypeOK
<1>10. \A s \in Sets : members'[s] = {d \in Connections : connections'[d].set = s}
  <2> SUFFICES ASSUME NEW s \in Sets
               PROVE  members'[s] = {d \in Connections : connections'[d].set = s}
    OBVIOUS
  <2>1. s # None
    BY StreamAssumption
  <2>2. members[s] = {d \in Connections : connections[d].set = s}
    BY DEF StreamInv, SetsHold
  <2>3. CASE s = entry
    <3>1. \A d \in Connections : Open(d) <=> connections[d].set = entry
      BY <2>1, <2>3 DEF StreamInv, SetsHold, Open
    <3> QED BY <1>1, <1>2, <1>5, <1>6, <1>9, <2>1, <2>3, <3>1
  <2>4. CASE s # entry
    BY <1>1, <1>2, <1>3, <1>9, <2>1, <2>2, <2>4
  <2> QED BY <2>3, <2>4
<1>11. \A d \in Connections : Open(d)' => connections'[d].set = entry'
  <2> SUFFICES ASSUME NEW d \in Connections, Open(d)'
               PROVE  connections'[d].set = entry'
    OBVIOUS
  <2>1. d # c /\ connections'[d] = connections[d] /\ Open(d)
    BY <1>1, <1>2 DEF Open
  <2>2. left # {}
    BY <1>6, <2>1
  <2> QED BY <1>4, <2>1, <2>2 DEF StreamInv, SetsHold
<1>12. SetsHold'
  BY <1>10, <1>11 DEF StreamInv, SetsHold
<1>13. CountsInOrder'
  <2> SUFFICES ASSUME current' # None, ~crossed, ~lost
               PROVE  OneOnTheWay' /\ (EventToCome' \/ CountsAreRight')
    BY DEF CountsInOrder
  <2>1. current # None /\ current # c /\ current' = current
    OBVIOUS
  <2>2. current \in Connections /\ Open(current)
    BY <2>1 DEF StreamInv, StreamTypeOK, CurrentIsOpen
  <2>3. entry' = entry
    BY <1>4, <1>6, <2>1, <2>2
  <2>4. /\ UNCHANGED <<notes, publishes, badge, current>>
        /\ connections'[current] = connections[current]
        /\ Unread' = Unread
        /\ \A p \in Publishes : Asking(p)' <=> Asking(p)
        /\ EventToCome' <=> EventToCome
    BY <1>2, <2>1, <2>2, <2>3 DEF Unread, Asking, EventToCome
  <2>5. OneOnTheWay => OneOnTheWay'
    BY <2>4 DEF OneOnTheWay
  <2>6. CountsAreRight => CountsAreRight'
    BY <2>4 DEF CountsAreRight, OnTheWay
  <2> QED BY <2>1, <2>4, <2>5, <2>6 DEF StreamInv, CountsInOrder
<1> QED
  BY <1>7, <1>8, <1>12, <1>13 DEF StreamInv

(* Nothing is promised to a browser that holds no stream.                  *)
LEMMA LeaveKeepsStream ==
  ASSUME StreamInv, Leave \/ Restart
  PROVE  StreamInv'
<1>1. /\ NoConnection \in Connection /\ NoConnection.set = None
      /\ NoConnection.snapshot = "none"
      /\ NoPublish \in Publish /\ NoPublish.at = "idle"
  BY DEF NoConnection, NoPublish, Connection, Publish, Counts
<1>2. StreamTypeOK'
  BY <1>1 DEF StreamInv, StreamTypeOK, Leave, Restart, Counts
<1>3. SetsHold' /\ CurrentIsOpen'
  BY <1>1, StreamAssumption
     DEF StreamInv, SetsHold, CurrentIsOpen, Open, Leave, Restart
<1>4. CountsInOrder'
  BY DEF CountsInOrder, Leave, Restart
<1> QED
  BY <1>2, <1>3, <1>4 DEF StreamInv

(* The writes to the rows of notifications.                                *)
LEMMA NoteWritesKeepStream ==
  ASSUME StreamInv, NEW p \in Publishes,
         \/ \E n \in Notes : Create(n, p) \/ MarkRead(n, p) \/ Delete(n, p)
         \/ MarkAllRead(p)
  PROVE  StreamInv'
<1> DEFINE Rows == [Notes -> {"none", "unread", "read", "deleted"}]
<1>1. notes \in Rows
  BY DEF StreamInv, StreamTypeOK
<1>2. /\ \A n \in Notes : /\ [notes EXCEPT ![n] = "unread"] \in Rows
                          /\ [notes EXCEPT ![n] = "read"] \in Rows
                          /\ [notes EXCEPT ![n] = "deleted"] \in Rows
      /\ [n \in Notes |-> IF notes[n] = "unread" THEN "read" ELSE notes[n]] \in Rows
  BY <1>1
<1> QED
  BY <1>2, CommitKeepsStream DEF Create, MarkRead, Delete, MarkAllRead

LEMMA SameStream ==
  ASSUME StreamInv, UNCHANGED streamVars
  PROVE  StreamInv'
<1>1. Unread' = Unread
  BY DEF streamVars, Unread
<1> QED
  BY <1>1 DEF StreamInv, StreamTypeOK, SetsHold, CurrentIsOpen, Open,
     CountsInOrder, OneOnTheWay, EventToCome, CountsAreRight, OnTheWay, Asking,
     streamVars

LEMMA StreamStepKeepsStream ==
  ASSUME StreamInv, StreamStep
  PROVE  StreamInv'
<1>1. ASSUME NEW c \in Connections, Close(c) PROVE StreamInv'
  <2>1. Open(c) /\ current' = IF current = c THEN None ELSE current
    BY <1>1 DEF Close
  <2> QED BY <1>1, <2>1, TeardownKeepsStream DEF Close
<1>2. ASSUME NEW c \in Connections, SnapshotFails(c) PROVE StreamInv'
  <2>1. Open(c)
    BY <1>2 DEF SnapshotFails, StreamInv, CurrentIsOpen
  <2> QED BY <1>2, <2>1, TeardownKeepsStream DEF SnapshotFails
<1> QED
  BY <1>1, <1>2, NoteWritesKeepStream, PublishKeepsStream, CountKeepsStream,
     EventFailureKeepsStream, DeliveryKeepsStream, ConnectKeepsStream,
     SnapshotCountKeepsStream, SnapshotKeepsStream, LeaveKeepsStream
     DEF StreamStep

(* The stream neither inserts nor removes rows.                            *)
LEMMA StreamKeepsRows ==
  ASSUME StreamTypeOK, StreamStep
  PROVE  \A n \in Notes : notes'[n] # "none" <=> notes[n] # "none"
  BY DEF StreamTypeOK, StreamStep, MarkRead, Delete, MarkAllRead, Commit,
         PublishToUser, CountForEvent, CountFails, Deliver, Connect, Close,
         CountForSnapshot, SendSnapshot, SnapshotFails, Leave, Restart

(* Every step of the requests keeps the stream's invariant too.            *)
LEMMA NextStream == StreamInv /\ [Next]_vars => StreamInv'
<1> SUFFICES ASSUME StreamInv, [Next]_vars PROVE StreamInv'
  OBVIOUS
<1>1. ASSUME NEW k \in Requests, NEW p \in Publishes, Notify(k, p)
      PROVE  StreamInv'
  BY <1>1, NoteWritesKeepStream, ContactAssumption DEF Notify
<1>2. ASSUME NEW n \in Notes, NEW p \in Publishes, NotifyElse(n, p)
      PROVE  StreamInv'
  BY <1>2, NoteWritesKeepStream DEF NotifyElse
<1>3. CASE UNCHANGED streamVars
  BY <1>3, SameStream
<1> QED
  BY <1>1, <1>2, <1>3, StreamStepKeepsStream
     DEF Next, Find, CountRecent, PhoneMissing, InsertPending, SendMail,
         MarkSent, MarkFailed, StatementFails, Die, Age, vars

-----------------------------------------------------------------------------
(* What the statements do to the table of requests.                        *)

LEMMA RowsAreContacts ==
  ASSUME contacts \in Seq(Contact)
  PROVE  \A i \in DOMAIN contacts : /\ contacts[i] \in Contact
                                     /\ contacts[i].call \in Requests
<1>1. \A i \in DOMAIN contacts : contacts[i] \in Contact
  BY LenProperties
<1> QED
  BY <1>1 DEF Contact

LEMMA RowAdded ==
  ASSUME contacts \in Seq(Contact), NEW row \in Contact,
         contacts' = Append(contacts, row)
  PROVE  /\ contacts' \in Seq(Contact)
         /\ DOMAIN contacts' = DOMAIN contacts \cup {Len(contacts) + 1}
         /\ Len(contacts) + 1 \notin DOMAIN contacts
         /\ \A i \in DOMAIN contacts : contacts'[i] = contacts[i]
         /\ contacts'[Len(contacts) + 1] = row
<1>1. DOMAIN contacts = 1..Len(contacts) /\ Len(contacts) \in Nat
  BY LenProperties
<1>2. /\ contacts' \in Seq(Contact) /\ Len(contacts') = Len(contacts) + 1
      /\ \A i \in 1..Len(contacts) : contacts'[i] = contacts[i]
      /\ contacts'[Len(contacts) + 1] = row
  BY AppendProperties
<1>3. DOMAIN contacts' = 1..(Len(contacts) + 1)
  BY <1>2, LenProperties
<1> QED
  BY <1>1, <1>2, <1>3

(* Rows keep what they say of the request and only grow older.             *)
SameRows ==
  /\ contacts' \in Seq(Contact)
  /\ DOMAIN contacts' = DOMAIN contacts
  /\ \A i \in DOMAIN contacts :
       /\ contacts'[i].call = contacts[i].call
       /\ contacts'[i].from = contacts[i].from
       /\ contacts'[i].listing = contacts[i].listing
       /\ contacts'[i].age \in Hour => contacts[i].age \in Hour
       /\ contacts'[i].age \in Day => contacts[i].age \in Day

LEMMA RowsUnchanged ==
  ASSUME contacts \in Seq(Contact), UNCHANGED contacts
  PROVE  SameRows
  BY DEF SameRows

LEMMA RowsMarked ==
  ASSUME contacts \in Seq(Contact), NEW k, NEW status \in Statuses,
         Mark(k, status)
  PROVE  /\ SameRows
         /\ \A i \in DOMAIN contacts :
              contacts'[i].status = IF contacts[i].call = k THEN status
                                    ELSE contacts[i].status
<1> DEFINE row(i) == IF contacts[i].call = k
                       THEN [contacts[i] EXCEPT !.status = status]
                       ELSE contacts[i]
<1>1. /\ DOMAIN contacts = 1..Len(contacts) /\ Len(contacts) \in Nat
      /\ \A i \in DOMAIN contacts : contacts[i] \in Contact
  BY LenProperties
<1>2. \A i \in DOMAIN contacts :
        /\ row(i) \in Contact
        /\ row(i).call = contacts[i].call /\ row(i).from = contacts[i].from
        /\ row(i).listing = contacts[i].listing /\ row(i).age = contacts[i].age
        /\ row(i).status = IF contacts[i].call = k THEN status
                           ELSE contacts[i].status
  BY <1>1 DEF Contact
<1>3. contacts' = [i \in DOMAIN contacts |-> row(i)]
  BY DEF Mark
<1> HIDE DEF row
<1>4. contacts' \in [1..Len(contacts) -> Contact]
  BY <1>1, <1>2, <1>3
<1>5. contacts' \in Seq(Contact)
  BY <1>1, <1>4, SeqDef
<1> QED
  BY <1>2, <1>3, <1>5 DEF SameRows

LEMMA RowAged ==
  ASSUME contacts \in Seq(Contact), NEW i \in DOMAIN contacts, Age(i)
  PROVE  /\ SameRows
         /\ \A j \in DOMAIN contacts : contacts'[j].status = contacts[j].status
<1> DEFINE row == [contacts[i] EXCEPT !.age = Older(@)]
<1>1. /\ DOMAIN contacts = 1..Len(contacts) /\ Len(contacts) \in Nat
      /\ contacts[i] \in Contact
  BY LenProperties
<1>2. /\ row \in Contact
      /\ row.call = contacts[i].call /\ row.from = contacts[i].from
      /\ row.listing = contacts[i].listing /\ row.status = contacts[i].status
      /\ row.age = Older(contacts[i].age)
  BY <1>1 DEF Contact, Older
<1>3. contacts' = [contacts EXCEPT ![i] = row]
  BY DEF Age
<1> HIDE DEF row
<1>4. contacts' \in Seq(Contact) /\ DOMAIN contacts' = DOMAIN contacts
  BY <1>1, <1>2, <1>3, ExceptSeq
<1>5. \A j \in DOMAIN contacts : contacts'[j] = IF j = i THEN row ELSE contacts[j]
  BY <1>3
<1> QED
  BY <1>2, <1>4, <1>5 DEF SameRows, Older, Hour, Day

(* What a step does to the call it belongs to.                             *)
LEMMA CallMoves ==
  ASSUME calls \in [Requests -> Call], NEW k \in Requests, NEW there,
         there \in {"found", "allowed", "mailing", "accepted", "bounced",
                    "notifying", "sent", "error", "refused", "dead"},
         GoTo(k, there)
  PROVE  /\ calls' \in [Requests -> Call]
         /\ calls'[k].at = there
         /\ calls'[k].from = calls[k].from
         /\ calls'[k].listing = calls[k].listing
         /\ \A j \in Requests : j # k => calls'[j] = calls[j]
<1> DEFINE call == [calls[k] EXCEPT !.at = there]
<1>1. /\ call \in Call /\ call.at = there /\ call.from = calls[k].from
      /\ call.listing = calls[k].listing
  BY DEF Call
<1>2. calls' = [calls EXCEPT ![k] = call]
  BY DEF GoTo
<1> HIDE DEF call
<1> QED
  BY <1>1, <1>2

-----------------------------------------------------------------------------
(* Rows and calls.                                                         *)

(* A step of call k that does not insert: if the call had no row, it has   *)
(* none afterwards either, and it never comes back to before its insert.   *)
LEMMA CallKeepsRows ==
  ASSUME TypesFit, RowsAreOfCalls, SameRows, NEW k \in Requests,
         \A j \in Requests : j # k => calls'[j] = calls[j],
         calls'[k].from \in Requesters, calls'[k].listing \in Listings,
         calls[k].at \in Rowless \/ calls'[k].at \notin Rowless
  PROVE  RowsAreOfCalls'
<1>1. \A i \in DOMAIN contacts : contacts[i].call \in Requests
  BY RowsAreContacts DEF TypesFit
<1> QED
  BY <1>1 DEF RowsAreOfCalls, SameRows

LEMMA NextRows ==
  TypesFit /\ RowsAreOfCalls /\ [Next]_vars => TypesFit' /\ RowsAreOfCalls'
<1> SUFFICES ASSUME TypesFit, RowsAreOfCalls, [Next]_vars
             PROVE  TypesFit' /\ RowsAreOfCalls'
  OBVIOUS
<1>0. contacts \in Seq(Contact) /\ calls \in [Requests -> Call]
  BY DEF TypesFit
<1>a. ASSUME SameRows, UNCHANGED calls PROVE RowsAreOfCalls'
  BY <1>a DEF RowsAreOfCalls, SameRows
<1>b. ASSUME NEW k \in Requests, NEW there, SameRows, GoTo(k, there),
             there \in {"found", "allowed", "mailing", "accepted", "bounced",
                        "notifying", "sent", "error", "refused", "dead"},
             calls[k].at # "idle",
             calls[k].at \in Rowless \/ there \notin Rowless
      PROVE  RowsAreOfCalls' /\ calls' \in [Requests -> Call]
  <2>1. calls[k].from \in Requesters /\ calls[k].listing \in Listings
    BY <1>b DEF RowsAreOfCalls
  <2> QED BY <1>0, <1>b, <2>1, CallMoves, CallKeepsRows
<1>1. ASSUME NEW k \in Requests, NEW r \in Requesters, NEW l \in Listings,
             Find(k, r, l)
      PROVE  TypesFit' /\ RowsAreOfCalls'
  <2> DEFINE call == [at |-> "found", from |-> r, listing |-> l]
  <2>1. call \in Call /\ call.from \in Requesters /\ call.listing \in Listings
    BY DEF Call
  <2>2. calls' = [calls EXCEPT ![k] = call] /\ calls[k].at = "idle"
    BY <1>1 DEF Find, At
  <2> HIDE DEF call
  <2>3. /\ calls' \in [Requests -> Call] /\ calls'[k] = call
        /\ \A j \in Requests : j # k => calls'[j] = calls[j]
    BY <1>0, <2>1, <2>2
  <2>4. SameRows
    BY <1>0, <1>1, RowsUnchanged DEF Find
  <2>5. RowsAreOfCalls'
    BY <2>1, <2>2, <2>3, <2>4, CallKeepsRows DEF Rowless
  <2>6. together' \in Nat \ {0}
    <3>1. IsFiniteSet(Counting)
      BY StreamAssumption, ContactAssumption, FS_Subset DEF Counting
    <3>2. Cardinality(Counting) \in Nat /\ together \in Nat \ {0}
      BY <3>1, FS_CardinalityType DEF TypesFit
    <3>3. together' \in {together, Cardinality(Counting) + 1}
      BY <1>1 DEF Find
    <3> QED BY <3>2, <3>3
  <2> QED BY <1>1, <2>3, <2>5, <2>6 DEF Find, TypesFit
<1>2. ASSUME NEW k \in Requests, CountRecent(k)
      PROVE  TypesFit' /\ RowsAreOfCalls'
  <2>1. PICK there \in {"allowed", "refused"} : GoTo(k, there)
    BY <1>2 DEF CountRecent
  <2>2. calls[k].at = "found" /\ SameRows
    BY <1>0, <1>2, RowsUnchanged DEF CountRecent, At
  <2>3. RowsAreOfCalls' /\ calls' \in [Requests -> Call]
    BY <1>b, <2>1, <2>2 DEF Rowless
  <2> QED BY <1>2, <2>3 DEF CountRecent, TypesFit
<1>3. ASSUME NEW k \in Requests, PhoneMissing(k)
      PROVE  TypesFit' /\ RowsAreOfCalls'
  <2>1. calls[k].at = "allowed" /\ SameRows
    BY <1>0, <1>3, RowsUnchanged DEF PhoneMissing, At
  <2>2. RowsAreOfCalls' /\ calls' \in [Requests -> Call]
    BY <1>3, <1>b, <2>1 DEF PhoneMissing, Rowless
  <2> QED BY <1>3, <2>2 DEF PhoneMissing, TypesFit
<1>4. ASSUME NEW k \in Requests, InsertPending(k)
      PROVE  TypesFit' /\ RowsAreOfCalls'
  <2> DEFINE row == [call |-> k, from |-> calls[k].from,
                     listing |-> calls[k].listing,
                     status |-> "pending", age |-> "hour"]
  <2>1. /\ calls[k].at = "allowed"
        /\ calls[k].from \in Requesters /\ calls[k].listing \in Listings
    BY <1>4 DEF InsertPending, At, RowsAreOfCalls
  <2>2. row \in Contact /\ row.call = k
    BY <2>1 DEF Contact, Statuses
  <2>3. contacts' = Append(contacts, row) /\ GoTo(k, "mailing")
    BY <1>4 DEF InsertPending
  <2> HIDE DEF row
  <2>4. /\ contacts' \in Seq(Contact)
        /\ DOMAIN contacts' = DOMAIN contacts \cup {Len(contacts) + 1}
        /\ \A i \in DOMAIN contacts : contacts'[i] = contacts[i]
        /\ contacts'[Len(contacts) + 1] = row
    BY <1>0, <2>2, <2>3, RowAdded
  <2>5. /\ calls' \in [Requests -> Call]
        /\ calls'[k].at = "mailing"
        /\ calls'[k].from = calls[k].from /\ calls'[k].listing = calls[k].listing
        /\ \A j \in Requests : j # k => calls'[j] = calls[j]
    BY <1>0, <2>3, CallMoves
  <2>6. \A i \in DOMAIN contacts : contacts[i].call \in Requests \ {k}
    BY <1>0, <2>1, RowsAreContacts DEF RowsAreOfCalls, Rowless
  <2>7. RowsAreOfCalls'
    BY <2>1, <2>2, <2>4, <2>5, <2>6 DEF RowsAreOfCalls, Rowless
  <2> QED BY <1>4, <2>4, <2>5, <2>7 DEF InsertPending, TypesFit
<1>5. ASSUME NEW k \in Requests, SendMail(k)
      PROVE  TypesFit' /\ RowsAreOfCalls'
  <2>1. PICK there \in {"accepted", "bounced"} : GoTo(k, there)
    BY <1>5 DEF SendMail
  <2>2. calls[k].at = "mailing" /\ SameRows
    BY <1>0, <1>5, RowsUnchanged DEF SendMail, At
  <2>3. RowsAreOfCalls' /\ calls' \in [Requests -> Call]
    BY <1>b, <2>1, <2>2 DEF Rowless
  <2> QED BY <1>5, <2>3 DEF SendMail, TypesFit
<1>6. ASSUME NEW k \in Requests, MarkSent(k) \/ MarkFailed(k)
      PROVE  TypesFit' /\ RowsAreOfCalls'
  <2>1. PICK status \in Statuses, there \in {"notifying", "error"} :
          Mark(k, status) /\ GoTo(k, there)
    BY <1>6 DEF MarkSent, MarkFailed, Statuses
  <2>2. calls[k].at \in {"accepted", "bounced"}
    BY <1>6 DEF MarkSent, MarkFailed, At
  <2>3. SameRows
    BY <1>0, <2>1, RowsMarked
  <2>4. RowsAreOfCalls' /\ calls' \in [Requests -> Call]
    BY <1>b, <2>1, <2>2, <2>3 DEF Rowless
  <2> QED BY <1>6, <2>3, <2>4 DEF MarkSent, MarkFailed, TypesFit, SameRows
<1>7. ASSUME NEW k \in Requests, StatementFails(k) \/ Die(k)
      PROVE  TypesFit' /\ RowsAreOfCalls'
  <2>1. PICK there \in {"error", "dead"} : GoTo(k, there)
    BY <1>7 DEF StatementFails, Die
  <2>2. calls[k].at # "idle" /\ SameRows
    BY <1>0, <1>7, RowsUnchanged DEF StatementFails, Die
  <2>3. RowsAreOfCalls' /\ calls' \in [Requests -> Call]
    BY <1>b, <2>1, <2>2 DEF Rowless
  <2> QED BY <1>7, <2>3 DEF StatementFails, Die, TypesFit
<1>8. ASSUME NEW k \in Requests, NEW p \in Publishes, Notify(k, p)
      PROVE  TypesFit' /\ RowsAreOfCalls'
  <2>1. calls[k].at = "notifying" /\ SameRows
    BY <1>0, <1>8, RowsUnchanged DEF Notify, At
  <2>2. RowsAreOfCalls' /\ calls' \in [Requests -> Call]
    BY <1>8, <1>b, <2>1 DEF Notify, Rowless
  <2> QED BY <1>8, <2>2 DEF Notify, TypesFit
<1>9. ASSUME NEW i \in DOMAIN contacts, Age(i)
      PROVE  TypesFit' /\ RowsAreOfCalls'
  <2>1. SameRows
    BY <1>0, <1>9, RowAged
  <2> QED BY <1>9, <1>a, <2>1 DEF Age, TypesFit, SameRows
<1>10. CASE UNCHANGED contactVars
  <2>1. SameRows
    BY <1>0, <1>10, RowsUnchanged DEF contactVars
  <2> QED BY <1>10, <1>a, <2>1 DEF contactVars, TypesFit
<1> QED
  BY <1>1, <1>2, <1>3, <1>4, <1>5, <1>6, <1>7, <1>8, <1>9, <1>10
     DEF Next, NotifyElse, vars

(* One row per call: there are no more rows than calls.                    *)
LEMMA RowsAreFew ==
  ASSUME TypesFit, RowsAreOfCalls
  PROVE  Len(contacts) <= Cardinality(Requests)
<1> DEFINE f == [i \in 1..Len(contacts) |-> contacts[i].call]
<1>1. /\ DOMAIN contacts = 1..Len(contacts) /\ Len(contacts) \in Nat
      /\ \A i \in DOMAIN contacts : contacts[i] \in Contact
  BY LenProperties DEF TypesFit
<1>2. f \in [1..Len(contacts) -> Requests]
  BY <1>1 DEF Contact
<1>3. f \in Injection(1..Len(contacts), Requests)
  BY <1>1, <1>2 DEF Injection, IsInjective, RowsAreOfCalls
<1>4. IsFiniteSet(Requests)
  BY StreamAssumption, ContactAssumption, FS_Subset
<1>5. Cardinality(1..Len(contacts)) <= Cardinality(Requests)
  BY <1>3, <1>4, FS_Injection
<1>6. Cardinality(1..Len(contacts)) = Len(contacts)
  BY <1>1, FS_Interval
<1> QED
  BY <1>5, <1>6

-----------------------------------------------------------------------------
(* Outcomes.                                                               *)

(* A step of call k: what it says of its outcome is true of its row, of    *)
(* the owner's mailbox and of the notifications, and the other rows stay.  *)
LEMMA CallKeepsOutcomes ==
  ASSUME TypesFit, OutcomesAgree, SameRows, NEW k \in Requests,
         calls[k].at # "sent",
         \A j \in Requests : j # k => calls'[j] = calls[j],
         \A j \in Requests : j # k => (notes'[j] # "none" <=> notes[j] # "none"),
         IF calls'[k].at = "sent" THEN notes'[k] # "none"
                                  ELSE notes'[k] = notes[k],
         mailed \subseteq mailed',
         calls'[k].at \in {"accepted", "notifying", "sent"} => k \in mailed',
         \A i \in DOMAIN contacts :
           IF contacts[i].call = k
             THEN /\ calls'[k].at \in {"notifying", "sent"} =>
                       contacts'[i].status = "sent"
                  /\ contacts'[i].status = "sent" => k \in mailed'
                  /\ contacts'[i].status = "failed" => calls'[k].at = "error"
             ELSE contacts'[i].status = contacts[i].status
  PROVE  OutcomesAgree'
<1>1. \A i \in DOMAIN contacts : contacts[i].call \in Requests
  BY RowsAreContacts DEF TypesFit
<1> QED
  BY <1>1 DEF OutcomesAgree, SameRows, At

LEMMA NextOutcomes ==
  StreamTypeOK /\ TypesFit /\ RowsAreOfCalls /\ OutcomesAgree /\ [Next]_vars
    => OutcomesAgree'
<1> SUFFICES ASSUME StreamTypeOK, TypesFit, RowsAreOfCalls, OutcomesAgree,
                    [Next]_vars
             PROVE  OutcomesAgree'
  OBVIOUS
<1>0. /\ contacts \in Seq(Contact) /\ calls \in [Requests -> Call]
      /\ \A i \in DOMAIN contacts : contacts[i].call \in Requests
  BY RowsAreContacts DEF TypesFit
(* Steps of calls that write neither a row nor a notification, and that    *)
(* are not at their end.                                                   *)
<1>a. ASSUME NEW k \in Requests, NEW there, GoTo(k, there),
             there \in {"found", "allowed", "mailing", "accepted", "bounced",
                        "error", "refused", "dead"},
             calls[k].at \notin {"sent", "error"},
             mailed \subseteq mailed', there = "accepted" => k \in mailed',
             UNCHANGED <<contacts, notes>>
      PROVE  OutcomesAgree'
  <2>1. /\ calls'[k].at = there
        /\ \A j \in Requests : j # k => calls'[j] = calls[j]
    BY <1>0, <1>a, CallMoves
  <2>2. SameRows
    BY <1>0, <1>a, RowsUnchanged
  <2>3. \A i \in DOMAIN contacts : contacts[i].call = k =>
          /\ contacts[i].status = "sent" => k \in mailed
          /\ contacts[i].status # "failed"
    BY <1>a DEF OutcomesAgree, At
  <2> QED BY <1>a, <2>1, <2>2, <2>3, CallKeepsOutcomes
<1>b. ASSUME UNCHANGED <<contacts, calls, mailed>>,
             \A k \in Requests : notes'[k] # "none" <=> notes[k] # "none"
      PROVE  OutcomesAgree'
  BY <1>b DEF OutcomesAgree, At
<1>1. ASSUME NEW k \in Requests, NEW r \in Requesters, NEW l \in Listings,
             Find(k, r, l)
      PROVE  OutcomesAgree'
  <2>1. /\ calls'[k].at = "found" /\ calls[k].at = "idle"
        /\ \A j \in Requests : j # k => calls'[j] = calls[j]
        /\ UNCHANGED <<contacts, notes, mailed>>
    BY <1>0, <1>1 DEF Find, At, streamVars
  <2>2. SameRows
    BY <1>0, <2>1, RowsUnchanged
  <2>3. \A i \in DOMAIN contacts : contacts[i].call # k
    BY <2>1 DEF RowsAreOfCalls, Rowless
  <2> QED BY <2>1, <2>2, <2>3, CallKeepsOutcomes
<1>2. ASSUME NEW k \in Requests, CountRecent(k) PROVE OutcomesAgree'
  <2>1. PICK there \in {"allowed", "refused"} : GoTo(k, there)
    BY <1>2 DEF CountRecent
  <2> QED BY <1>2, <1>a, <2>1 DEF CountRecent, At, streamVars
<1>3. ASSUME NEW k \in Requests, PhoneMissing(k) PROVE OutcomesAgree'
  BY <1>3, <1>a DEF PhoneMissing, At, streamVars
<1>4. ASSUME NEW k \in Requests, InsertPending(k) PROVE OutcomesAgree'
  <2> DEFINE row == [call |-> k, from |-> calls[k].from,
                     listing |-> calls[k].listing,
                     status |-> "pending", age |-> "hour"]
  <2>1. /\ calls[k].at = "allowed"
        /\ calls[k].from \in Requesters /\ calls[k].listing \in Listings
    BY <1>4 DEF InsertPending, At, RowsAreOfCalls
  <2>2. row \in Contact /\ row.call = k
    BY <2>1 DEF Contact, Statuses
  <2>3. contacts' = Append(contacts, row) /\ GoTo(k, "mailing")
    BY <1>4 DEF InsertPending
  <2> HIDE DEF row
  <2>4. /\ DOMAIN contacts' = DOMAIN contacts \cup {Len(contacts) + 1}
        /\ \A i \in DOMAIN contacts : contacts'[i] = contacts[i]
        /\ contacts'[Len(contacts) + 1] = row
    BY <1>0, <2>2, <2>3, RowAdded
  <2>5. /\ calls'[k].at = "mailing"
        /\ \A j \in Requests : j # k => calls'[j] = calls[j]
    BY <1>0, <2>3, CallMoves
  <2>6. UNCHANGED <<notes, mailed>>
    BY <1>4 DEF InsertPending, streamVars
  <2>7. row.status = "pending"
    BY DEF row
  <2>8. \A i \in DOMAIN contacts : contacts[i].call \in Requests \ {k}
    BY <1>0, <2>1 DEF RowsAreOfCalls, Rowless
  <2>9. \A j \in Requests : calls'[j].at \in {"accepted", "notifying", "sent", "error"}
                             => calls'[j] = calls[j]
    BY <2>5
  <2>10. \A i \in DOMAIN contacts' :
          /\ calls'[contacts'[i].call].at \in {"notifying", "sent"} =>
               contacts'[i].status = "sent"
          /\ contacts'[i].status = "sent" => contacts'[i].call \in mailed
          /\ contacts'[i].status = "failed" => calls'[contacts'[i].call].at = "error"
    <3> SUFFICES ASSUME NEW i \in DOMAIN contacts'
                 PROVE  /\ calls'[contacts'[i].call].at \in {"notifying", "sent"} =>
                             contacts'[i].status = "sent"
                        /\ contacts'[i].status = "sent" => contacts'[i].call \in mailed
                        /\ contacts'[i].status = "failed" =>
                             calls'[contacts'[i].call].at = "error"
      OBVIOUS
    <3>1. CASE i \in DOMAIN contacts
      BY <2>4, <2>5, <2>8, <3>1 DEF OutcomesAgree, At
    <3>2. CASE i = Len(contacts) + 1
      BY <2>2, <2>4, <2>5, <2>7, <3>2
    <3> QED BY <2>4, <3>1, <3>2
  <2>11. /\ \A j \in Requests : notes'[j] # "none" <=> At(j, "sent")'
         /\ \A j \in Requests :
              calls'[j].at \in {"accepted", "notifying", "sent"} => j \in mailed'
    BY <2>1, <2>5, <2>6 DEF OutcomesAgree, At
  <2> QED BY <2>6, <2>10, <2>11 DEF OutcomesAgree, At
<1>5. ASSUME NEW k \in Requests, SendMail(k) PROVE OutcomesAgree'
  <2>1. PICK there \in {"accepted", "bounced"} :
          GoTo(k, there) /\ (there = "accepted" => k \in mailed')
    BY <1>5 DEF SendMail
  <2>2. mailed \subseteq mailed'
    BY <1>5 DEF SendMail
  <2> QED BY <1>5, <1>a, <2>1, <2>2 DEF SendMail, At, streamVars
<1>6. ASSUME NEW k \in Requests, MarkSent(k) PROVE OutcomesAgree'
  <2>1. /\ SameRows
        /\ \A i \in DOMAIN contacts :
             contacts'[i].status = IF contacts[i].call = k THEN "sent"
                                   ELSE contacts[i].status
    BY <1>0, <1>6, RowsMarked DEF MarkSent, Statuses
  <2>2. /\ calls'[k].at = "notifying" /\ calls[k].at = "accepted"
        /\ \A j \in Requests : j # k => calls'[j] = calls[j]
    BY <1>0, <1>6, CallMoves DEF MarkSent, At
  <2>3. UNCHANGED <<notes, mailed>> /\ k \in mailed
    BY <1>6, <2>2 DEF MarkSent, streamVars, OutcomesAgree
  <2> QED BY <2>1, <2>2, <2>3, CallKeepsOutcomes
<1>7. ASSUME NEW k \in Requests, MarkFailed(k) PROVE OutcomesAgree'
  <2>1. /\ SameRows
        /\ \A i \in DOMAIN contacts :
             contacts'[i].status = IF contacts[i].call = k THEN "failed"
                                   ELSE contacts[i].status
    BY <1>0, <1>7, RowsMarked DEF MarkFailed, Statuses
  <2>2. /\ calls'[k].at = "error" /\ calls[k].at = "bounced"
        /\ \A j \in Requests : j # k => calls'[j] = calls[j]
    BY <1>0, <1>7, CallMoves DEF MarkFailed, At
  <2>3. UNCHANGED <<notes, mailed>>
    BY <1>7 DEF MarkFailed, streamVars
  <2> QED BY <2>1, <2>2, <2>3, CallKeepsOutcomes
<1>8. ASSUME NEW k \in Requests, StatementFails(k) \/ Die(k)
      PROVE  OutcomesAgree'
  BY <1>8, <1>a DEF StatementFails, Die, streamVars
<1>9. ASSUME NEW k \in Requests, NEW p \in Publishes, Notify(k, p)
      PROVE  OutcomesAgree'
  <2>1. /\ calls'[k].at = "sent" /\ calls[k].at = "notifying"
        /\ \A j \in Requests : j # k => calls'[j] = calls[j]
    BY <1>0, <1>9, CallMoves DEF Notify, At
  <2>2. /\ SameRows /\ UNCHANGED <<contacts, mailed>>
        /\ \A j \in Requests : j # k => notes'[j] = notes[j]
        /\ notes'[k] = "unread"
    BY <1>0, <1>9, RowsUnchanged, ContactAssumption
       DEF Notify, Create, Commit, StreamTypeOK
  <2>3. k \in mailed
    BY <2>1 DEF OutcomesAgree
  <2>4. \A i \in DOMAIN contacts :
          contacts[i].call = k => contacts[i].status = "sent"
    BY <2>1 DEF OutcomesAgree
  <2> QED BY <2>1, <2>2, <2>3, <2>4, CallKeepsOutcomes
<1>10. ASSUME NEW i \in DOMAIN contacts, Age(i) PROVE OutcomesAgree'
  <2>1. /\ SameRows
        /\ \A j \in DOMAIN contacts : contacts'[j].status = contacts[j].status
    BY <1>0, <1>10, RowAged
  <2> QED BY <1>10, <2>1 DEF Age, OutcomesAgree, SameRows, At, streamVars
<1>11. ASSUME NEW n \in Notes, NEW p \in Publishes, NotifyElse(n, p)
       PROVE  OutcomesAgree'
  <2>1. \A k \in Requests : notes'[k] = notes[k]
    BY <1>11, ContactAssumption DEF NotifyElse, Create, Commit, StreamTypeOK
  <2> QED BY <1>11, <1>b, <2>1 DEF NotifyElse, contactVars
<1>12. CASE StreamStep /\ UNCHANGED contactVars
  BY <1>12, <1>b, StreamKeepsRows, ContactAssumption DEF contactVars
<1>13. CASE UNCHANGED vars
  BY <1>13, <1>b DEF vars, streamVars, contactVars
<1> QED
  BY <1>1, <1>2, <1>3, <1>4, <1>5, <1>6, <1>7, <1>8, <1>9, <1>10, <1>11, <1>12,
     <1>13 DEF Next

-----------------------------------------------------------------------------
(* Limits.  Each is about a set of rows and a set of calls that the limit  *)
(* admitted and that have yet to insert theirs.  A call is admitted while  *)
(* the rows are below the limit, and then the calls admitted are among     *)
(* those that are counting together; afterwards an insert only turns an    *)
(* admitted call into a row, and time only takes rows away.                *)

OwnerHour == {i \in DOMAIN contacts : contacts[i].age \in Hour}
FromHour(r) == {i \in OwnerHour : contacts[i].from = r}
FromDay(r) ==
  {i \in DOMAIN contacts : contacts[i].age \in Day /\ contacts[i].from = r}
FromTo(r, l) == {i \in FromDay(r) : contacts[i].listing = l}

Admitted == {k \in Requests : At(k, "allowed")}
AdmittedFrom(r) == {k \in Admitted : calls[k].from = r}
AdmittedTo(r, l) == {k \in AdmittedFrom(r) : calls[k].listing = l}

WithinAll ==
  /\ Cardinality(OwnerHour) + Cardinality(Admitted) <= OwnerHourly + together - 1
  /\ \A r \in Requesters :
       /\ Cardinality(FromHour(r)) + Cardinality(AdmittedFrom(r))
            <= RequesterHourly + together - 1
       /\ Cardinality(FromDay(r)) + Cardinality(AdmittedFrom(r))
            <= RequesterDaily + together - 1
       /\ \A l \in Listings :
            Cardinality(FromTo(r, l)) + Cardinality(AdmittedTo(r, l))
              <= ListingDaily + together - 1

LimitsInv == Cardinality(Counting) <= together /\ WithinAll

RowsWithinAll ==
  /\ Cardinality(OwnerHour) <= OwnerHourly + (together - 1)
  /\ \A r \in Requesters :
       /\ Cardinality(FromHour(r)) <= RequesterHourly + (together - 1)
       /\ Cardinality(FromDay(r)) <= RequesterDaily + (together - 1)
       /\ \A l \in Listings :
            Cardinality(FromTo(r, l)) <= ListingDaily + (together - 1)

BelowAll(r, l) ==
  /\ Cardinality(FromTo(r, l)) < ListingDaily
  /\ Cardinality(FromHour(r)) < RequesterHourly
  /\ Cardinality(FromDay(r)) < RequesterDaily
  /\ Cardinality(OwnerHour) < OwnerHourly

(* The limits of the code in terms of these sets.                          *)
LEMMA LimitsAreOnSets ==
  /\ LimitsHold <=> RowsWithinAll
  /\ \A r, l : WithinLimits(r, l) <=> BelowAll(r, l)
<1>1. Within(Hour, LAMBDA c : TRUE) = Cardinality(OwnerHour)
  BY DEF Within, OwnerHour
<1>2. \A r : Within(Hour, LAMBDA c : c.from = r) = Cardinality(FromHour(r))
  <2> SUFFICES ASSUME NEW r
               PROVE  Within(Hour, LAMBDA c : c.from = r) = Cardinality(FromHour(r))
    OBVIOUS
  <2>1. FromHour(r) = {i \in DOMAIN contacts :
                         contacts[i].age \in Hour /\ contacts[i].from = r}
    BY DEF FromHour, OwnerHour
  <2> QED BY <2>1 DEF Within
<1>3. \A r : Within(Day, LAMBDA c : c.from = r) = Cardinality(FromDay(r))
  BY DEF Within, FromDay
<1>4. \A r, l : Within(Day, LAMBDA c : c.from = r /\ c.listing = l)
                  = Cardinality(FromTo(r, l))
  <2> SUFFICES ASSUME NEW r, NEW l
               PROVE  Within(Day, LAMBDA c : c.from = r /\ c.listing = l)
                        = Cardinality(FromTo(r, l))
    OBVIOUS
  <2>1. FromTo(r, l) = {i \in DOMAIN contacts :
                          /\ contacts[i].age \in Day
                          /\ contacts[i].from = r /\ contacts[i].listing = l}
    BY DEF FromTo, FromDay
  <2> QED BY <2>1 DEF Within
<1> QED
  BY <1>1, <1>2, <1>3, <1>4 DEF LimitsHold, RowsWithinAll, WithinLimits, BelowAll

(* Sets of rows are finite.                                                *)
LEMMA SetOfRows ==
  ASSUME contacts \in Seq(Contact), NEW S, S \subseteq DOMAIN contacts
  PROVE  IsFiniteSet(S) /\ Cardinality(S) \in Nat
<1>1. DOMAIN contacts = 1..Len(contacts) /\ Len(contacts) \in Nat
  BY LenProperties
<1>2. IsFiniteSet(DOMAIN contacts)
  BY <1>1, FS_Interval
<1> QED
  BY <1>2, FS_Subset, FS_CardinalityType

LEMMA Shrinks ==
  ASSUME contacts \in Seq(Contact), NEW S, S \subseteq DOMAIN contacts,
         NEW T, T \subseteq S
  PROVE  /\ Cardinality(T) <= Cardinality(S)
         /\ Cardinality(T) \in Nat /\ Cardinality(S) \in Nat
<1>1. IsFiniteSet(S) /\ Cardinality(S) \in Nat /\ Cardinality(T) \in Nat
  BY SetOfRows
<1> QED
  BY <1>1, FS_Subset

LEMMA GrowsByOne ==
  ASSUME contacts \in Seq(Contact), NEW S, S \subseteq DOMAIN contacts,
         NEW n, NEW T, T \subseteq S \cup {n}
  PROVE  /\ Cardinality(T) <= Cardinality(S) + 1
         /\ Cardinality(T) \in Nat /\ Cardinality(S) \in Nat
<1>1. IsFiniteSet(S) /\ Cardinality(S) \in Nat
  BY SetOfRows
<1>2. /\ IsFiniteSet(S \cup {n})
      /\ Cardinality(S \cup {n}) \in {Cardinality(S), Cardinality(S) + 1}
  BY <1>1, FS_AddElement
<1>3. /\ Cardinality(T) <= Cardinality(S \cup {n})
      /\ Cardinality(T) \in Nat
  BY <1>2, FS_Subset, FS_CardinalityType
<1> QED
  BY <1>1, <1>2, <1>3

(* Sets of calls are finite too.                                           *)
LEMMA SetOfCalls ==
  ASSUME NEW A, A \subseteq Requests
  PROVE  /\ IsFiniteSet(A) /\ Cardinality(A) \in Nat
         /\ \A B : B \subseteq A =>
              IsFiniteSet(B) /\ Cardinality(B) \in Nat
              /\ Cardinality(B) <= Cardinality(A)
<1>1. IsFiniteSet(A)
  BY StreamAssumption, ContactAssumption, FS_Subset
<1> QED
  BY <1>1, FS_Subset, FS_CardinalityType

(* Neither the rows of a limit nor its calls grow.                         *)
LEMMA RoomKept ==
  ASSUME contacts \in Seq(Contact), together \in Nat, together' \in Nat,
         together <= together', NEW limit \in Nat,
         NEW W, W \subseteq DOMAIN contacts, NEW V, V \subseteq W,
         NEW A, A \subseteq Requests, NEW B, B \subseteq A,
         Cardinality(W) + Cardinality(A) <= limit + together - 1
  PROVE  Cardinality(V) + Cardinality(B) <= limit + together' - 1
<1>1. /\ Cardinality(V) <= Cardinality(W)
      /\ Cardinality(V) \in Nat /\ Cardinality(W) \in Nat
  BY Shrinks
<1>2. /\ Cardinality(B) <= Cardinality(A)
      /\ Cardinality(A) \in Nat /\ Cardinality(B) \in Nat
  BY SetOfCalls
<1> QED
  BY <1>1, <1>2

(* A call is admitted while the rows are below the limit.                  *)
LEMMA RoomGiven ==
  ASSUME contacts \in Seq(Contact), together \in Nat, NEW limit \in Nat,
         NEW W, W \subseteq DOMAIN contacts, Cardinality(W) < limit,
         NEW A, A \subseteq Requests, Cardinality(A) <= together,
         NEW B, B \subseteq A
  PROVE  Cardinality(W) + Cardinality(B) <= limit + together - 1
<1>1. Cardinality(W) \in Nat
  BY SetOfRows
<1>2. /\ Cardinality(B) <= Cardinality(A)
      /\ Cardinality(A) \in Nat /\ Cardinality(B) \in Nat
  BY SetOfCalls
<1> QED
  BY <1>1, <1>2

(* An admitted call becomes a row.                                         *)
LEMMA RoomUsed ==
  ASSUME contacts \in Seq(Contact), together \in Nat, NEW limit \in Nat,
         NEW n, NEW W, W \subseteq DOMAIN contacts,
         NEW V, V \subseteq W \cup {n},
         NEW k, NEW A, A \subseteq Requests, k \in A,
         NEW B, B \subseteq A \ {k},
         Cardinality(W) + Cardinality(A) <= limit + together - 1
  PROVE  Cardinality(V) + Cardinality(B) <= limit + together - 1
<1>1. /\ Cardinality(V) <= Cardinality(W) + 1
      /\ Cardinality(V) \in Nat /\ Cardinality(W) \in Nat
  BY GrowsByOne
<1>2. IsFiniteSet(A) /\ Cardinality(A) \in Nat
  BY SetOfCalls
<1>3. Cardinality(A \ {k}) = Cardinality(A) - 1 /\ A \ {k} \subseteq Requests
  BY <1>2, FS_RemoveElement
<1>4. /\ Cardinality(B) <= Cardinality(A \ {k}) /\ Cardinality(B) \in Nat
      /\ Cardinality(A \ {k}) \in Nat
  BY <1>3, SetOfCalls
<1> QED
  BY <1>1, <1>2, <1>3, <1>4

(* The sets of rows and of admitted calls.                                 *)
LEMMA LimitSets ==
  /\ OwnerHour \subseteq DOMAIN contacts
  /\ \A r : /\ FromHour(r) \subseteq DOMAIN contacts
            /\ FromDay(r) \subseteq DOMAIN contacts
            /\ AdmittedFrom(r) \subseteq Admitted
  /\ \A r, l : /\ FromTo(r, l) \subseteq DOMAIN contacts
               /\ AdmittedTo(r, l) \subseteq Admitted
  /\ Admitted \subseteq Counting /\ Counting \subseteq Requests
BY DEF OwnerHour, FromHour, FromDay, FromTo, Admitted, AdmittedFrom, AdmittedTo,
       Counting

LEMMA RowsShrink ==
  ASSUME SameRows
  PROVE  /\ OwnerHour' \subseteq OwnerHour
         /\ \A r : /\ FromHour(r)' \subseteq FromHour(r)
                   /\ FromDay(r)' \subseteq FromDay(r)
         /\ \A r, l : FromTo(r, l)' \subseteq FromTo(r, l)
<1>1. OwnerHour' \subseteq OwnerHour
  BY DEF OwnerHour, SameRows
<1>2. \A r : FromHour(r)' \subseteq FromHour(r)
  BY <1>1 DEF FromHour, OwnerHour, SameRows
<1>3. \A r : FromDay(r)' \subseteq FromDay(r)
  BY DEF FromDay, SameRows
<1>4. \A r, l : FromTo(r, l)' \subseteq FromTo(r, l)
  BY <1>3 DEF FromTo, FromDay, SameRows
<1> QED
  BY <1>1, <1>2, <1>3, <1>4

(* A step that admits no call and adds no row.                             *)
LEMMA StepKeepsLimits ==
  ASSUME TypesFit, LimitsInv, SameRows, together' \in Nat,
         together <= together', Cardinality(Counting') <= together',
         \A j \in Requests : At(j, "allowed")' =>
           At(j, "allowed") /\ calls'[j] = calls[j]
  PROVE  LimitsInv'
<1>0. contacts \in Seq(Contact) /\ together \in Nat
  BY DEF TypesFit
<1>1. /\ Admitted' \subseteq Admitted
      /\ \A r : AdmittedFrom(r)' \subseteq AdmittedFrom(r)
      /\ \A r, l : AdmittedTo(r, l)' \subseteq AdmittedTo(r, l)
  BY DEF Admitted, AdmittedFrom, AdmittedTo
<1>2. Admitted \subseteq Requests
  BY LimitSets
<1>3. /\ OwnerHourly \in Nat /\ RequesterHourly \in Nat
      /\ RequesterDaily \in Nat /\ ListingDaily \in Nat
  BY ContactAssumption
<1>4. Cardinality(OwnerHour') + Cardinality(Admitted')
        <= OwnerHourly + together' - 1
  BY <1>0, <1>1, <1>2, <1>3, LimitSets, RowsShrink, RoomKept
     DEF LimitsInv, WithinAll
<1>5. ASSUME NEW r \in Requesters
      PROVE  /\ Cardinality(FromHour(r)') + Cardinality(AdmittedFrom(r)')
                  <= RequesterHourly + together' - 1
             /\ Cardinality(FromDay(r)') + Cardinality(AdmittedFrom(r)')
                  <= RequesterDaily + together' - 1
  <2>1. AdmittedFrom(r) \subseteq Requests
    BY <1>2, LimitSets
  <2> QED BY <1>0, <1>1, <1>3, <2>1, LimitSets, RowsShrink, RoomKept
             DEF LimitsInv, WithinAll
<1>6. ASSUME NEW r \in Requesters, NEW l \in Listings
      PROVE  Cardinality(FromTo(r, l)') + Cardinality(AdmittedTo(r, l)')
               <= ListingDaily + together' - 1
  <2>1. AdmittedTo(r, l) \subseteq Requests
    BY <1>2, LimitSets
  <2> QED BY <1>0, <1>1, <1>3, <2>1, LimitSets, RowsShrink, RoomKept
             DEF LimitsInv, WithinAll
<1> QED
  BY <1>4, <1>5, <1>6 DEF LimitsInv, WithinAll

(* A call that finds itself within the limits is admitted.                 *)
LEMMA AdmissionKeepsLimits ==
  ASSUME TypesFit, LimitsInv, NEW k \in Requests,
         WithinLimits(calls[k].from, calls[k].listing),
         UNCHANGED <<contacts, together>>, Cardinality(Counting') <= together,
         calls'[k].from = calls[k].from, calls'[k].listing = calls[k].listing,
         \A j \in Requests : j # k => calls'[j] = calls[j]
  PROVE  LimitsInv'
<1>0. contacts \in Seq(Contact) /\ together \in Nat
  BY DEF TypesFit
<1>1. BelowAll(calls[k].from, calls[k].listing)
  BY LimitsAreOnSets
<1>2. /\ OwnerHour' = OwnerHour
      /\ \A r : FromHour(r)' = FromHour(r) /\ FromDay(r)' = FromDay(r)
      /\ \A r, l : FromTo(r, l)' = FromTo(r, l)
  BY DEF OwnerHour, FromHour, FromDay, FromTo
<1>3. /\ \A r : r # calls[k].from => AdmittedFrom(r)' \subseteq AdmittedFrom(r)
      /\ \A r, l : r # calls[k].from \/ l # calls[k].listing =>
                     AdmittedTo(r, l)' \subseteq AdmittedTo(r, l)
  BY DEF Admitted, AdmittedFrom, AdmittedTo, At
<1>4. /\ Counting' \subseteq Requests /\ Admitted' \subseteq Counting'
      /\ \A r : AdmittedFrom(r)' \subseteq Counting'
      /\ \A r, l : AdmittedTo(r, l)' \subseteq Counting'
  BY DEF Counting, Admitted, AdmittedFrom, AdmittedTo
<1>5. /\ OwnerHourly \in Nat /\ RequesterHourly \in Nat
      /\ RequesterDaily \in Nat /\ ListingDaily \in Nat
  BY ContactAssumption
<1>6. /\ Admitted \subseteq Requests
      /\ \A r : AdmittedFrom(r) \subseteq Requests
      /\ \A r, l : AdmittedTo(r, l) \subseteq Requests
  BY LimitSets
<1>7. Cardinality(OwnerHour') + Cardinality(Admitted')
        <= OwnerHourly + together - 1
  BY <1>0, <1>1, <1>2, <1>4, <1>5, LimitSets, RoomGiven DEF BelowAll
<1>8. ASSUME NEW r \in Requesters
      PROVE  /\ Cardinality(FromHour(r)') + Cardinality(AdmittedFrom(r)')
                  <= RequesterHourly + together - 1
             /\ Cardinality(FromDay(r)') + Cardinality(AdmittedFrom(r)')
                  <= RequesterDaily + together - 1
  <2>1. CASE r = calls[k].from
    <3>1. /\ Cardinality(FromHour(r)) < RequesterHourly
          /\ Cardinality(FromDay(r)) < RequesterDaily
      BY <1>1, <2>1 DEF BelowAll
    <3> QED BY <1>0, <1>2, <1>4, <1>5, <3>1, LimitSets, RoomGiven
  <2>2. CASE r # calls[k].from
    <3>1. /\ Cardinality(FromHour(r)) + Cardinality(AdmittedFrom(r))
               <= RequesterHourly + together - 1
          /\ Cardinality(FromDay(r)) + Cardinality(AdmittedFrom(r))
               <= RequesterDaily + together - 1
      BY DEF LimitsInv, WithinAll
    <3>2. /\ FromHour(r) \subseteq DOMAIN contacts
          /\ FromDay(r) \subseteq DOMAIN contacts
          /\ AdmittedFrom(r) \subseteq Requests
          /\ AdmittedFrom(r)' \subseteq AdmittedFrom(r)
          /\ together' = together
      BY <1>3, <1>6, <2>2, LimitSets
    <3>3. Cardinality(FromHour(r)') + Cardinality(AdmittedFrom(r)')
            <= RequesterHourly + together - 1
      BY <1>0, <1>2, <1>5, <3>1, <3>2, RoomKept
    <3>4. Cardinality(FromDay(r)') + Cardinality(AdmittedFrom(r)')
            <= RequesterDaily + together - 1
      BY <1>0, <1>2, <1>5, <3>1, <3>2, RoomKept
    <3> QED BY <3>3, <3>4
  <2> QED BY <2>1, <2>2
<1>9. ASSUME NEW r \in Requesters, NEW l \in Listings
      PROVE  Cardinality(FromTo(r, l)') + Cardinality(AdmittedTo(r, l)')
               <= ListingDaily + together - 1
  <2>1. CASE r = calls[k].from /\ l = calls[k].listing
    <3>1. Cardinality(FromTo(r, l)) < ListingDaily
      BY <1>1, <2>1 DEF BelowAll
    <3> QED BY <1>0, <1>2, <1>4, <1>5, <3>1, LimitSets, RoomGiven
  <2>2. CASE r # calls[k].from \/ l # calls[k].listing
    BY <1>0, <1>2, <1>3, <1>5, <1>6, <2>2, LimitSets, RoomKept
       DEF LimitsInv, WithinAll
  <2> QED BY <2>1, <2>2
<1> QED
  BY <1>7, <1>8, <1>9 DEF LimitsInv, WithinAll

(* An admitted call inserts its row.                                       *)
LEMMA InsertKeepsLimits ==
  ASSUME TypesFit, LimitsInv, NEW k \in Requests, At(k, "allowed"),
         NEW row \in Contact, contacts' = Append(contacts, row),
         row.from = calls[k].from, row.listing = calls[k].listing,
         UNCHANGED together, Cardinality(Counting') <= together,
         calls'[k].at = "mailing",
         \A j \in Requests : j # k => calls'[j] = calls[j]
  PROVE  LimitsInv'
<1> DEFINE n == Len(contacts) + 1
<1>0. /\ contacts \in Seq(Contact) /\ together \in Nat
      /\ DOMAIN contacts' = DOMAIN contacts \cup {n}
      /\ \A i \in DOMAIN contacts : contacts'[i] = contacts[i]
      /\ contacts'[n] = row
  BY RowAdded DEF TypesFit
<1> HIDE DEF n
<1>1. OwnerHour' \subseteq OwnerHour \cup {n}
  BY <1>0 DEF OwnerHour
<1>2. \A r : /\ FromHour(r)' \subseteq FromHour(r) \cup {n}
             /\ r # row.from => FromHour(r)' \subseteq FromHour(r)
  BY <1>0 DEF FromHour, OwnerHour
<1>3. \A r : /\ FromDay(r)' \subseteq FromDay(r) \cup {n}
             /\ r # row.from => FromDay(r)' \subseteq FromDay(r)
  BY <1>0 DEF FromDay
<1>4. \A r, l : /\ FromTo(r, l)' \subseteq FromTo(r, l) \cup {n}
                /\ r # row.from \/ l # row.listing =>
                     FromTo(r, l)' \subseteq FromTo(r, l)
  BY <1>0 DEF FromTo, FromDay
<1>5. /\ Admitted' \subseteq Admitted \ {k}
      /\ \A r : AdmittedFrom(r)' \subseteq AdmittedFrom(r) \ {k}
      /\ \A r, l : AdmittedTo(r, l)' \subseteq AdmittedTo(r, l) \ {k}
  BY DEF Admitted, AdmittedFrom, AdmittedTo, At
<1>6. /\ k \in Admitted /\ k \in AdmittedFrom(row.from)
      /\ k \in AdmittedTo(row.from, row.listing)
  BY DEF Admitted, AdmittedFrom, AdmittedTo
<1>7. /\ OwnerHourly \in Nat /\ RequesterHourly \in Nat
      /\ RequesterDaily \in Nat /\ ListingDaily \in Nat
  BY ContactAssumption
<1>8. /\ Admitted \subseteq Requests
      /\ \A r : AdmittedFrom(r) \subseteq Requests
      /\ \A r, l : AdmittedTo(r, l) \subseteq Requests
  BY LimitSets
<1>9. Cardinality(OwnerHour') + Cardinality(Admitted')
        <= OwnerHourly + together - 1
  BY <1>0, <1>1, <1>5, <1>6, <1>7, <1>8, LimitSets, RoomUsed
     DEF LimitsInv, WithinAll
<1>10. ASSUME NEW r \in Requesters
       PROVE  /\ Cardinality(FromHour(r)') + Cardinality(AdmittedFrom(r)')
                   <= RequesterHourly + together - 1
              /\ Cardinality(FromDay(r)') + Cardinality(AdmittedFrom(r)')
                   <= RequesterDaily + together - 1
  <2>1. /\ Cardinality(FromHour(r)) + Cardinality(AdmittedFrom(r))
             <= RequesterHourly + together - 1
        /\ Cardinality(FromDay(r)) + Cardinality(AdmittedFrom(r))
             <= RequesterDaily + together - 1
    BY DEF LimitsInv, WithinAll
  <2>a. /\ FromHour(r) \subseteq DOMAIN contacts
        /\ FromDay(r) \subseteq DOMAIN contacts
        /\ AdmittedFrom(r) \subseteq Requests
        /\ AdmittedFrom(r)' \subseteq AdmittedFrom(r) \ {k}
        /\ FromHour(r)' \subseteq FromHour(r) \cup {n}
        /\ FromDay(r)' \subseteq FromDay(r) \cup {n}
    BY <1>2, <1>3, <1>5, <1>8, LimitSets
  <2>2. CASE r = row.from
    <3>1. k \in AdmittedFrom(r)
      BY <1>6, <2>2
    <3>2. Cardinality(FromHour(r)') + Cardinality(AdmittedFrom(r)')
            <= RequesterHourly + together - 1
      BY ONLY <1>0, <1>7, <2>1, <2>a, <3>1, RoomUsed
    <3>3. Cardinality(FromDay(r)') + Cardinality(AdmittedFrom(r)')
            <= RequesterDaily + together - 1
      BY ONLY <1>0, <1>7, <2>1, <2>a, <3>1, RoomUsed
    <3> QED BY <3>2, <3>3
  <2>3. CASE r # row.from
    <3>1. /\ AdmittedFrom(r)' \subseteq AdmittedFrom(r)
          /\ FromHour(r)' \subseteq FromHour(r)
          /\ FromDay(r)' \subseteq FromDay(r)
          /\ together' = together
      BY <1>2, <1>3, <1>5, <2>3
    <3>2. Cardinality(FromHour(r)') + Cardinality(AdmittedFrom(r)')
            <= RequesterHourly + together - 1
      BY ONLY <1>0, <1>7, <2>1, <2>a, <3>1, RoomKept
    <3>3. Cardinality(FromDay(r)') + Cardinality(AdmittedFrom(r)')
            <= RequesterDaily + together - 1
      BY ONLY <1>0, <1>7, <2>1, <2>a, <3>1, RoomKept
    <3> QED BY <3>2, <3>3
  <2> QED BY <2>2, <2>3
<1>11. ASSUME NEW r \in Requesters, NEW l \in Listings
       PROVE  Cardinality(FromTo(r, l)') + Cardinality(AdmittedTo(r, l)')
                <= ListingDaily + together - 1
  <2>1. Cardinality(FromTo(r, l)) + Cardinality(AdmittedTo(r, l))
          <= ListingDaily + together - 1
    BY DEF LimitsInv, WithinAll
  <2>a. /\ FromTo(r, l) \subseteq DOMAIN contacts
        /\ AdmittedTo(r, l) \subseteq Requests
        /\ AdmittedTo(r, l)' \subseteq AdmittedTo(r, l) \ {k}
        /\ FromTo(r, l)' \subseteq FromTo(r, l) \cup {n}
    BY <1>4, <1>5, <1>8, LimitSets
  <2>2. CASE r = row.from /\ l = row.listing
    <3>1. k \in AdmittedTo(r, l)
      BY <1>6, <2>2
    <3> QED BY ONLY <1>0, <1>7, <2>1, <2>a, <3>1, RoomUsed
  <2>3. CASE r # row.from \/ l # row.listing
    <3>1. /\ AdmittedTo(r, l)' \subseteq AdmittedTo(r, l)
          /\ FromTo(r, l)' \subseteq FromTo(r, l)
          /\ together' = together
      BY <1>4, <1>5, <2>3
    <3> QED BY ONLY <1>0, <1>7, <2>1, <2>a, <3>1, RoomKept
  <2> QED BY <2>2, <2>3
<1> QED
  BY <1>9, <1>10, <1>11 DEF LimitsInv, WithinAll

(* The calls that are counting together are as many as the history says.   *)
LEMMA FewerCount ==
  ASSUME LimitsInv, TypesFit, UNCHANGED together, Counting' \subseteq Counting
  PROVE  Cardinality(Counting') <= together
<1>1. Counting \subseteq Requests
  BY DEF Counting
<1>2. /\ Cardinality(Counting') <= Cardinality(Counting)
      /\ Cardinality(Counting') \in Nat /\ Cardinality(Counting) \in Nat
  BY <1>1, SetOfCalls
<1> QED
  BY <1>2 DEF LimitsInv, TypesFit

LEMMA NextLimits ==
  TypesFit /\ RowsAreOfCalls /\ LimitsInv /\ [Next]_vars => LimitsInv'
<1> SUFFICES ASSUME TypesFit, RowsAreOfCalls, LimitsInv, [Next]_vars
             PROVE  LimitsInv'
  OBVIOUS
<1>0. /\ contacts \in Seq(Contact) /\ calls \in [Requests -> Call]
      /\ together \in Nat
  BY DEF TypesFit
<1>a. ASSUME SameRows, UNCHANGED <<calls, together>> PROVE LimitsInv'
  <2>1. Counting' = Counting
    BY <1>a DEF Counting, At
  <2>2. \A j \in Requests : At(j, "allowed")' => At(j, "allowed")
    BY <1>a DEF At
  <2> QED BY <1>0, <1>a, <2>1, <2>2, FewerCount, StepKeepsLimits
(* Steps of a call that is past its insert, or gives up before.            *)
<1>b. ASSUME NEW k \in Requests, NEW there, GoTo(k, there), SameRows,
             UNCHANGED together,
             there \in {"mailing", "accepted", "bounced", "notifying", "sent",
                        "error", "refused", "dead"}
      PROVE  LimitsInv'
  <2>1. /\ calls'[k].at = there
        /\ \A j \in Requests : j # k => calls'[j] = calls[j]
    BY <1>0, <1>b, CallMoves
  <2>2. Counting' \subseteq Counting
    BY <1>b, <2>1 DEF Counting, At
  <2>3. \A j \in Requests : At(j, "allowed")' =>
          At(j, "allowed") /\ calls'[j] = calls[j]
    BY <1>b, <2>1 DEF At
  <2> QED BY <1>0, <1>b, <2>2, <2>3, FewerCount, StepKeepsLimits
<1>1. ASSUME NEW k \in Requests, NEW r \in Requesters, NEW l \in Listings,
             Find(k, r, l)
      PROVE  LimitsInv'
  <2>1. SameRows
    BY <1>0, <1>1, RowsUnchanged DEF Find
  <2>2. /\ calls'[k].at = "found"
        /\ \A j \in Requests : j # k => calls'[j] = calls[j]
    BY <1>0, <1>1 DEF Find
  <2>3. \A j \in Requests : At(j, "allowed")' =>
          At(j, "allowed") /\ calls'[j] = calls[j]
    BY <2>2 DEF At
  <2>4. Counting' \subseteq Counting \cup {k} /\ Counting \subseteq Requests
    BY <2>2 DEF Counting, At
  <2>5. IsFiniteSet(Counting) /\ Cardinality(Counting) \in Nat
    BY <2>4, SetOfCalls
  <2>6. /\ IsFiniteSet(Counting \cup {k})
        /\ Cardinality(Counting \cup {k})
             \in {Cardinality(Counting), Cardinality(Counting) + 1}
    BY <2>5, FS_AddElement
  <2>7. /\ Cardinality(Counting') <= Cardinality(Counting \cup {k})
        /\ Cardinality(Counting') \in Nat
    BY <2>4, <2>6, FS_Subset, FS_CardinalityType
  <2>8. together' = IF Cardinality(Counting) < together THEN together
                    ELSE Cardinality(Counting) + 1
    BY <1>1 DEF Find
  <2>9. /\ together' \in Nat /\ together <= together'
        /\ Cardinality(Counting') <= together'
    BY <1>0, <2>5, <2>6, <2>7, <2>8
  <2> QED BY <2>1, <2>3, <2>9, StepKeepsLimits
<1>2. ASSUME NEW k \in Requests, CountRecent(k) PROVE LimitsInv'
  <2>1. SameRows /\ UNCHANGED <<contacts, together>>
    BY <1>0, <1>2, RowsUnchanged DEF CountRecent
  <2>2. PICK there : /\ there = IF WithinLimits(calls[k].from, calls[k].listing)
                                 THEN "allowed" ELSE "refused"
                     /\ GoTo(k, there)
    BY <1>2 DEF CountRecent
  <2>3. CASE WithinLimits(calls[k].from, calls[k].listing)
    <3>1. /\ calls[k].at = "found"
          /\ calls'[k].from = calls[k].from /\ calls'[k].listing = calls[k].listing
          /\ \A j \in Requests : j # k => calls'[j] = calls[j]
      BY <1>0, <1>2, <2>2, <2>3, CallMoves DEF CountRecent, At
    <3>2. Counting' \subseteq Counting
      BY <3>1 DEF Counting, At
    <3> QED BY <2>1, <2>3, <3>1, <3>2, FewerCount, AdmissionKeepsLimits
  <2>4. CASE ~WithinLimits(calls[k].from, calls[k].listing)
    BY <1>b, <2>1, <2>2, <2>4
  <2> QED BY <2>3, <2>4
<1>3. ASSUME NEW k \in Requests, PhoneMissing(k) PROVE LimitsInv'
  <2>1. SameRows
    BY <1>0, <1>3, RowsUnchanged DEF PhoneMissing
  <2> QED BY <1>3, <1>b, <2>1 DEF PhoneMissing
<1>4. ASSUME NEW k \in Requests, InsertPending(k) PROVE LimitsInv'
  <2>1. PICK row : row = [call |-> k, from |-> calls[k].from,
                          listing |-> calls[k].listing,
                          status |-> "pending", age |-> "hour"]
    OBVIOUS
  <2>2. /\ calls[k].at = "allowed"
        /\ calls[k].from \in Requesters /\ calls[k].listing \in Listings
    BY <1>4 DEF InsertPending, At, RowsAreOfCalls
  <2>3. /\ row \in Contact
        /\ row.from = calls[k].from /\ row.listing = calls[k].listing
    BY <2>1, <2>2 DEF Contact, Statuses
  <2>4. contacts' = Append(contacts, row) /\ GoTo(k, "mailing")
        /\ UNCHANGED together
    BY <1>4, <2>1 DEF InsertPending
  <2>5. /\ calls'[k].at = "mailing"
        /\ \A j \in Requests : j # k => calls'[j] = calls[j]
    BY <1>0, <2>4, CallMoves
  <2>6. Counting' \subseteq Counting
    BY <2>5 DEF Counting, At
  <2> QED BY <2>2, <2>3, <2>4, <2>5, <2>6, FewerCount, InsertKeepsLimits DEF At
<1>5. ASSUME NEW k \in Requests, SendMail(k) PROVE LimitsInv'
  <2>1. SameRows
    BY <1>0, <1>5, RowsUnchanged DEF SendMail
  <2>2. PICK there \in {"accepted", "bounced"} : GoTo(k, there)
    BY <1>5 DEF SendMail
  <2> QED BY <1>5, <1>b, <2>1, <2>2 DEF SendMail
<1>6. ASSUME NEW k \in Requests, MarkSent(k) \/ MarkFailed(k) PROVE LimitsInv'
  <2>1. PICK status \in Statuses, there \in {"notifying", "error"} :
          Mark(k, status) /\ GoTo(k, there)
    BY <1>6 DEF MarkSent, MarkFailed, Statuses
  <2>2. SameRows
    BY <1>0, <2>1, RowsMarked
  <2> QED BY <1>6, <1>b, <2>1, <2>2 DEF MarkSent, MarkFailed
<1>7. ASSUME NEW k \in Requests, StatementFails(k) \/ Die(k) PROVE LimitsInv'
  <2>1. SameRows
    BY <1>0, <1>7, RowsUnchanged DEF StatementFails, Die
  <2> QED BY <1>7, <1>b, <2>1 DEF StatementFails, Die
<1>8. ASSUME NEW k \in Requests, NEW p \in Publishes, Notify(k, p)
      PROVE  LimitsInv'
  <2>1. SameRows
    BY <1>0, <1>8, RowsUnchanged DEF Notify
  <2> QED BY <1>8, <1>b, <2>1 DEF Notify
<1>9. ASSUME NEW i \in DOMAIN contacts, Age(i) PROVE LimitsInv'
  <2>1. SameRows
    BY <1>0, <1>9, RowAged
  <2> QED BY <1>9, <1>a, <2>1 DEF Age
<1>10. CASE UNCHANGED contactVars
  <2>1. SameRows
    BY <1>0, <1>10, RowsUnchanged DEF contactVars
  <2> QED BY <1>10, <1>a, <2>1 DEF contactVars
<1> QED
  BY <1>1, <1>2, <1>3, <1>4, <1>5, <1>6, <1>7, <1>8, <1>9, <1>10
     DEF Next, NotifyElse, vars

-----------------------------------------------------------------------------
(* The invariant of the specification, and what follows from it.           *)

LEMMA InitContacts ==
  Init => StreamInv /\ TypesFit /\ RowsAreOfCalls /\ OutcomesAgree /\ LimitsInv
<1> SUFFICES ASSUME Init
             PROVE  StreamInv /\ TypesFit /\ RowsAreOfCalls /\ OutcomesAgree
                    /\ LimitsInv
  OBVIOUS
<1>1. StreamInv
  BY StreamStarts DEF Init
<1>2. NoCall \in Call /\ NoCall.at = "idle"
  BY DEF NoCall, Call
<1>3. TypesFit /\ contacts = <<>> /\ DOMAIN contacts = {}
  <2>1. contacts = <<>> /\ mailed = {} /\ together = 1
        /\ calls = [k \in Requests |-> NoCall]
    BY DEF Init
  <2>2. <<>> \in Seq(Contact) /\ DOMAIN <<>> = {}
    BY EmptySeq
  <2> QED BY <1>2, <2>1, <2>2 DEF TypesFit
<1>4. RowsAreOfCalls
  BY <1>2, <1>3 DEF Init, RowsAreOfCalls
<1>5. OutcomesAgree
  <2>1. \A k \in Requests : notes[k] = "none"
    BY ContactAssumption DEF Init, StreamInit
  <2>2. \A k \in Requests : calls[k].at = "idle"
    BY <1>2 DEF Init
  <2> QED BY <1>3, <2>1, <2>2 DEF OutcomesAgree, At
<1>6. together = 1 /\ Counting = {} /\ Admitted = {}
  BY <1>2 DEF Init, Counting, Admitted, At
<1>7. /\ OwnerHour = {}
      /\ \A r : FromHour(r) = {} /\ FromDay(r) = {}
      /\ \A r, l : FromTo(r, l) = {}
      /\ \A r : AdmittedFrom(r) = {}
      /\ \A r, l : AdmittedTo(r, l) = {}
  BY <1>3, <1>6 DEF OwnerHour, FromHour, FromDay, FromTo, AdmittedFrom, AdmittedTo
<1>8. Cardinality({}) = 0
  BY FS_EmptySet
<1>9. /\ OwnerHourly \in Nat /\ RequesterHourly \in Nat
      /\ RequesterDaily \in Nat /\ ListingDaily \in Nat
  BY ContactAssumption
<1>10. WithinAll
  BY <1>6, <1>7, <1>8, <1>9 DEF WithinAll
<1> QED
  BY <1>1, <1>3, <1>4, <1>5, <1>6, <1>8, <1>10 DEF LimitsInv

LEMMA ContactsAlways ==
  Spec => [](StreamInv /\ TypesFit /\ RowsAreOfCalls /\ OutcomesAgree /\ LimitsInv)
<1>1. StreamInv => StreamTypeOK
  BY DEF StreamInv
<1> QED
  BY <1>1, InitContacts, NextStream, NextRows, NextOutcomes, NextLimits, PTL
     DEF Spec

(* The rows, the calls and the stream are well formed: a call has one row  *)
(* at most, and none before its insert.                                    *)
THEOREM ContactsWellFormed == Spec => []TypeOK
<1>1. StreamInv /\ TypesFit /\ RowsAreOfCalls => TypeOK
  BY RowsAreFew DEF StreamInv, TypesFit, RowsAreOfCalls, Rowless, TypeOK
<1> QED
  BY <1>1, ContactsAlways, PTL

(* The hourly and daily limits hold over every window, whatever they are,  *)
(* up to one fewer than the calls that were counting rows together.        *)
THEOREM ContactLimitsHold == Spec => []LimitsHold
<1>1. ASSUME TypesFit, LimitsInv PROVE LimitsHold
  <2>1. contacts \in Seq(Contact) /\ together \in Nat
    BY <1>1 DEF TypesFit
  <2>2. /\ OwnerHourly \in Nat /\ RequesterHourly \in Nat
        /\ RequesterDaily \in Nat /\ ListingDaily \in Nat
    BY ContactAssumption
  <2>3. /\ Cardinality(OwnerHour) \in Nat
        /\ \A r : /\ Cardinality(FromHour(r)) \in Nat
                  /\ Cardinality(FromDay(r)) \in Nat
        /\ \A r, l : Cardinality(FromTo(r, l)) \in Nat
    BY <2>1, LimitSets, SetOfRows
  <2>4. /\ Cardinality(Admitted) \in Nat
        /\ \A r : Cardinality(AdmittedFrom(r)) \in Nat
        /\ \A r, l : Cardinality(AdmittedTo(r, l)) \in Nat
    BY LimitSets, SetOfCalls
  <2>5. RowsWithinAll
    BY <1>1, <2>1, <2>2, <2>3, <2>4 DEF LimitsInv, WithinAll, RowsWithinAll
  <2> QED BY <2>5, LimitsAreOnSets
<1> QED
  BY <1>1, ContactsAlways, PTL

(* The answer to a contact request, its row, the owner's mailbox and the   *)
(* owner's notifications do not say against each other, whichever          *)
(* statement fails and wherever calls die.                                 *)
THEOREM AnswersAreTrue == Spec => []AnswerTellsOutcome
<1>1. ASSUME TypesFit, OutcomesAgree PROVE AnswerTellsOutcome
  <2> SUFFICES ASSUME NEW i \in DOMAIN contacts
               PROVE  LET k == contacts[i].call
                          Row(status) == contacts[i].status = status
                          Notified == notes[k] # "none"
                      IN /\ At(k, "sent") => Row("sent") /\ Notified
                         /\ At(k, "error") => ~Notified
                         /\ Notified => Row("sent")
                         /\ Row("sent") => k \in mailed
                         /\ Row("failed") => At(k, "error")
    BY DEF AnswerTellsOutcome
  <2>1. PICK k \in Requests : k = contacts[i].call
    BY <1>1, RowsAreContacts DEF TypesFit
  <2>2. notes[k] # "none" <=> At(k, "sent")
    BY <1>1 DEF OutcomesAgree
  <2>3. /\ At(k, "sent") => contacts[i].status = "sent"
        /\ contacts[i].status = "sent" => k \in mailed
        /\ contacts[i].status = "failed" => At(k, "error")
    BY <1>1, <2>1 DEF OutcomesAgree, At
  <2>4. At(k, "error") => ~At(k, "sent")
    BY DEF At
  <2> QED
    BY <2>1, <2>2, <2>3, <2>4
<1> QED
  BY <1>1, ContactsAlways, PTL

(* The Set that a stream found is the one that a publication finds, as     *)
(* long as the stream is open, however many Sets come and go and in        *)
(* whatever order streams are torn down; every other Set is empty.         *)
THEOREM StreamsAreFound == Spec => []OpenStreamsAreFound
<1>1. ASSUME StreamInv PROVE OpenStreamsAreFound
  <2>1. \A c \in Connections : Open(c) => connections[c].set \in Sets
    BY <1>1 DEF StreamInv, StreamTypeOK, Connection, Open
  <2>2. \A c \in Connections : Open(c) =>
          connections[c].set = entry /\ c \in members[connections[c].set]
    BY <1>1, <2>1 DEF StreamInv, SetsHold
  <2>3. \A s \in Sets : s # None
    BY StreamAssumption
  <2>4. ASSUME NEW s \in Sets, s # entry PROVE members[s] = {}
    BY <1>1, <2>3, <2>4 DEF StreamInv, SetsHold, Open
  <2> QED BY <2>2, <2>4 DEF OpenStreamsAreFound
<1> QED
  BY <1>1, ContactsAlways, PTL

(* The badge is right once nothing is on its way, for any number of        *)
(* events, streams and changes, if no two counts crossed and none failed.  *)
THEOREM BadgeIsRightWhenQuiet == Spec => []BadgeIsRight
<1>1. StreamInv => BadgeIsRight
  BY DEF StreamInv, CountsInOrder, CountsAreRight, EventToCome, OnTheWay, Asking,
         BadgeIsRight
<1> QED
  BY <1>1, ContactsAlways, PTL
=============================================================================
