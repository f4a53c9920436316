------------------------- MODULE NotificationStream -------------------------
(***************************************************************************)
(* The in-app notifications of one user, the server-sent stream that       *)
(* announces them, and the badge in the browser that shows how many are    *)
(* unread.                                                                 *)
(*                                                                         *)
(* Every change of a row is one statement.  After it, the service looks up *)
(* the Set of the user's subscribers in its map, asks for the unread count *)
(* with another statement, and hands the answer to whoever is then in that *)
(* Set.  A stream and an event keep the Set they found: the teardown of a  *)
(* stream deletes it from that Set and, if the Set is empty then, removes  *)
(* the user's entry from the map without looking which Set it holds.       *)
(* Counts replace each other in the browser: what matters is their order.  *)
(*                                                                         *)
(* The fan-out is in the memory of one API process, as docs/notifications  *)
(* says; Restart is that process.  A message on an open connection arrives *)
(* at once here: a later one cannot overtake it, and one that is on its    *)
(* way when the connection goes is one that was not sent.                  *)
(***************************************************************************)
EXTENDS Naturals, FiniteSets

CONSTANTS Notes,        \* rows of notifications of this user
          Publishes,    \* events being published at the same time
          Connections,  \* streams that are open at the same time
          Sets,         \* Set objects that something holds at the same time
          None          \* no connection, no Set, no count

ASSUME StreamAssumption ==
  IsFiniteSet(Notes) /\ None \notin Connections \cup Sets \cup Nat

VARIABLES
  notes,        \* notes[n]: the row
  publishes,    \* publishes[p]: an event on its way
  entry,        \* the Set that the map holds for the user
  members,      \* members[s]: the streams in the Set s
  connections,  \* connections[c]: the Observable of a stream
  current,      \* the EventSource of the browser
  badge,        \* unreadCount in the browser
  crossed,      \* history: two counts were on their way to this EventSource
  lost          \* history: the count of an event for it failed

streamVars == <<notes, publishes, entry, members, connections, current, badge,
                crossed, lost>>

Counts == 0..Cardinality(Notes) \cup {None}
Publish == [at : {"idle", "committed", "asked", "counted"},
            set : Sets \cup {None}, count : Counts]
Connection == [set : Sets \cup {None}, snapshot : {"none", "asked", "counted"},
               count : Counts]

NoPublish == [at |-> "idle", set |-> None, count |-> None]
NoConnection == [set |-> None, snapshot |-> "none", count |-> None]

StreamInit ==
  /\ notes = [n \in Notes |-> "none"]
  /\ publishes = [p \in Publishes |-> NoPublish]
  /\ entry = None
  /\ members = [s \in Sets |-> {}]
  /\ connections = [c \in Connections |-> NoConnection]
  /\ current = None
  /\ badge = None
  /\ crossed = FALSE
  /\ lost = FALSE

-----------------------------------------------------------------------------
Unread == Cardinality({n \in Notes : notes[n] = "unread"})

Open(c) == connections[c].set # None

(* The event holds the Set that the map holds.                             *)
Asking(p) ==
  publishes[p].at \in {"asked", "counted"} /\ publishes[p].set = entry

(* Counts that have been asked for and will reach the current EventSource. *)
OnTheWay ==
  \/ \E p \in Publishes : Asking(p)
  \/ current # None /\ connections[current].snapshot # "none"

(* A statement commits; its service has yet to publish the event.          *)
Commit(p, rows) ==
  /\ publishes[p].at = "idle"
  /\ notes' = rows
  /\ publishes' = [publishes EXCEPT ![p].at = "committed"]
  /\ UNCHANGED <<entry, members, connections, current, badge, crossed, lost>>

Create(n, p) ==
  /\ notes[n] = "none"
  /\ Commit(p, [notes EXCEPT ![n] = "unread"])

(* A row that is read already stays as it is, and is announced again.      *)
MarkRead(n, p) ==
  /\ notes[n] \in {"unread", "read"}
  /\ Commit(p, [notes EXCEPT ![n] = "read"])

MarkAllRead(p) ==
  Commit(p, [n \in Notes |-> IF notes[n] = "unread" THEN "read" ELSE notes[n]])

(* Mutant: a deletion is not announced.                                    *)
DeleteM(n, p) ==
  /\ notes[n] \in {"unread", "read"} /\ publishes[p].at = "idle"
  /\ notes' = [notes EXCEPT ![n] = "deleted"]
  /\ UNCHANGED <<publishes, entry, members, connections, current, badge,
                 crossed, lost>>

Delete(n, p) ==
  /\ notes[n] \in {"unread", "read"}
  /\ Commit(p, [notes EXCEPT ![n] = "deleted"])

-----------------------------------------------------------------------------
(* The user has an entry and somebody is in it.                            *)
Subscribed == entry # None /\ members[entry] # {}

(* publishToUser: without subscribers there is no event.                   *)
PublishToUser(p) ==
  /\ publishes[p].at = "committed"
  /\ publishes' = [publishes EXCEPT ![p] =
                     IF Subscribed THEN [@ EXCEPT !.at = "asked", !.set = entry]
                     ELSE NoPublish]
  /\ crossed' = (crossed \/ (Subscribed /\ OnTheWay))
  /\ UNCHANGED <<notes, entry, members, connections, current, badge, lost>>

CountForEvent(p) ==
  /\ publishes[p].at = "asked"
  /\ publishes' = [publishes EXCEPT ![p].at = "counted", ![p].count = Unread]
  /\ UNCHANGED <<notes, entry, members, connections, current, badge, crossed,
                 lost>>

(* The failure of the query is swallowed.                                  *)
CountFails(p) ==
  /\ publishes[p].at = "asked"
  /\ publishes' = [publishes EXCEPT ![p] = NoPublish]
  /\ lost' = (lost \/ Asking(p))
  /\ UNCHANGED <<notes, entry, members, connections, current, badge, crossed>>

(* Everybody who is by now in the event's Set gets the message.            *)
Deliver(p) ==
  /\ publishes[p].at = "counted"
  /\ publishes' = [publishes EXCEPT ![p] = NoPublish]
  /\ badge' = IF current \in members[publishes[p].set]
                THEN publishes[p].count ELSE badge
  /\ UNCHANGED <<notes, entry, members, connections, current, crossed, lost>>

-----------------------------------------------------------------------------
(* Nothing holds the Set: it stands for one that is made now.              *)
New(s) ==
  /\ members[s] = {}
  /\ \A c \in Connections : connections[c].set # s
  /\ \A p \in Publishes : publishes[p].set # s

(* subscribeToUser: the Set of the user's entry, or a new one.             *)
Subscribe(c, s) ==
  /\ IF entry = None THEN New(s) ELSE s = entry
  /\ members' = [members EXCEPT ![s] = @ \cup {c}]
  /\ entry' = s

(* The page is opened, navigates or reconnects: the stream subscribes and  *)
(* then asks for the unread count.                                         *)
Connect(c, s) ==
  /\ current = None /\ ~Open(c)
  /\ current' = c
  /\ Subscribe(c, s)
  /\ connections' = [connections EXCEPT ![c] =
                       [set |-> s, snapshot |-> "asked", count |-> None]]
  /\ crossed' = \E p \in Publishes : Asking(p)
  /\ lost' = FALSE
  /\ UNCHANGED <<notes, publishes, badge>>

CountForSnapshot(c) ==
  /\ connections[c].snapshot = "asked"
  /\ connections' = [connections EXCEPT ![c].snapshot = "counted",
                                        ![c].count = Unread]
  /\ UNCHANGED <<notes, publishes, entry, members, current, badge, crossed, lost>>

SendSnapshot(c) ==
  /\ connections[c].snapshot = "counted"
  /\ connections' = [connections EXCEPT ![c].snapshot = "none",
                                        ![c].count = None]
  /\ badge' = IF c = current THEN connections[c].count ELSE badge
  /\ UNCHANGED <<notes, publishes, entry, members, current, crossed, lost>>

(* The browser navigates, closes the page or loses the connection.  The    *)
(* badge keeps its number, and the server learns of it later.              *)
Leave ==
  /\ current # None
  /\ current' = None
  /\ UNCHANGED <<notes, publishes, entry, members, connections, badge, crossed,
                 lost>>

(* Mutant: the user's entry goes with any of its streams.                  *)
EntryAfterM(left) == None

(* What becomes of the user's entry, whatever Set it holds, when a stream  *)
(* has left those behind in its own Set.                                   *)
EntryAfter(left) == IF left = {} THEN None ELSE entry

(* The teardown of an Observable, with the Set it subscribed to.           *)
Unsubscribe(c) ==
  LET left == members[connections[c].set] \ {c}
  IN /\ members' = [members EXCEPT ![connections[c].set] = left]
     /\ entry' = EntryAfter(left)
     /\ connections' = [connections EXCEPT ![c] = NoConnection]

Close(c) ==
  /\ Open(c) /\ c # current
  /\ Unsubscribe(c)
  /\ UNCHANGED <<notes, publishes, current, badge, crossed, lost>>

(* The snapshot's query fails: the stream ends with an error.              *)
SnapshotFails(c) ==
  /\ connections[c].snapshot = "asked"
  /\ Unsubscribe(c)
  /\ current' = IF current = c THEN None ELSE current
  /\ UNCHANGED <<notes, publishes, badge, crossed, lost>>

Restart ==
  /\ publishes' = [p \in Publishes |-> NoPublish]
  /\ entry' = None
  /\ members' = [s \in Sets |-> {}]
  /\ connections' = [c \in Connections |-> NoConnection]
  /\ current' = None
  /\ UNCHANGED <<notes, badge, crossed, lost>>

StreamStep ==
  \/ \E p \in Publishes :
       \/ \E n \in Notes : MarkRead(n, p) \/ Delete(n, p)
       \/ MarkAllRead(p)
       \/ PublishToUser(p) \/ CountForEvent(p) \/ CountFails(p) \/ Deliver(p)
  \/ \E c \in Connections :
       \/ \E s \in Sets : Connect(c, s)
       \/ Close(c)
       \/ CountForSnapshot(c) \/ SendSnapshot(c) \/ SnapshotFails(c)
  \/ Leave \/ Restart

-----------------------------------------------------------------------------
StreamTypeOK ==
  /\ notes \in [Notes -> {"none", "unread", "read", "deleted"}]
  /\ publishes \in [Publishes -> Publish]
  /\ entry \in Sets \cup {None}
  /\ members \in [Sets -> SUBSET Connections]
  /\ connections \in [Connections -> Connection]
  /\ current \in Connections \cup {None}
  /\ badge \in Counts
  /\ crossed \in BOOLEAN /\ lost \in BOOLEAN

(* Whatever the order in which pages open and close, the Set that a stream *)
(* found when it opened is the one that publishToUser finds now: no other  *)
(* Set has replaced it, and no teardown of another stream, which cannot    *)
(* tell them apart, has removed it.  Every Set left behind is empty, so an *)
(* event that still holds one reaches nobody.                              *)
OpenStreamsAreFound ==
  /\ \A c \in Connections :
       Open(c) => connections[c].set = entry /\ c \in members[connections[c].set]
  /\ \A s \in Sets : s # entry => members[s] = {}

(* Once nothing is on its way, the badge shows the unread count: no change *)
(* falls between the subscription, the snapshot and the events, whatever   *)
(* dies or reconnects in between.  Two counts that were on their way       *)
(* together can arrive in the wrong order, and a failed one is not         *)
(* repeated; the next connection corrects both.                            *)
BadgeIsRight ==
  /\ current # None
  /\ connections[current].snapshot = "none"
  /\ \A p \in Publishes : publishes[p].at = "idle"
  /\ ~crossed /\ ~lost
  => badge = Unread
=============================================================================
