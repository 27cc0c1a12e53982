------------------------------ MODULE Presence -------------------------------
(***************************************************************************)
(* The presence of one user: the status that others are shown, a column of *)
(* the User row, and the devices in Redis.  Each subscription connection   *)
(* (server.ts) and each socket of the namespace /user (user.socket.ts)     *)
(* changes them when it comes and when it goes; a worker that starts       *)
(* forgets them (app.ts), whoever is connected to the other workers.       *)
(***************************************************************************)
EXTENDS Integers, Sequences, FiniteSets, SequencesExt

CONSTANTS
  Conns,      \* subscription connections, each comes once
  Socks,      \* sockets of the namespace /user, each comes once
  Visible,    \* the stored statuses that others are shown
  Beside,     \* the devices beside which one more is listed: 3
  MaxChanges, \* bound on the changes of the stored status
  MaxStarts,  \* bound on the workers that start
  NoDoc

PresenceAssumption ==
  /\ Visible # {} /\ {"offline", "invisible"} \cap Visible = {}
  /\ NoDoc \notin Seq(Conns)
  /\ Beside \in Nat /\ MaxChanges \in Nat /\ MaxStarts \in Nat

VARIABLES
  status,   \* User.status
  stored,   \* User.storedStatus
  devices,  \* user:<id>:platforms, the newest first
  conn,     \* how far the handlers of a connection are, what they read
  sock,     \* the two handlers of a socket
  start,    \* how far a worker that starts is
  changes, starts,
  \* history
  unruly,   \* handlers of connections or a start overlapped, or some did not run
  crowded,  \* more than Beside + 1 were connected at once
  swayed    \* "came", "went": sockets wrote the status

vars == <<status, stored, devices, conn, sock, start, changes, starts, unruly, crowded, swayed>>

Stored == Visible \cup {"invisible"}
Docs == {NoDoc} \cup Seq(Conns)

\* The list with a new device first; the last is forgotten when there are many.
Entry(doc, c) ==
  LET known == IF doc = NoDoc THEN <<>> ELSE doc
  IN <<c>> \o (IF Len(known) > Beside THEN Front(known) ELSE known)

\* Slip: a disconnection forgets them all.
Forgetting(doc, c) == <<>>

\* The list without a device: filter.
Without(doc, c) ==
  LET kept[n \in 0..Len(doc)] ==
        IF n = 0 THEN <<>> ELSE IF doc[n] = c THEN kept[n - 1] ELSE Append(kept[n - 1], doc[n])
  IN kept[Len(doc)]

\* `socket.in(user.id)` looks in the namespace "/", whose room of the user nobody enters.
Found == {}

InFlight == {c \in Conns : conn[c].pc \notin {"new", "up", "gone"}}
InFlightSocks == {s \in Socks : "status" \in {sock[s].join, sock[s].leave}}
Busy == InFlight # {} \/ start # "none"

Up == {c \in Conns : conn[c].pc = "up"}
\* Connections that are there and were not accepted as invisible ones.
Seen == {c \in Up : conn[c].as \in Visible}

------------------------------------------------------------------------------
Go(c, pc) == conn' = [conn EXCEPT ![c].pc = pc]

\* onConnect: the session, and with it the stored status.
Accept(c) ==
  /\ conn[c].pc = "new"
  /\ conn' = [conn EXCEPT ![c].pc = IF stored = "invisible" THEN "up" ELSE "status", ![c].as = stored]
  /\ unruly' = (unruly \/ Busy)
  /\ UNCHANGED <<status, stored, devices, sock, start, changes, starts, crowded, swayed>>

Appear(c) ==
  /\ conn[c].pc = "status"
  /\ status' = conn[c].as
  /\ Go(c, "read")
  /\ UNCHANGED <<stored, devices, sock, start, changes, starts, unruly, crowded, swayed>>

ReadDevices(c) ==
  /\ conn[c].pc = "read"
  /\ conn' = [conn EXCEPT ![c].pc = "write", ![c].doc = devices]
  /\ UNCHANGED <<status, stored, devices, sock, start, changes, starts, unruly, crowded, swayed>>

\* A connection that closed meanwhile was not acknowledged: nothing runs for its end.
WriteDevices(c) ==
  /\ conn[c].pc = "write"
  /\ devices' = Entry(conn[c].doc, c)
  /\ conn' = [conn EXCEPT ![c].pc = IF conn[c].closed THEN "gone" ELSE "up", ![c].doc = NoDoc]
  /\ crowded' = (crowded \/ Cardinality(Seen) > Beside)
  /\ UNCHANGED <<status, stored, sock, start, changes, starts, unruly, swayed>>

\* The connection closes before onConnect is through.
CloseEarly(c) ==
  /\ conn[c].pc \in {"status", "read", "write"} /\ ~conn[c].closed
  /\ conn' = [conn EXCEPT ![c].closed = TRUE]
  /\ unruly' = TRUE
  /\ UNCHANGED <<status, stored, devices, sock, start, changes, starts, crowded, swayed>>

\* onDisconnect reads the devices; without a document it ends.
Leave(c) ==
  /\ conn[c].pc = "up"
  /\ conn' = [conn EXCEPT ![c].doc = IF devices = NoDoc THEN NoDoc ELSE Without(devices, c),
                          ![c].pc = IF devices = NoDoc THEN "gone"
                                    ELSE IF Without(devices, c) = <<>> THEN "last" ELSE "store"]
  /\ unruly' = (unruly \/ Busy)
  /\ UNCHANGED <<status, stored, devices, sock, start, changes, starts, crowded, swayed>>

\* The last one turns the user offline, before the list is written.
Disappear(c) ==
  /\ conn[c].pc = "last"
  /\ status' = "offline"
  /\ Go(c, "store")
  /\ UNCHANGED <<stored, devices, sock, start, changes, starts, unruly, crowded, swayed>>

StoreDevices(c) ==
  /\ conn[c].pc = "store"
  /\ devices' = conn[c].doc
  /\ conn' = [conn EXCEPT ![c].pc = "gone", ![c].doc = NoDoc]
  /\ UNCHANGED <<status, stored, sock, start, changes, starts, unruly, crowded, swayed>>

------------------------------------------------------------------------------
\* A socket of /user: reads the user, and writes the stored status if the other one differs.
Join(s) ==
  /\ sock[s].join = "new"
  /\ sock' = [sock EXCEPT ![s].join = IF stored \in Visible /\ status # stored THEN "status" ELSE "done",
                          ![s].as = stored]
  /\ swayed' = swayed \cup {"came"}
  /\ UNCHANGED <<status, stored, devices, conn, start, changes, starts, unruly, crowded>>

Joined(s) ==
  /\ sock[s].join = "status"
  /\ status' = sock[s].as
  /\ sock' = [sock EXCEPT ![s].join = "done"]
  /\ UNCHANGED <<stored, devices, conn, start, changes, starts, unruly, crowded, swayed>>

\* It goes, perhaps before it was through with coming; as no other socket is ever found, the
\* user is taken for offline.
Part(s) ==
  /\ sock[s].join # "new" /\ sock[s].leave = "new"
  /\ sock' = [sock EXCEPT ![s].leave = IF Found = {} /\ stored # "invisible" THEN "status" ELSE "done"]
  /\ swayed' = swayed \cup {"went"}
  /\ UNCHANGED <<status, stored, devices, conn, start, changes, starts, unruly, crowded>>

Parted(s) ==
  /\ sock[s].leave = "status"
  /\ status' = "offline"
  /\ sock' = [sock EXCEPT ![s].leave = "done"]
  /\ UNCHANGED <<stored, devices, conn, start, changes, starts, unruly, crowded, swayed>>

------------------------------------------------------------------------------
\* updateUser would write the status too, if it found a socket of the user.
ChangeStored(new) ==
  /\ changes < MaxChanges /\ new # stored
  /\ changes' = changes + 1 /\ stored' = new
  /\ status' = IF Found = {} THEN status ELSE IF new = "invisible" THEN "offline" ELSE new
  /\ UNCHANGED <<devices, conn, sock, start, starts, unruly, crowded, swayed>>

\* A worker dies with its connections and what they were busy with, or none did and one more
\* starts.
WorkerStarts(lost) ==
  /\ start = "none" /\ starts < MaxStarts
  /\ lost \subseteq Up \cup InFlight \cup {s \in Socks : sock[s].join # "new"}
  /\ starts' = starts + 1 /\ start' = "status"
  /\ conn' = [c \in Conns |-> IF c \in lost THEN [conn[c] EXCEPT !.pc = "gone", !.doc = NoDoc] ELSE conn[c]]
  /\ sock' = [s \in Socks |-> IF s \in lost THEN [sock[s] EXCEPT !.join = "done", !.leave = "done"] ELSE sock[s]]
  /\ unruly' = TRUE
  /\ UNCHANGED <<status, stored, devices, changes, crowded, swayed>>

\* With nobody connected, and nobody who connects before it is through, everything will be as at
\* the beginning, but for what sockets have still to write.
StartStatus ==
  /\ start = "status"
  /\ status' = "offline" /\ start' = "keys"
  /\ unruly' = (Up \cup InFlight # {})
  /\ swayed' = IF InFlightSocks = {} THEN {} ELSE swayed
  /\ UNCHANGED <<stored, devices, conn, sock, changes, starts, crowded>>

StartKeys ==
  /\ start = "keys"
  /\ start' = IF devices = NoDoc THEN "end" ELSE "delete"
  /\ UNCHANGED <<status, stored, devices, conn, sock, changes, starts, unruly, crowded, swayed>>

StartDelete ==
  /\ start = "delete"
  /\ devices' = NoDoc /\ start' = "end"
  /\ UNCHANGED <<status, stored, conn, sock, changes, starts, unruly, crowded, swayed>>

StartEnds ==
  /\ start = "end"
  /\ start' = "none"
  /\ UNCHANGED <<status, stored, devices, conn, sock, changes, starts, unruly, crowded, swayed>>

Init ==
  /\ status = "offline" /\ stored \in Stored /\ devices = NoDoc
  /\ conn = [c \in Conns |-> [pc |-> "new", as |-> "none", doc |-> NoDoc, closed |-> FALSE]]
  /\ sock = [s \in Socks |-> [join |-> "new", leave |-> "new", as |-> "none"]]
  /\ start = "none" /\ changes = 0 /\ starts = 0 /\ unruly = FALSE /\ crowded = FALSE /\ swayed = {}

Comes(c) == Accept(c) \/ Appear(c) \/ ReadDevices(c) \/ WriteDevices(c) \/ CloseEarly(c)
Goes(c) == Leave(c) \/ Disappear(c) \/ StoreDevices(c)
Socket(s) == Join(s) \/ Joined(s) \/ Part(s) \/ Parted(s)
Starts == StartStatus \/ StartKeys \/ StartDelete \/ StartEnds

Next ==
  \/ \E c \in Conns : Comes(c) \/ Goes(c)
  \/ \E s \in Socks : Socket(s)
  \/ \E new \in Stored : ChangeStored(new)
  \/ \E lost \in SUBSET (Conns \cup Socks) : WorkerStarts(lost)
  \/ Starts

Spec == Init /\ [][Next]_vars

------------------------------------------------------------------------------
TypeOK ==
  /\ status \in Visible \cup {"offline"} /\ stored \in Stored
  /\ devices = NoDoc \/ devices \in Seq(Conns)
  /\ \A c \in Conns :
       /\ conn[c].pc \in {"new", "status", "read", "write", "up", "last", "store", "gone"}
       /\ conn[c].as \in Stored \cup {"none"} /\ conn[c].closed \in BOOLEAN
       /\ conn[c].doc = NoDoc \/ conn[c].doc \in Seq(Conns)
  /\ \A s \in Socks :
       /\ sock[s].join \in {"new", "status", "done"} /\ sock[s].leave \in {"new", "status", "done"}
       /\ sock[s].as \in Stored \cup {"none"}
  /\ start \in {"none", "status", "keys", "delete", "end"}
  /\ changes \in 0..MaxChanges /\ starts \in 0..MaxStarts
  /\ unruly \in BOOLEAN /\ crowded \in BOOLEAN /\ swayed \subseteq {"came", "went"}

Listed == IF devices = NoDoc THEN {} ELSE ToSet(devices)

\* Between handlers of connections that ran one after the other, or after a start that found
\* nobody connected: every device listed is connected, and every connection is listed unless
\* there were too many. The user is not offline while a device is listed unless a socket went,
\* and is offline while none is unless a socket came.
PresenceIsRight ==
  ~Busy /\ ~unruly =>
    /\ Listed \subseteq Seen
    /\ ~crowded => Seen = Listed
    /\ "went" \notin swayed /\ Listed # {} => status # "offline"
    /\ "came" \notin swayed /\ Listed = {} => status = "offline"

\* However the handlers interleave, the list stays short, and it names no device twice.
ListIsShort ==
  devices # NoDoc => Len(devices) <= Beside + 1 /\ Len(devices) = Cardinality(Listed)

\* The list of devices, the connections and the status agree.
PresenceAgrees == PresenceIsRight /\ ListIsShort
==============================================================================
