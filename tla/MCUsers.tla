------------------------------- MODULE MCUsers --------------------------------
(* Instances of RateLimit, Accounts, Notes, Presence and Cluster for TLC: the  *)
(* counter of one visitor, the deletion of accounts, the versions of a note,   *)
(* the status of a user and the workers. One run visits each by itself: part   *)
(* says which one moves, and the others stay where they start.                 *)
EXTENDS Accounts, TLC

CONSTANTS
  Slots, Limit, Window,
  Editors, Writers, NoteSlots, AutoAge, Manual, MaxTime, MaxChanges, MaxSaves,
  Conns, Socks, Visible, Beside, MaxStarts,
  Cpus, Threads, Finished, Restarts, MaxDeaths, Unasked

VARIABLES
  part,
  record, ttl, pc, passed,
  time, note, versions, job, shown, changed, warm, changes, saves, behind, done, twins,
  status, stored, devices, conn, sock, start, switches, starts, unruly, crowded, swayed,
  workers, last, todo, deaths, unmissed, extra

\* The accounts are the instance that is extended: one, with a moderator, and an hour of
\* two ticks. MCLive has one with a bot, under two checks.
NoBots == [u \in Users |-> {}]

R == INSTANCE RateLimit
N == INSTANCE Notes WITH Slots <- NoteSlots, Auto <- AutoAge, now <- time, kept <- versions
P == INSTANCE Presence WITH changes <- switches
\* The connections are alike, so they are numbered in the order in which they come; either
\* the third of them comes or a socket does.
Few ==
  /\ \A c, d \in Conns : c < d /\ conn[d].pc # "new" => conn[c].pc # "new"
  /\ conn[3].pc = "new" \/ \A s \in Socks : sock[s].join = "new"

C == INSTANCE Cluster

ASSUME UsersAssumption ==
  AccountsAssumption /\ R!LimiterAssumption /\ N!NotesAssumption /\ P!PresenceAssumption
  /\ C!ClusterAssumption

rate == <<record, ttl, pc, passed>>
notes == <<time, note, versions, job, shown, changed, warm, changes, saves, behind, done, twins>>
presence == <<status, stored, devices, conn, sock, start, switches, starts, unruly, crowded, swayed>>
cluster == <<workers, last, todo, deaths, unmissed, extra>>
all == <<part, vars, rate, notes, presence, cluster>>

UsersInit ==
  /\ part \in {"rate", "accounts", "notes", "presence", "cluster"}
  /\ Init /\ R!Init /\ N!Init /\ P!Init /\ C!Init
  /\ part # "presence" => stored = "online"

UsersNext ==
  \/ part = "accounts" /\ Next /\ UNCHANGED <<part, rate, notes, presence, cluster>>
  \/ part = "rate" /\ R!Next /\ UNCHANGED <<part, vars, notes, presence, cluster>>
  \/ part = "notes" /\ N!Next /\ UNCHANGED <<part, vars, rate, presence, cluster>>
  \/ part = "presence" /\ P!Next /\ Few' /\ UNCHANGED <<part, vars, rate, notes, cluster>>
  \/ part = "cluster" /\ C!Next /\ UNCHANGED <<part, vars, rate, notes, presence>>

UsersSpec == UsersInit /\ [][UsersNext]_all

\* The saves of a note are alike.
Alike == Permutations(NoteSlots)

\* See the modules for what they say.
UsersTypeOK == TypeOK /\ R!TypeOK /\ N!TypeOK /\ P!TypeOK /\ C!TypeOK
Bounded == R!Bounded
VersionsAreSpaced == N!VersionsAreSpaced
StoredIsShown == N!StoredIsShown
PresenceAgrees == P!PresenceAgrees
WorkersAreRight == C!WorkersAreRight
===============================================================================
