----------------------------- MODULE Collections -----------------------------
(***************************************************************************)
(* Shared collections (collection.service.ts, collection.resolver.ts,      *)
(* cache.service.ts).  The tables say who owns a collection and who is in  *)
(* it; what a request may do is decided from one list per user in Redis,   *)
(* which the requests that change the tables rewrite entry by entry        *)
(* afterwards (resetCollectionCache) and a timer rewrites whole.           *)
(***************************************************************************)
EXTENDS Integers, FiniteSets

CONSTANTS
  Users,
  Collections,
  Slots,       \* requests that can be in flight at once, on all workers
  Grants,      \* the permissions that a row may be given
  Invited,     \* config.isV5: a new row has to be accepted
  MaxRequests, \* bound on the requests
  MaxCrashes,  \* bound on the workers that die
  NoOne,       \* the owner of a collection not made yet
  Gone,        \* the owner of a collection that was deleted
  NoRow,
  NoList       \* Redis has no list of the user

Perms == {"read", "write", "configure"}
\* What the owner's entry says: its userId is the user's.
Full == Perms \cup {"owner"}
\* The list has no entry of the collection.
NoEntry == {"absent"}

CollectionsAssumption ==
  /\ IsFiniteSet(Users) /\ NoOne \notin Users /\ Gone \notin Users /\ NoOne # Gone
  /\ Grants \subseteq SUBSET Perms
  /\ Invited \in BOOLEAN
  /\ MaxRequests \in Nat /\ MaxCrashes \in Nat
  /\ NoRow \notin [perms : SUBSET Perms, accepted : BOOLEAN]
  /\ NoList \notin [Collections -> (SUBSET Full) \cup {NoEntry}]

VARIABLES
  owner,   \* Collection.userId
  row,     \* the CollectionUser of a user in a collection
  orphan,  \* collections with a row without recipient
  list,    \* collections:<user>
  req,     \* the requests in flight
  made,    \* requests made so far
  crashes,
  \* history
  held,    \* what the tables have ever let a user do in a collection
  astray   \* entries that nobody is going to bring in line with the tables

tables == <<owner, row, orphan>>
vars == <<tables, list, req, made, crashes, held, astray>>

Rows == [perms : SUBSET Perms, accepted : BOOLEAN] \cup {NoRow}
Entries == (SUBSET Full) \cup {NoEntry}
Lists == [Collections -> Entries] \cup {NoList}

\* A request: what it does, to which collection, for whom, what it gives, how far it is,
\* what it has read, and the users whose lists it has still to write.
Idle == [op |-> "none", c |-> "none", actor |-> NoOne, target |-> NoOne, perms |-> {},
         pc |-> "idle", owner |-> NoOne, rows |-> [u \in Users |-> NoRow], orphan |-> FALSE,
         todo |-> {}, at |-> NoOne, copy |-> NoList]

At(s, pc) == req[s].pc = pc
Goto(s, pc) == req' = [req EXCEPT ![s].pc = pc]
Done(s) == req' = [req EXCEPT ![s] = Idle]

Exists(c) == owner[c] \in Users

\* Slip: every member is given what the owner is given.
EntryOfOwner(r) == Full

\* A member's entry in a list that is reset.  read: user.accepted !== false.
Entry(r) == (r.perms \cap {"write", "configure"}) \cup (IF r.accepted THEN {"read"} ELSE {})

\* What the owner o and the row r of a user let the user do.
Rights(o, r, u) ==
  IF o = u THEN Full
  ELSE IF r = NoRow THEN {}
  ELSE (r.perms \ {"read"}) \cup {p \in {"read"} : r.accepted}

\* getCollections: the user's own collections, and those the user has accepted.  Of the two
\* entries of an owner who is also a recipient only the first is kept, the one that is found.
Generated(u) ==
  [c \in Collections |-> IF owner[c] = u THEN Full
                         ELSE IF Exists(c) /\ row[c][u] # NoRow /\ row[c][u].accepted
                              THEN row[c][u].perms ELSE NoEntry]

\* getCollectionPermissions.
Allows(u, c, p) == list[u] # NoList /\ list[u][c] # NoEntry /\ p \in list[u][c]

\* The history after a step that has written the tables.
Remember == held' = [c \in Collections |-> [u \in Users |->
                      held[c][u] \cup Rights(owner'[c], row'[c][u], u)]]

Everyone(c) == Users \X {c}

------------------------------------------------------------------------------
(* Requests, up to what they write in the tables.                          *)

Begin(s, op, c, actor, target, perms, pc) ==
  /\ At(s, "idle") /\ made < MaxRequests
  /\ made' = made + 1
  /\ req' = [req EXCEPT ![s] = [Idle EXCEPT !.op = op, !.c = c, !.actor = actor,
                                  !.target = target, !.perms = perms, !.pc = pc]]
  /\ UNCHANGED <<tables, list, crashes, held, astray>>

\* addCollectionUser, updateCollectionUserPermissions, removeCollectionUser.
Manage(s, op, c, a, t, g) ==
  Allows(a, c, "configure") /\ Begin(s, op, c, a, t, g, "write")

\* createCollection, leaveCollection, actOnCollectionInvite ask no list; transferCollection
\* Ownership asks the tables and then waits for the password.
Own(s, op, c, a, t) ==
  /\ op = "create" => owner[c] = NoOne
  /\ op = "transfer" => owner[c] = a /\ row[c][t] # NoRow /\ row[c][t].accepted
  /\ Begin(s, op, c, a, t, {}, IF op = "transfer" THEN "orphan" ELSE "write")

\* deleteCollection (v3) asks the list whether it has the user as owner.
Delete(s, c, a) ==
  Allows(a, c, "owner") /\ Begin(s, "delete", c, a, a, {}, "affected")

SetRow(c, u, r) == row' = [row EXCEPT ![c][u] = r]

Written(s) == Goto(s, "load") /\ UNCHANGED <<orphan, list, made, crashes>> /\ Remember

\* Slip: the new row says nothing of having been accepted.
AddUnsaid(s) ==
  LET r == req[s] IN
  /\ At(s, "write") /\ r.op = "add"
  /\ Exists(r.c) /\ owner[r.c] # r.target /\ row[r.c][r.target] = NoRow
  /\ SetRow(r.c, r.target, [perms |-> r.perms, accepted |-> NoRow])
  /\ UNCHANGED <<owner, astray>> /\ Goto(s, "load")
  /\ UNCHANGED <<orphan, list, made, crashes, held>>

\* The identifier of the row is unique; the owner cannot be added.
Add(s) ==
  LET r == req[s] IN
  /\ At(s, "write") /\ r.op = "add"
  /\ Exists(r.c) /\ owner[r.c] # r.target /\ row[r.c][r.target] = NoRow
  /\ SetRow(r.c, r.target, [perms |-> r.perms, accepted |-> ~Invited])
  /\ UNCHANGED <<owner, astray>>
  /\ Written(s)

\* Nothing is said of a row that is not there.
Update(s) ==
  LET r == req[s] IN
  /\ At(s, "write") /\ r.op = "update"
  /\ row' = IF row[r.c][r.target] = NoRow THEN row
            ELSE [row EXCEPT ![r.c][r.target].perms = r.perms]
  /\ UNCHANGED <<owner, astray>>
  /\ Written(s)

\* removeCollectionUser, leaveCollection.
Remove(s) ==
  LET r == req[s] IN
  /\ At(s, "write") /\ r.op \in {"remove", "leave"}
  /\ row[r.c][r.target] # NoRow
  /\ SetRow(r.c, r.target, NoRow)
  /\ UNCHANGED <<owner, astray>>
  /\ Written(s)

Accept(s) ==
  LET r == req[s] IN
  /\ At(s, "write") /\ r.op = "accept"
  /\ row[r.c][r.target] # NoRow /\ ~row[r.c][r.target].accepted
  /\ row' = [row EXCEPT ![r.c][r.target].accepted = TRUE]
  /\ UNCHANGED <<owner, astray>>
  /\ Written(s)

\* The reset that follows does not visit the list of a user whose row is gone.
Reject(s) ==
  LET r == req[s] IN
  /\ At(s, "write") /\ r.op = "reject"
  /\ row[r.c][r.target] # NoRow /\ ~row[r.c][r.target].accepted
  /\ SetRow(r.c, r.target, NoRow)
  /\ astray' = astray \cup {<<r.target, r.c>>}
  /\ UNCHANGED owner
  /\ Written(s)

Create(s) ==
  LET r == req[s] IN
  /\ At(s, "write") /\ r.op = "create"
  /\ owner[r.c] = NoOne
  /\ owner' = [owner EXCEPT ![r.c] = r.actor]
  /\ UNCHANGED <<row, astray>>
  /\ Written(s)

\* The row is not, or no longer, what the request asks for.
Refuse(s) ==
  LET r == req[s] IN
  /\ At(s, "write")
  /\ \/ /\ r.op = "add"
        /\ ~Exists(r.c) \/ owner[r.c] = r.target \/ row[r.c][r.target] # NoRow
     \/ r.op \in {"remove", "leave", "accept", "reject"} /\ row[r.c][r.target] = NoRow
     \/ r.op \in {"accept", "reject"} /\ row[r.c][r.target] # NoRow /\ row[r.c][r.target].accepted
     \/ r.op = "create" /\ owner[r.c] # NoOne
  /\ Done(s)
  /\ UNCHANGED <<tables, list, made, crashes, held, astray>>

------------------------------------------------------------------------------
(* transferCollectionOwnership: three writes.  The row made for the former *)
(* owner has no recipient.                                                 *)

TransferRow(s) ==
  /\ At(s, "orphan")
  /\ orphan' = orphan \cup {req[s].c}
  /\ Goto(s, "unrow")
  /\ UNCHANGED <<owner, row, list, made, crashes, held, astray>>

\* The schema wants a recipient: where its defaults do not stand in for it, nothing is written.
TransferThrows(s) ==
  /\ At(s, "orphan")
  /\ Done(s)
  /\ UNCHANGED <<tables, list, made, crashes, held, astray>>

TransferUnrow(s) ==
  /\ At(s, "unrow")
  /\ SetRow(req[s].c, req[s].target, NoRow)
  /\ Goto(s, "own")
  /\ UNCHANGED <<owner, orphan, list, made, crashes, held, astray>>

\* Nothing that follows visits the list of the former owner: its row has no recipient.
TransferOwn(s) ==
  LET r == req[s] IN
  /\ At(s, "own")
  /\ owner' = IF Exists(r.c) THEN [owner EXCEPT ![r.c] = r.target] ELSE owner
  /\ astray' = IF Exists(r.c) THEN astray \cup {<<owner[r.c], r.c>>} ELSE astray
  /\ UNCHANGED row
  /\ Written(s)

------------------------------------------------------------------------------
(* resetCollectionCache.                                                   *)

\* The removed user's own list is the first to be written.
Load(s) ==
  LET r == req[s] IN
  /\ At(s, "load")
  /\ \/ /\ Exists(r.c)
        /\ req' = [req EXCEPT ![s].owner = owner[r.c], ![s].rows = row[r.c],
                              ![s].orphan = r.c \in orphan,
                              ![s].todo = {u \in Users : row[r.c][u] # NoRow},
                              ![s].at = r.target,
                              ![s].pc = IF r.op \in {"remove", "leave"} THEN "cutget" ELSE "visit"]
        /\ UNCHANGED astray
     \/ ~Exists(r.c) /\ Done(s) /\ astray' = astray \cup Everyone(r.c)
  /\ UNCHANGED <<tables, list, made, crashes, held>>

\* A list that is not there throws, and the catch-all ends the reset.
Fetch(s, u, pc) ==
  \/ /\ list[u] # NoList
     /\ req' = [req EXCEPT ![s].at = u, ![s].copy = list[u], ![s].pc = pc]
     /\ UNCHANGED astray
  \/ list[u] = NoList /\ Done(s) /\ astray' = astray \cup Everyone(req[s].c)

CutGet(s) ==
  /\ At(s, "cutget")
  /\ Fetch(s, req[s].target, "cutset")
  /\ UNCHANGED <<tables, list, made, crashes, held>>

\* What a write of the list of u loses: the entries others have written since it was read.
Lost(s) == LET r == req[s] IN
  {<<r.at, d>> : d \in {d \in Collections \ {r.c} : list[r.at] = NoList \/ list[r.at][d] # r.copy[d]}}

\* Whether the tables still say of the user what they said when they were read.
Stale(s) == LET r == req[s] IN
  owner[r.c] # r.owner \/ row[r.c][r.at] # r.rows[r.at]

Put(s, copy, pc) ==
  LET r == req[s] IN
  /\ list' = [list EXCEPT ![r.at] = copy]
  /\ Goto(s, pc)
  /\ UNCHANGED <<tables, made, crashes, held>>

\* The entry of the collection, or the last one if there is none: splice(-1, 1).  The model
\* does not keep the order of the entries: any other may be the last.
Cut(s) ==
  LET r == req[s] IN
  {d \in Collections : r.copy[d] # NoEntry /\ (r.copy[r.c] # NoEntry => d = r.c)}

\* After an entry of the request's collection is written: out of line if the tables were stale.
Mark(s) == LET r == req[s] IN
  astray' = IF Stale(s) THEN astray \cup Lost(s) \cup {<<r.at, r.c>>}
            ELSE (astray \cup Lost(s)) \ {<<r.at, r.c>>}

\* Slip: the removed user's list is written back as it was.
CutNothing(s) == At(s, "cutset") /\ Put(s, req[s].copy, "visit") /\ Mark(s)

CutSet(s) ==
  LET r == req[s] IN
  /\ At(s, "cutset")
  /\ \/ Cut(s) = {} /\ Put(s, r.copy, "visit") /\ Mark(s)
     \/ \E d \in Cut(s) :
          /\ Put(s, [r.copy EXCEPT ![d] = NoEntry], "visit")
          /\ IF d = r.c THEN Mark(s)
             ELSE astray' = astray \cup Lost(s) \cup {<<r.at, d>>}
                              \cup {e \in {<<r.at, r.c>>} : Stale(s)}

\* The members in the order of their rows, then the owner; a row without recipient throws
\* when its turn comes.
VisitGet(s) ==
  LET r == req[s] IN
  /\ At(s, "visit")
  /\ \/ /\ r.orphan /\ Done(s)
        /\ astray' = astray \cup Everyone(r.c)
     \/ \E u \in r.todo : Fetch(s, u, "visitset")
     \/ r.todo = {} /\ ~r.orphan /\ Fetch(s, r.owner, "visitset")
  /\ UNCHANGED <<tables, list, made, crashes, held>>

\* A member's entry carries the owner's id as well.
EntryOf(r) == Entry(r.rows[r.at]) \cup (IF r.owner = r.at THEN {"owner"} ELSE {})

VisitSet(s) ==
  LET r == req[s] IN
  /\ At(s, "visitset")
  /\ list' = [list EXCEPT ![r.at] = [r.copy EXCEPT ![r.c] = IF r.at \in r.todo THEN EntryOf(r) ELSE Full]]
  /\ Mark(s)
  /\ IF r.at \in r.todo THEN req' = [req EXCEPT ![s].todo = @ \ {r.at}, ![s].pc = "visit"]
     ELSE Done(s)
  /\ UNCHANGED <<tables, made, crashes, held>>

------------------------------------------------------------------------------
(* deleteCollection: three writes, and the lists of all who were in it; a  *)
(* row without recipient stands for every user.                            *)

Affected(s) ==
  LET c == req[s].c IN
  /\ At(s, "affected")
  /\ \/ ~Exists(c) /\ Done(s)
     \/ /\ Exists(c)
        /\ req' = [req EXCEPT ![s].pc = "drop",
                      ![s].todo = {u \in Users : u = req[s].actor \/ row[c][u] # NoRow
                                                 \/ c \in orphan}]
  /\ UNCHANGED <<tables, list, made, crashes, held, astray>>

\* Only the owner's request destroys the collection; its items and rows go either way.
Drop(s) ==
  LET r == req[s] IN
  /\ At(s, "drop")
  /\ owner' = IF owner[r.c] = r.actor THEN [owner EXCEPT ![r.c] = Gone] ELSE owner
  /\ Goto(s, "wipe")
  /\ UNCHANGED <<row, orphan, list, made, crashes, held, astray>>

Wipe(s) ==
  LET r == req[s] IN
  /\ At(s, "wipe")
  /\ row' = [row EXCEPT ![r.c] = [u \in Users |-> NoRow]]
  /\ orphan' = orphan \ {r.c}
  /\ astray' = astray \cup {<<u, r.c>> : u \in {u \in Users \ r.todo : row[r.c][u] # NoRow}}
  /\ Goto(s, "genget")
  /\ UNCHANGED <<owner, list, made, crashes, held>>

\* generateCollectionCache, hourly on one worker: the list of every user, one after another.
Generate(s) ==
  /\ At(s, "idle")
  /\ req' = [req EXCEPT ![s] = [Idle EXCEPT !.op = "generate", !.todo = Users, !.pc = "genget"]]
  /\ UNCHANGED <<tables, list, made, crashes, held, astray>>

GenGet(s) ==
  /\ At(s, "genget")
  /\ \E u \in req[s].todo :
       req' = [req EXCEPT ![s].at = u, ![s].copy = Generated(u), ![s].pc = "genset"]
  /\ UNCHANGED <<tables, list, made, crashes, held, astray>>

\* Slip: the list of a user who has no collection is left as it is.
GenSetSome(s) ==
  LET r == req[s] IN
  /\ At(s, "genset")
  /\ list' = IF \A d \in Collections : r.copy[d] = NoEntry THEN list ELSE [list EXCEPT ![r.at] = r.copy]
  /\ IF r.todo = {r.at} THEN Done(s)
     ELSE req' = [req EXCEPT ![s].todo = @ \ {r.at}, ![s].pc = "genget"]
  /\ UNCHANGED <<tables, made, crashes, held, astray>>

\* Entries that the tables no longer say are put astray, the others brought in line.
GenSet(s) ==
  LET r == req[s]
      right == {d \in Collections : r.copy[d] = Generated(r.at)[d]}
  IN
  /\ At(s, "genset")
  /\ list' = [list EXCEPT ![r.at] = r.copy]
  /\ astray' = (astray \ ({r.at} \X right)) \cup ({r.at} \X (Collections \ right))
  /\ IF r.todo = {r.at} THEN Done(s)
     ELSE req' = [req EXCEPT ![s].todo = @ \ {r.at}, ![s].pc = "genget"]
  /\ UNCHANGED <<tables, made, crashes, held>>

\* The worker dies, and the request with it.
Crash(s) ==
  /\ ~At(s, "idle") /\ crashes < MaxCrashes
  /\ crashes' = crashes + 1
  /\ astray' = astray \cup (IF req[s].op = "generate" THEN {} ELSE Everyone(req[s].c))
  /\ Done(s)
  /\ UNCHANGED <<tables, list, made, held>>

------------------------------------------------------------------------------
\* The tables are in order, and a list is there, in line with them, or not at all.
Init ==
  /\ owner \in [Collections -> Users \cup {NoOne}]
  /\ row \in [Collections -> [Users -> [perms : Grants, accepted : {TRUE, ~Invited}] \cup {NoRow}]]
  /\ \A c \in Collections, u \in Users : owner[c] \in {NoOne, u} => row[c][u] = NoRow
  /\ orphan = {}
  /\ \E L \in SUBSET Users : list = [u \in Users |-> IF u \in L THEN Generated(u) ELSE NoList]
  /\ req = [s \in Slots |-> Idle]
  /\ made = 0 /\ crashes = 0
  /\ held = [c \in Collections |-> [u \in Users |-> Rights(owner[c], row[c][u], u)]]
  /\ astray = {}

Arrive(s) ==
  \E c \in Collections, a \in Users :
    \/ \E op \in {"add", "update", "remove"}, t \in Users \ {a} :
         \E g \in IF op = "remove" THEN {{}} ELSE Grants : Manage(s, op, c, a, t, g)
    \/ \E op \in {"create", "leave", "accept", "reject"} : Own(s, op, c, a, a)
    \/ \E t \in Users \ {a} : Own(s, "transfer", c, a, t)
    \/ Delete(s, c, a)

Step(s) ==
  \/ Add(s) \/ Update(s) \/ Remove(s) \/ Accept(s) \/ Reject(s) \/ Create(s) \/ Refuse(s)
  \/ TransferRow(s) \/ TransferThrows(s) \/ TransferUnrow(s) \/ TransferOwn(s)
  \/ Load(s) \/ CutGet(s) \/ CutSet(s) \/ VisitGet(s) \/ VisitSet(s)
  \/ Affected(s) \/ Drop(s) \/ Wipe(s) \/ GenGet(s) \/ GenSet(s)

Next == \E s \in Slots : Arrive(s) \/ Generate(s) \/ Step(s) \/ Crash(s)

Spec == Init /\ [][Next]_vars

\* Handlers run to their end, and the timer goes off again and again.
FairSpec ==
  /\ Spec
  /\ \A s \in Slots : WF_vars(Step(s))
  /\ WF_vars(\E s \in Slots : Generate(s))

------------------------------------------------------------------------------
Ops == {"add", "update", "remove", "create", "leave", "accept", "reject", "transfer", "delete",
        "generate"}
Points == {"write", "orphan", "unrow", "own", "load", "cutget", "cutset", "visit", "visitset",
           "affected", "drop", "wipe", "genget", "genset"}

Requests == [op : Ops \cup {"none"}, c : Collections \cup {"none"}, actor : Users \cup {NoOne},
             target : Users \cup {NoOne}, perms : SUBSET Perms, pc : Points \cup {"idle"},
             owner : Users \cup {NoOne}, rows : [Users -> Rows], orphan : BOOLEAN,
             todo : SUBSET Users, at : Users \cup {NoOne}, copy : Lists]

TypeOK ==
  /\ owner \in [Collections -> Users \cup {NoOne, Gone}]
  /\ row \in [Collections -> [Users -> Rows]]
  /\ orphan \subseteq Collections
  /\ list \in [Users -> Lists]
  /\ req \in [Slots -> Requests]
  /\ made \in 0..MaxRequests /\ crashes \in 0..MaxCrashes
  /\ held \in [Collections -> [Users -> SUBSET Full]]
  /\ astray \subseteq Users \X Collections

\* However the resets overlap, die or throw, and whichever stale list or snapshot is written
\* back: what a user's list lets them do in a collection, the tables have at some time let
\* them do.  Reading takes an accepted invitation, and managing a grant.
AccessIsEarned ==
  \A u \in Users, c \in Collections :
    list[u] # NoList /\ list[u][c] # NoEntry => list[u][c] \subseteq held[c][u]

AtRest == \A s \in Slots : At(s, "idle")

\* What the list may say of c: the reset's entry, or the one of the full generation, which
\* leaves out what is not accepted and takes `read` from the row.
Agrees(e, u, c) ==
  \/ e # NoEntry /\ (owner[c] = u \/ row[c][u] # NoRow) /\ e = Rights(owner[c], row[c][u], u)
  \/ e = Generated(u)[c]

\* When the requests have ended, the lists say what the tables say, but for the entries that
\* an overlapping reset, a reset that threw or died, a rejected invitation, a transfer that
\* forgets the former owner or a removal that cut the wrong entry has put astray.
ListsTellTheTables ==
  AtRest => \A u \in Users, c \in Collections :
    list[u] = NoList \/ <<u, c>> \in astray \/ Agrees(list[u][c], u, c)

\* Once the requests are over, the timer takes away every right that the tables do not give,
\* whatever left it in the list.
StaleAccessEnds ==
  <>[](\A u \in Users, c \in Collections :
         list[u] # NoList /\ list[u][c] # NoEntry =>
           list[u][c] \subseteq Rights(owner[c], row[c][u], u))
==============================================================================
