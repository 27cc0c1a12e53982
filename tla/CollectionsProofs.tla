-------------------------- MODULE CollectionsProofs --------------------------
(***************************************************************************)
(* Five theorems, for any users, collections, links, files, rules,         *)
(* requests and workers that die.                                          *)
(*                                                                         *)
(* AccessIsEarned.  A right can reach a list from three places: the tables *)
(* of the moment, the rows that a reset has read, and a copy of the list   *)
(* made earlier.  The inductive invariant IInv says of each that it gives  *)
(* nothing that the tables have not once given; what has been held is      *)
(* never taken back.                                                       *)
(*                                                                         *)
(* ListsTellTheTables.  Every difference between a list and the tables is  *)
(* somebody's debt: the invariant LInv names, for each place of a request, *)
(* the entries that it is still going to write or to give up.  When no     *)
(* request is left there are no debts.                                     *)
(*                                                                         *)
(* KeysTellTheLinks, of ShareLinks.  In a tidy history one request or one  *)
(* sweep is under way at a time, and the invariant LinkInv says by how     *)
(* much the keys are then away from the links of the rows.                 *)
(*                                                                         *)
(* UploadsAreAccounted and ListTellsTheApprovals, of Uploads. The          *)
(* invariant UploadInv says what each request and each scan still has to   *)
(* do about a file: count it, count it off, clear it, tell the document of *)
(* an approval; and that an approval is made once, so that what has been   *)
(* read or is being taken out of the document is none that is yet to be    *)
(* made.                                                                   *)
(***************************************************************************)
EXTENDS MCFiles, Sequences, TLAPS

\* A list l of the user u that gives nothing unearned.
Earned(l, u, h) ==
  l # NoList => \A c \in Collections : l[c] # NoEntry => l[c] \subseteq h[c][u]

\* What a request carries: rows that it has read, a list that it has copied.
Honest(r, h) ==
  /\ r \in Requests
  /\ r.pc \notin {"idle", "genget", "genset"} => r.c \in Collections /\ r.target \in Users
  /\ r.c \in Collections => \A u \in Users : Rights(r.owner, r.rows[u], u) \subseteq h[r.c][u]
  /\ r.pc \in {"cutset", "visitset", "genset"} =>
       r.at \in Users /\ r.copy # NoList /\ Earned(r.copy, r.at, h)
  /\ r.pc \in {"visit", "cutget", "cutset", "visitset"} =>
       r.owner \in Users /\ \A u \in r.todo : r.rows[u] # NoRow
  /\ r.pc = "visitset" => r.at \in r.todo \cup {r.owner}

Held == [Collections -> [Users -> SUBSET Full]]

Shape ==
  /\ owner \in [Collections -> Users \cup {NoOne, Gone}]
  /\ row \in [Collections -> [Users -> Rows]]
  /\ list \in [Users -> Lists]
  /\ held \in Held

Given == \A c \in Collections, u \in Users : Rights(owner[c], row[c][u], u) \subseteq held[c][u]
ListsEarned == \A u \in Users : Earned(list[u], u, held)
Requested == req \in [Slots -> Requests] /\ \A s \in Slots : Honest(req[s], held)

IInv == Shape /\ Given /\ ListsEarned /\ Requested

------------------------------------------------------------------------------
\* Rights are taken from what there is.
LEMMA RightsInFull ==
  ASSUME NEW o, NEW r \in Rows, NEW u PROVE Rights(o, r, u) \in SUBSET Full
  BY DEF Rights, Rows, Full, Perms

\* An entry that a reset writes gives what the rows that it has read give.
LEMMA EntryIsRight ==
  ASSUME CollectionsAssumption, NEW r \in Requests, r.at \in Users, r.rows[r.at] # NoRow
  PROVE  EntryOf(r) \in SUBSET Full /\ EntryOf(r) \subseteq Rights(r.owner, r.rows[r.at], r.at)
<1>1. r.rows[r.at] \in [perms : SUBSET Perms, accepted : BOOLEAN]
  BY DEF Requests, Rows
<1> QED
  BY <1>1 DEF EntryOf, Entry, Rights, Full, Perms

\* The list that the full generation makes gives what the tables give.
LEMMA GeneratedIsEarned ==
  ASSUME CollectionsAssumption, IInv, NEW u \in Users
  PROVE  Generated(u) \in Lists \ {NoList} /\ Earned(Generated(u), u, held)
<1>1. \A c \in Collections : row[c][u] \in Rows /\ owner[c] \in Users \cup {NoOne, Gone}
  BY DEF IInv, Shape
<1>2. \A c \in Collections :
        /\ Generated(u)[c] \in Entries
        /\ Generated(u)[c] # NoEntry => Generated(u)[c] \subseteq Rights(owner[c], row[c][u], u)
  BY <1>1 DEF Generated, Entries, Rows, Rights, Full, Perms
<1>3. Generated(u) \in [Collections -> Entries]
  BY <1>2 DEF Generated
<1>4. Generated(u) # NoList
  BY <1>3 DEF CollectionsAssumption, Entries
<1> QED
  BY <1>2, <1>3, <1>4 DEF IInv, Given, Earned, Lists

\* More held leaves everything earned.
LEMMA MoreHeld ==
  ASSUME CollectionsAssumption, NEW h, NEW g, NEW r, Honest(r, h),
         \A c \in Collections, u \in Users : h[c][u] \subseteq g[c][u]
  PROVE  Honest(r, g)
<1>1. r.c \in Collections => \A u \in Users : Rights(r.owner, r.rows[u], u) \subseteq g[r.c][u]
  BY DEF Honest
<1>2. r.pc \in {"cutset", "visitset", "genset"} => Earned(r.copy, r.at, g)
  BY DEF Honest, Earned
<1> QED
  BY <1>1, <1>2 DEF Honest

LEMMA IdleIsHonest == ASSUME CollectionsAssumption, NEW h PROVE Honest(Idle, h)
<1>1. Idle \in Requests
  BY DEF Idle, Requests, Rows, Lists
<1>2. \A u \in Users : Rights(NoOne, NoRow, u) = {}
  BY DEF CollectionsAssumption, Rights
<1> QED
  BY <1>1, <1>2 DEF Honest, Idle

------------------------------------------------------------------------------
(* The kinds of steps.                                                     *)

\* The request of s becomes q.
Becomes(s, q) == req' = [req EXCEPT ![s] = q]

LEMMA OneRequest ==
  ASSUME CollectionsAssumption, IInv, NEW s \in Slots, NEW q, Becomes(s, q), Honest(q, held'),
         \A c \in Collections, u \in Users : held[c][u] \subseteq held'[c][u]
  PROVE  Requested'
<1>1. q \in Requests /\ req \in [Slots -> Requests]
  BY DEF Honest, IInv, Requested
<1>2. req' \in [Slots -> Requests]
  BY <1>1 DEF Becomes
<1>3. ASSUME NEW t \in Slots PROVE Honest(req'[t], held')
  <2>1. CASE t = s
    BY <1>1, <2>1 DEF Becomes
  <2>2. CASE t # s
    <3>1. req'[t] = req[t]
      BY <1>1, <2>2 DEF Becomes
    <3>2. Honest(req[t], held)
      BY DEF IInv, Requested
    <3> QED
      BY <3>1, <3>2, MoreHeld
  <2> QED
    BY <2>1, <2>2
<1> QED
  BY <1>2, <1>3 DEF Requested

\* A step that only moves a request.
LEMMA QuietStep ==
  ASSUME CollectionsAssumption, IInv, NEW s \in Slots, NEW q, Becomes(s, q), Honest(q, held),
         UNCHANGED <<owner, row, list, held>>
  PROVE  IInv'
<1>1. Requested'
  BY OneRequest
<1> QED
  BY <1>1 DEF IInv, Shape, Given, ListsEarned

\* A step that writes the list of one user.
LEMMA ListStep ==
  ASSUME CollectionsAssumption, IInv, NEW s \in Slots, NEW q, Becomes(s, q), Honest(q, held),
         NEW u \in Users, NEW l \in Lists, Earned(l, u, held),
         list' = [list EXCEPT ![u] = l], UNCHANGED <<owner, row, held>>
  PROVE  IInv'
<1>1. Requested'
  BY OneRequest
<1>2. \A v \in Users : list'[v] = IF v = u THEN l ELSE list[v]
  BY DEF IInv, Shape
<1>3. list' \in [Users -> Lists]
  BY DEF IInv, Shape
<1>4. ListsEarned'
  BY <1>2 DEF IInv, ListsEarned, Earned
<1> QED
  BY <1>1, <1>3, <1>4 DEF IInv, Shape, Given

\* A step that writes the tables and remembers what they give now.
LEMMA TableStep ==
  ASSUME CollectionsAssumption, IInv, NEW s \in Slots, NEW q, Becomes(s, q), Honest(q, held),
         owner' \in [Collections -> Users \cup {NoOne, Gone}],
         row' \in [Collections -> [Users -> Rows]],
         Remember, list' = list
  PROVE  IInv'
<1>1. \A c \in Collections, u \in Users :
        Rights(owner'[c], row'[c][u], u) \in SUBSET Full /\ held[c][u] \in SUBSET Full
  BY RightsInFull DEF IInv, Shape, Held
<1>2. held' \in Held
  BY <1>1 DEF Remember, Held
<1>3. \A c \in Collections, u \in Users :
        held'[c][u] = held[c][u] \cup Rights(owner'[c], row'[c][u], u)
  BY DEF Remember
<1>4. Requested'
  <2>1. Honest(q, held')
    BY <1>3, MoreHeld
  <2> QED
    BY <1>3, <2>1, OneRequest
<1>5. ListsEarned'
  BY <1>3 DEF IInv, ListsEarned, Earned
<1> QED
  BY <1>2, <1>3, <1>4, <1>5 DEF IInv, Shape, Given

\* A step that only takes rights away.
LEMMA ShrinkStep ==
  ASSUME CollectionsAssumption, IInv, NEW s \in Slots, NEW q, Becomes(s, q), Honest(q, held),
         owner' \in [Collections -> Users \cup {NoOne, Gone}],
         row' \in [Collections -> [Users -> Rows]],
         \A c \in Collections, u \in Users :
           Rights(owner'[c], row'[c][u], u) \subseteq Rights(owner[c], row[c][u], u),
         UNCHANGED <<list, held>>
  PROVE  IInv'
<1>1. Requested'
  BY OneRequest
<1>2. Given'
  BY DEF IInv, Given
<1> QED
  BY <1>1, <1>2 DEF IInv, Shape, ListsEarned

\* A request that goes on to the point pc, what it carries unchanged.
On(s, pc) == [req[s] EXCEPT !.pc = pc]

LEMMA Going ==
  ASSUME IInv, NEW s \in Slots, NEW pc \in Points, Goto(s, pc)
  PROVE  /\ Becomes(s, On(s, pc))
         /\ On(s, pc) \in Requests
         /\ On(s, pc).pc = pc /\ On(s, pc).c = req[s].c /\ On(s, pc).target = req[s].target
         /\ On(s, pc).owner = req[s].owner /\ On(s, pc).rows = req[s].rows
         /\ On(s, pc).todo = req[s].todo /\ On(s, pc).at = req[s].at
         /\ On(s, pc).copy = req[s].copy
<1>1. req \in [Slots -> Requests]
  BY DEF IInv, Requested
<1>2. req[s] \in Requests
  BY <1>1
<1>3. Becomes(s, On(s, pc))
  BY <1>1 DEF Goto, Becomes, On
<1> QED
  BY <1>2, <1>3 DEF On, Requests

\* It is as honest as before, if it is still, or again, at a point where it has no more to show.
LEMMA GoingOn ==
  ASSUME IInv, NEW s \in Slots, NEW pc \in Points, Goto(s, pc),
         req[s].pc \notin {"idle", "genget", "genset"},
         pc \notin {"visit", "cutget", "cutset", "visitset", "genset"}
  PROVE  Becomes(s, On(s, pc)) /\ Honest(On(s, pc), held)
<1>1. Honest(req[s], held)
  BY DEF IInv, Requested
<1> QED
  BY <1>1, Going DEF Honest

LEMMA Ending ==
  ASSUME CollectionsAssumption, NEW s \in Slots, Done(s)
  PROVE  Becomes(s, Idle) /\ Honest(Idle, held)
  BY IdleIsHonest DEF Done, Becomes

------------------------------------------------------------------------------
(* Arrivals.                                                               *)

LEMMA BeginKeeps ==
  ASSUME CollectionsAssumption, IInv, NEW s \in Slots, NEW op \in Ops, NEW c \in Collections,
         NEW a \in Users, NEW t \in Users, NEW g \in SUBSET Perms,
         NEW pc \in {"write", "orphan", "affected"}, Begin(s, op, c, a, t, g, pc)
  PROVE  IInv'
<1> DEFINE q == [Idle EXCEPT !.op = op, !.c = c, !.actor = a, !.target = t, !.perms = g, !.pc = pc]
<1>1. Becomes(s, q) /\ UNCHANGED <<owner, row, list, held>>
  BY DEF Begin, Becomes, tables
<1>2. /\ q \in Requests /\ q.pc = pc /\ q.c = c /\ q.target = t /\ q.owner = NoOne
      /\ q.rows = [u \in Users |-> NoRow]
  BY DEF Idle, Requests, Rows, Lists, Points
<1>3. \A u \in Users : Rights(NoOne, NoRow, u) = {}
  BY DEF CollectionsAssumption, Rights
<1>4. Honest(q, held)
  BY <1>2, <1>3 DEF Honest
<1> QED
  BY <1>1, <1>4, QuietStep

LEMMA ArriveKeeps ==
  ASSUME CollectionsAssumption, IInv, NEW s \in Slots, Arrive(s) PROVE IInv'
<1>1. Grants \subseteq SUBSET Perms /\ {} \in SUBSET Perms
  BY DEF CollectionsAssumption
<1>2. ASSUME NEW op \in {"add", "update", "remove"}, NEW c \in Collections, NEW a \in Users,
             NEW t \in Users, NEW g \in SUBSET Perms, Manage(s, op, c, a, t, g)
      PROVE  IInv'
  BY <1>2, BeginKeeps DEF Manage, Ops
<1>3. ASSUME NEW op \in {"create", "leave", "accept", "reject", "transfer"}, NEW c \in Collections,
             NEW a \in Users, NEW t \in Users, Own(s, op, c, a, t)
      PROVE  IInv'
  <2>1. Begin(s, op, c, a, t, {}, IF op = "transfer" THEN "orphan" ELSE "write")
    BY <1>3 DEF Own
  <2> QED
    BY <1>1, <2>1, BeginKeeps DEF Ops
<1>4. ASSUME NEW c \in Collections, NEW a \in Users, Delete(s, c, a) PROVE IInv'
  BY <1>1, <1>4, BeginKeeps DEF Delete, Ops
<1> QED
  BY <1>1, <1>2, <1>3, <1>4 DEF Arrive

LEMMA GenerateKeeps ==
  ASSUME CollectionsAssumption, IInv, NEW s \in Slots, Generate(s) PROVE IInv'
<1> DEFINE q == [Idle EXCEPT !.op = "generate", !.todo = Users, !.pc = "genget"]
<1>1. Becomes(s, q) /\ UNCHANGED <<owner, row, list, held>>
  BY DEF Generate, Becomes, tables
<1>2. /\ q \in Requests /\ q.pc = "genget" /\ q.owner = NoOne
      /\ q.rows = [u \in Users |-> NoRow]
  BY DEF Idle, Requests, Rows, Lists, Points, Ops
<1>3. \A u \in Users : Rights(NoOne, NoRow, u) = {}
  BY DEF CollectionsAssumption, Rights
<1> QED
  BY <1>1, <1>2, <1>3, QuietStep DEF Honest

------------------------------------------------------------------------------
(* Writes of the tables.                                                   *)

\* A write that remembers goes on to load what the reset needs.
LEMMA WrittenKeeps ==
  ASSUME CollectionsAssumption, IInv, NEW s \in Slots, Written(s),
         req[s].pc \in {"write", "own"},
         owner' \in [Collections -> Users \cup {NoOne, Gone}],
         row' \in [Collections -> [Users -> Rows]]
  PROVE  IInv'
<1>1. Goto(s, "load") /\ list' = list /\ Remember
  BY DEF Written
<1>2. Becomes(s, On(s, "load")) /\ Honest(On(s, "load"), held)
  BY <1>1, GoingOn DEF Points
<1> QED
  BY <1>1, <1>2, TableStep

LEMMA WriterIsHonest ==
  ASSUME IInv, NEW s \in Slots, req[s].pc \notin {"idle", "genget", "genset"}
  PROVE  /\ req[s] \in Requests /\ req[s].c \in Collections /\ req[s].target \in Users
         /\ owner \in [Collections -> Users \cup {NoOne, Gone}]
         /\ row \in [Collections -> [Users -> Rows]]
  BY DEF IInv, Requested, Honest, Shape

\* Putting one row keeps the tables what they are.
LEMMA RowWritten ==
  ASSUME IInv, NEW c \in Collections, NEW u \in Users, NEW r \in Rows, SetRow(c, u, r)
  PROVE  /\ row' \in [Collections -> [Users -> Rows]]
         /\ \A d \in Collections, v \in Users :
              row'[d][v] = IF d = c /\ v = u THEN r ELSE row[d][v]
  BY DEF SetRow, IInv, Shape

LEMMA WritesKeep ==
  ASSUME CollectionsAssumption, IInv, NEW s \in Slots,
         Add(s) \/ Update(s) \/ Remove(s) \/ Accept(s) \/ Reject(s) \/ Create(s)
  PROVE  IInv'
<1>1. req[s].pc = "write" /\ Written(s)
  BY DEF Add, Update, Remove, Accept, Reject, Create, At
<1>2. /\ req[s] \in Requests /\ req[s].c \in Collections /\ req[s].target \in Users
      /\ owner \in [Collections -> Users \cup {NoOne, Gone}]
      /\ row \in [Collections -> [Users -> Rows]]
  BY <1>1, WriterIsHonest
<1>3. CASE Add(s)
  <2>1. [perms |-> req[s].perms, accepted |-> ~Invited] \in Rows
    BY <1>2 DEF Requests, Rows, CollectionsAssumption
  <2> QED
    BY <1>1, <1>2, <1>3, <2>1, RowWritten, WrittenKeeps DEF Add
<1>4. CASE Update(s)
  <2> DEFINE new == [row[req[s].c][req[s].target] EXCEPT !.perms = req[s].perms]
  <2>1. row' \in [Collections -> [Users -> Rows]]
    <3>1. CASE row[req[s].c][req[s].target] = NoRow
      BY <1>2, <1>4, <3>1 DEF Update
    <3>2. CASE row[req[s].c][req[s].target] # NoRow
      <4>1. new \in Rows
        BY <1>2, <3>2 DEF Rows, Requests
      <4>2. SetRow(req[s].c, req[s].target, new)
        BY <1>2, <1>4, <3>2 DEF Update, SetRow
      <4> QED
        BY <1>2, <4>1, <4>2, RowWritten
    <3> QED
      BY <3>1, <3>2
  <2> QED
    BY <1>1, <1>2, <1>4, <2>1, WrittenKeeps DEF Update
<1>5. CASE Remove(s) \/ Reject(s)
  BY <1>1, <1>2, <1>5, RowWritten, WrittenKeeps DEF Remove, Reject, Rows
<1>6. CASE Accept(s)
  <2> DEFINE new == [row[req[s].c][req[s].target] EXCEPT !.accepted = TRUE]
  <2>1. row' \in [Collections -> [Users -> Rows]]
    <3>1. row[req[s].c][req[s].target] \in Rows \ {NoRow}
      BY <1>2, <1>6 DEF Accept
    <3>2. new \in Rows
      BY <3>1 DEF Rows
    <3>3. SetRow(req[s].c, req[s].target, new)
      BY <1>2, <1>6 DEF Accept, SetRow
    <3> QED
      BY <1>2, <3>2, <3>3, RowWritten
  <2> QED
    BY <1>1, <1>2, <1>6, <2>1, WrittenKeeps DEF Accept
<1>7. CASE Create(s)
  <2>1. owner' \in [Collections -> Users \cup {NoOne, Gone}]
    BY <1>2, <1>7 DEF Create, Requests
  <2> QED
    BY <1>1, <1>2, <1>7, <2>1, WrittenKeeps DEF Create
<1> QED
  BY <1>3, <1>4, <1>5, <1>6, <1>7

LEMMA TransferKeeps ==
  ASSUME CollectionsAssumption, IInv, NEW s \in Slots,
         TransferRow(s) \/ TransferUnrow(s) \/ TransferOwn(s)
  PROVE  IInv'
<1>1. req[s].pc \in {"orphan", "unrow", "own"}
  BY DEF TransferRow, TransferUnrow, TransferOwn, At
<1>2. /\ req[s] \in Requests /\ req[s].c \in Collections /\ req[s].target \in Users
      /\ owner \in [Collections -> Users \cup {NoOne, Gone}]
      /\ row \in [Collections -> [Users -> Rows]]
  BY <1>1, WriterIsHonest
<1>3. CASE TransferRow(s)
  <2>1. Becomes(s, On(s, "unrow")) /\ Honest(On(s, "unrow"), held)
    BY <1>1, <1>3, GoingOn DEF TransferRow, Points
  <2> QED
    BY <1>3, <2>1, QuietStep DEF TransferRow
<1>4. CASE TransferUnrow(s)
  <2>1. Becomes(s, On(s, "own")) /\ Honest(On(s, "own"), held)
    BY <1>1, <1>4, GoingOn DEF TransferUnrow, Points
  <2>2. SetRow(req[s].c, req[s].target, NoRow) /\ NoRow \in Rows
    BY <1>4 DEF TransferUnrow, Rows
  <2>3. \A c \in Collections, u \in Users :
          Rights(owner[c], row'[c][u], u) \subseteq Rights(owner[c], row[c][u], u)
    BY <1>2, <2>2, RowWritten DEF Rights
  <2> QED
    BY <1>2, <1>4, <2>1, <2>2, <2>3, RowWritten, ShrinkStep DEF TransferUnrow
<1>5. CASE TransferOwn(s)
  <2>1. owner' \in [Collections -> Users \cup {NoOne, Gone}]
    BY <1>2, <1>5 DEF TransferOwn
  <2> QED
    BY <1>2, <1>5, <2>1, WrittenKeeps DEF TransferOwn, At
<1> QED
  BY <1>3, <1>4, <1>5

LEMMA RefuseKeeps ==
  ASSUME CollectionsAssumption, IInv, NEW s \in Slots, Refuse(s) \/ TransferThrows(s)
  PROVE  IInv'
  BY Ending, QuietStep DEF Refuse, TransferThrows, tables

------------------------------------------------------------------------------
(* The reset and the deletion.                                             *)

\* A copy of a list that is there is as honest as the list.
LEMMA FetchKeeps ==
  ASSUME CollectionsAssumption, IInv, NEW s \in Slots, NEW u \in Users,
         NEW pc \in {"cutset", "visitset"}, Fetch(s, u, pc),
         req[s].pc \in {"cutget", "visit"},
         pc = "visitset" => u \in req[s].todo \cup {req[s].owner},
         UNCHANGED <<owner, row, list, held>>
  PROVE  IInv'
<1> DEFINE q == [req[s] EXCEPT !.at = u, !.copy = list[u], !.pc = pc]
<1>1. Honest(req[s], held) /\ req \in [Slots -> Requests]
  BY DEF IInv, Requested
<1>2. CASE list[u] # NoList /\ req' = [req EXCEPT ![s].at = u, ![s].copy = list[u], ![s].pc = pc]
  <2>1. Becomes(s, q)
    BY <1>1, <1>2 DEF Becomes
  <2>2. /\ q \in Requests /\ q.pc = pc /\ q.at = u /\ q.copy = list[u] /\ q.c = req[s].c
        /\ q.target = req[s].target /\ q.owner = req[s].owner /\ q.rows = req[s].rows
        /\ q.todo = req[s].todo
    <3>1. req[s] \in Requests /\ list[u] \in Lists /\ pc \in Points
      BY <1>1 DEF IInv, Shape, Points
    <3> QED
      BY <3>1 DEF Requests
  <2>3. Earned(list[u], u, held)
    BY DEF IInv, ListsEarned
  <2>4. Honest(q, held)
    BY <1>1, <1>2, <2>2, <2>3 DEF Honest
  <2> QED
    BY <2>1, <2>4, QuietStep
<1>3. CASE Done(s)
  BY <1>3, Ending, QuietStep
<1> QED
  BY <1>2, <1>3 DEF Fetch

\* What Load makes of a request's record.
LEMMA LoadedType ==
  ASSUME NEW r \in Requests, NEW o \in Users, NEW w \in [Users -> Rows], NEW b \in BOOLEAN,
         NEW t \in SUBSET Users, NEW a \in Users, NEW p \in Points
  PROVE  [r EXCEPT !.owner = o, !.rows = w, !.orphan = b, !.todo = t, !.at = a, !.pc = p]
           \in Requests
  BY DEF Requests

LEMMA LoadKeeps ==
  ASSUME CollectionsAssumption, IInv, NEW s \in Slots, Load(s) PROVE IInv'
<1> DEFINE r == req[s]
           q == [r EXCEPT !.owner = owner[r.c], !.rows = row[r.c], !.orphan = r.c \in orphan,
                          !.todo = {u \in Users : row[r.c][u] # NoRow}, !.at = r.target,
                          !.pc = IF r.op \in {"remove", "leave"} THEN "cutget" ELSE "visit"]
<1>1. /\ req \in [Slots -> Requests] /\ r \in Requests /\ r.c \in Collections /\ r.target \in Users
      /\ row \in [Collections -> [Users -> Rows]]
  BY WriterIsHonest DEF Load, At, IInv, Requested
<1>2. UNCHANGED <<owner, row, list, held>>
  BY DEF Load, tables
<1>3. CASE Exists(r.c) /\ Becomes(s, q)
  <2>1. /\ q \in Requests /\ q.pc \in {"cutget", "visit"} /\ q.c = r.c /\ q.target = r.target
        /\ q.owner = owner[r.c] /\ q.rows = row[r.c] /\ q.todo = {u \in Users : row[r.c][u] # NoRow}
    <3>1. /\ row[r.c] \in [Users -> Rows] /\ owner[r.c] \in Users
          /\ (r.c \in orphan) \in BOOLEAN
      BY <1>1, <1>3 DEF Exists
    <3>2. (IF r.op \in {"remove", "leave"} THEN "cutget" ELSE "visit") \in Points
      BY DEF Points
    <3> HIDE DEF r
    <3>3. q.pc \in {"cutget", "visit"} /\ q.c = r.c /\ q.target = r.target
      BY <1>1 DEF Requests
    <3>4. q.owner = owner[r.c] /\ q.rows = row[r.c] /\ q.todo = {u \in Users : row[r.c][u] # NoRow}
      BY <1>1 DEF Requests
    <3>5. q \in Requests
      <4> DEFINE o == owner[r.c]
                 w == row[r.c]
                 b == r.c \in orphan
                 t == {u \in Users : row[r.c][u] # NoRow}
                 p == IF r.op \in {"remove", "leave"} THEN "cutget" ELSE "visit"
      <4>1. o \in Users /\ w \in [Users -> Rows] /\ b \in BOOLEAN /\ t \in SUBSET Users /\ p \in Points
        BY <3>1, <3>2
      <4>2. r \in Requests /\ r.target \in Users
        BY <1>1
      <4>3. q = [r EXCEPT !.owner = o, !.rows = w, !.orphan = b, !.todo = t, !.at = r.target, !.pc = p]
        OBVIOUS
      <4> HIDE DEF o, w, b, t, p, q
      <4> QED
        BY <4>1, <4>2, <4>3, LoadedType
    <3> QED
      BY <3>3, <3>4, <3>5
  <2>2. Honest(q, held)
    BY <1>1, <1>3, <2>1 DEF Honest, Exists, IInv, Given
  <2> QED
    BY <1>2, <1>3, <2>2, QuietStep
<1>4. CASE Done(s)
  BY <1>2, <1>4, Ending, QuietStep
<1> QED
  BY <1>1, <1>3, <1>4 DEF Load, Becomes

LEMMA ResetReadsKeep ==
  ASSUME CollectionsAssumption, IInv, NEW s \in Slots, CutGet(s) \/ VisitGet(s) PROVE IInv'
<1>1. UNCHANGED <<owner, row, list, held>> /\ req[s].pc \in {"cutget", "visit"}
  BY DEF CutGet, VisitGet, tables, At
<1>2. req[s].target \in Users /\ req[s].owner \in Users /\ req[s].todo \subseteq Users
  BY <1>1 DEF IInv, Requested, Honest, Requests
<1>3. CASE CutGet(s)
  BY <1>1, <1>2, <1>3, FetchKeeps DEF CutGet
<1>4. CASE VisitGet(s)
  <2>1. CASE Done(s)
    BY <1>1, <2>1, Ending, QuietStep
  <2>2. ASSUME NEW u \in req[s].todo \cup {req[s].owner}, Fetch(s, u, "visitset") PROVE IInv'
    BY <1>1, <1>2, <2>2, FetchKeeps
  <2> QED
    BY <1>4, <2>1, <2>2 DEF VisitGet
<1> QED
  BY <1>3, <1>4

\* Taking entries out of a list leaves it earned.
LEMMA CutKeeps ==
  ASSUME CollectionsAssumption, IInv, NEW s \in Slots, CutSet(s) PROVE IInv'
<1> DEFINE r == req[s]
<1>1. /\ Honest(r, held) /\ req \in [Slots -> Requests] /\ r.pc = "cutset"
      /\ r.copy \in [Collections -> Entries] /\ r.at \in Users
  BY DEF CutSet, At, IInv, Requested, Honest, Requests, Lists
<1>2. PICK l \in {r.copy} \cup {[r.copy EXCEPT ![d] = NoEntry] : d \in Cut(s)} : Put(s, l, "visit")
  BY DEF CutSet
<1>3. /\ l \in [Collections -> Entries]
      /\ \A c \in Collections : l[c] \in {r.copy[c], NoEntry}
  BY <1>1, <1>2 DEF Entries, Cut
<1>4. l \in Lists /\ Earned(l, r.at, held)
  BY <1>1, <1>3 DEF Honest, Earned, Lists
<1>5. Becomes(s, On(s, "visit")) /\ Honest(On(s, "visit"), held)
  <2>1. Goto(s, "visit") /\ "visit" \in Points
    BY <1>2 DEF Put, Points
  <2> QED
    BY <1>1, <2>1, Going DEF Honest
<1> QED
  BY <1>1, <1>2, <1>4, <1>5, ListStep DEF Put, tables

LEMMA VisitKeeps ==
  ASSUME CollectionsAssumption, IInv, NEW s \in Slots, VisitSet(s) PROVE IInv'
<1> DEFINE r == req[s]
           e == IF r.at \in r.todo THEN EntryOf(r) ELSE Full
           l == [r.copy EXCEPT ![r.c] = e]
<1>1. /\ Honest(r, held) /\ r \in Requests /\ req \in [Slots -> Requests] /\ r.pc = "visitset"
      /\ r.copy \in [Collections -> Entries] /\ r.at \in Users /\ r.c \in Collections
  BY DEF VisitSet, At, IInv, Requested, Honest, Requests, Lists
<1>2. e \in SUBSET Full /\ e \subseteq Rights(r.owner, r.rows[r.at], r.at)
  BY <1>1, EntryIsRight DEF Honest, Rights
<1>3. l \in [Collections -> Entries] /\ \A c \in Collections : l[c] = IF c = r.c THEN e ELSE r.copy[c]
  BY <1>1, <1>2 DEF Entries
<1>4. l \in Lists /\ Earned(l, r.at, held)
  BY <1>1, <1>2, <1>3 DEF Honest, Earned, Lists
<1>5. list' = [list EXCEPT ![r.at] = l] /\ UNCHANGED <<owner, row, held>>
  BY DEF VisitSet, tables
<1>6. CASE Done(s)
  BY <1>1, <1>4, <1>5, <1>6, Ending, ListStep
<1>7. CASE req' = [req EXCEPT ![s].todo = @ \ {r.at}, ![s].pc = "visit"]
  <2> DEFINE q == [r EXCEPT !.todo = @ \ {r.at}, !.pc = "visit"]
  <2>1. Becomes(s, q)
    BY <1>1, <1>7 DEF Becomes
  <2>2. /\ q \in Requests /\ q.pc = "visit" /\ q.c = r.c /\ q.target = r.target
        /\ q.owner = r.owner /\ q.rows = r.rows /\ q.todo = r.todo \ {r.at}
    BY <1>1 DEF Requests, Points
  <2>3. Honest(q, held)
    BY <1>1, <2>2 DEF Honest
  <2> QED
    BY <1>1, <1>4, <1>5, <2>1, <2>3, ListStep
<1> QED
  BY <1>6, <1>7 DEF VisitSet

LEMMA DeletionKeeps ==
  ASSUME CollectionsAssumption, IInv, NEW s \in Slots, Affected(s) \/ Drop(s) \/ Wipe(s)
  PROVE  IInv'
<1>1. req[s].pc \in {"affected", "drop", "wipe"}
  BY DEF Affected, Drop, Wipe, At
<1>2. /\ req[s] \in Requests /\ req[s].c \in Collections /\ req[s].target \in Users
      /\ owner \in [Collections -> Users \cup {NoOne, Gone}]
      /\ row \in [Collections -> [Users -> Rows]]
      /\ Honest(req[s], held) /\ req \in [Slots -> Requests]
  BY <1>1, WriterIsHonest DEF IInv, Requested
<1>3. CASE Affected(s)
  <2>1. CASE Done(s)
    BY <1>3, <2>1, Ending, QuietStep DEF Affected, tables
  <2>2. ASSUME NEW T \in SUBSET Users, req' = [req EXCEPT ![s].pc = "drop", ![s].todo = T]
        PROVE  IInv'
    <3> DEFINE q == [req[s] EXCEPT !.pc = "drop", !.todo = T]
    <3>1. Becomes(s, q)
      BY <1>2, <2>2 DEF Becomes
    <3>2. /\ q \in Requests /\ q.pc = "drop" /\ q.c = req[s].c /\ q.target = req[s].target
          /\ q.owner = req[s].owner /\ q.rows = req[s].rows
      BY <1>2 DEF Requests, Points
    <3>3. Honest(q, held)
      BY <1>1, <1>2, <3>2 DEF Honest
    <3> QED
      BY <1>3, <3>1, <3>3, QuietStep DEF Affected, tables
  <2> QED
    BY <1>3, <2>1, <2>2 DEF Affected
<1>4. CASE Drop(s)
  <2>1. Becomes(s, On(s, "wipe")) /\ Honest(On(s, "wipe"), held)
    BY <1>1, <1>4, GoingOn DEF Drop, Points
  <2>2. owner' \in [Collections -> Users \cup {NoOne, Gone}]
    BY <1>2, <1>4 DEF Drop
  <2>3. \A c \in Collections, u \in Users :
          Rights(owner'[c], row[c][u], u) \subseteq Rights(owner[c], row[c][u], u)
    <3>1. \A c \in Collections : owner'[c] \in {owner[c], Gone}
      BY <1>2, <1>4 DEF Drop
    <3>2. \A c \in Collections, u \in Users : Rights(owner[c], row[c][u], u) \in SUBSET Full
                                              /\ Rights(Gone, row[c][u], u) \in SUBSET Full
      BY <1>2, RightsInFull
    <3> QED
      BY <3>1, <3>2 DEF Rights, CollectionsAssumption
  <2> QED
    BY <1>2, <1>4, <2>1, <2>2, <2>3, ShrinkStep DEF Drop
<1>5. CASE Wipe(s)
  <2>1. Becomes(s, On(s, "genget")) /\ Honest(On(s, "genget"), held)
    BY <1>1, <1>5, GoingOn DEF Wipe, Points
  <2>2. /\ row' \in [Collections -> [Users -> Rows]]
        /\ \A c \in Collections, u \in Users : row'[c][u] \in {row[c][u], NoRow}
    BY <1>2, <1>5 DEF Wipe, Rows
  <2>3. \A c \in Collections, u \in Users :
          Rights(owner[c], row'[c][u], u) \subseteq Rights(owner[c], row[c][u], u)
    BY <2>2 DEF Rights
  <2> QED
    BY <1>2, <1>5, <2>1, <2>2, <2>3, ShrinkStep DEF Wipe
<1> QED
  BY <1>3, <1>4, <1>5

------------------------------------------------------------------------------
(* The full generation, and the end of a worker.                           *)

LEMMA GenGetKeeps ==
  ASSUME CollectionsAssumption, IInv, NEW s \in Slots, GenGet(s) PROVE IInv'
<1>1. /\ Honest(req[s], held) /\ req \in [Slots -> Requests] /\ req[s] \in Requests
      /\ req[s].todo \subseteq Users /\ UNCHANGED <<owner, row, list, held>>
  BY DEF GenGet, IInv, Requested, Requests, tables
<1>2. PICK u \in req[s].todo :
        req' = [req EXCEPT ![s].at = u, ![s].copy = Generated(u), ![s].pc = "genset"]
  BY DEF GenGet
<1> DEFINE q == [req[s] EXCEPT !.at = u, !.copy = Generated(u), !.pc = "genset"]
<1>3. Generated(u) \in Lists \ {NoList} /\ Earned(Generated(u), u, held)
  BY <1>1, <1>2, GeneratedIsEarned
<1>4. Becomes(s, q)
  BY <1>1, <1>2 DEF Becomes
<1>5. /\ q \in Requests /\ q.pc = "genset" /\ q.at = u /\ q.copy = Generated(u)
      /\ q.c = req[s].c /\ q.owner = req[s].owner /\ q.rows = req[s].rows
  BY <1>1, <1>2, <1>3 DEF Requests, Points
<1>6. Honest(q, held)
  BY <1>1, <1>2, <1>3, <1>5 DEF Honest
<1> QED
  BY <1>1, <1>4, <1>6, QuietStep

LEMMA GenSetKeeps ==
  ASSUME CollectionsAssumption, IInv, NEW s \in Slots, GenSet(s) PROVE IInv'
<1> DEFINE r == req[s]
<1>1. /\ Honest(r, held) /\ r \in Requests /\ req \in [Slots -> Requests] /\ r.pc = "genset"
      /\ r.at \in Users /\ r.copy \in Lists /\ Earned(r.copy, r.at, held)
  BY DEF GenSet, At, IInv, Requested, Honest, Requests
<1>2. list' = [list EXCEPT ![r.at] = r.copy] /\ UNCHANGED <<owner, row, held>>
  BY DEF GenSet, tables
<1>3. CASE Done(s)
  BY <1>1, <1>2, <1>3, Ending, ListStep
<1>4. CASE req' = [req EXCEPT ![s].todo = @ \ {r.at}, ![s].pc = "genget"]
  <2> DEFINE q == [r EXCEPT !.todo = @ \ {r.at}, !.pc = "genget"]
  <2>1. Becomes(s, q)
    BY <1>1, <1>4 DEF Becomes
  <2>2. /\ q \in Requests /\ q.pc = "genget" /\ q.c = r.c /\ q.owner = r.owner /\ q.rows = r.rows
    BY <1>1 DEF Requests, Points
  <2>3. Honest(q, held)
    BY <1>1, <2>2 DEF Honest
  <2> QED
    BY <1>1, <1>2, <2>1, <2>3, ListStep
<1> QED
  BY <1>3, <1>4 DEF GenSet

LEMMA CrashKeeps ==
  ASSUME CollectionsAssumption, IInv, NEW s \in Slots, Crash(s) PROVE IInv'
  BY Ending, QuietStep DEF Crash, tables

------------------------------------------------------------------------------
LEMMA InitHolds == ASSUME CollectionsAssumption, Init PROVE IInv
<1>1. row \in [Collections -> [Users -> Rows]]
  <2>1. [perms : Grants, accepted : {TRUE, ~Invited}] \cup {NoRow} \subseteq Rows
    BY DEF CollectionsAssumption, Rows
  <2>2. row \in [Collections -> [Users -> [perms : Grants, accepted : {TRUE, ~Invited}] \cup {NoRow}]]
    BY DEF Init
  <2> QED
    BY <2>1, <2>2
<1>2. owner \in [Collections -> Users \cup {NoOne, Gone}]
  BY DEF Init
<1>3. \A c \in Collections, u \in Users : Rights(owner[c], row[c][u], u) \in SUBSET Full
  BY <1>1, RightsInFull
<1>4. held \in Held /\ Given
  BY <1>3 DEF Init, Held, Given
<1>5. \A u \in Users : Generated(u) \in [Collections -> Entries]
  BY <1>1 DEF Generated, Entries, Rows, Full, Perms
<1>6. \A u \in Users, c \in Collections :
        Generated(u)[c] # NoEntry => Generated(u)[c] \subseteq held[c][u]
  BY <1>1, <1>4 DEF Generated, Given, Rights, Rows, Full, Perms
<1>7. \A u \in Users : list[u] \in {NoList, Generated(u)}
  BY DEF Init
<1>8. list \in [Users -> Lists] /\ ListsEarned
  BY <1>5, <1>6, <1>7 DEF Init, Lists, ListsEarned, Earned
<1>9. Requested
  BY IdleIsHonest DEF Init, Requested, Honest
<1> QED
  BY <1>1, <1>2, <1>4, <1>8, <1>9 DEF IInv, Shape

LEMMA NextKeeps == ASSUME CollectionsAssumption, IInv, [Next]_vars PROVE IInv'
<1>1. CASE UNCHANGED vars
  BY <1>1 DEF vars, tables, IInv, Shape, Given, ListsEarned, Requested
<1>2. ASSUME NEW s \in Slots, Step(s) PROVE IInv'
  BY <1>2, WritesKeep, RefuseKeeps, TransferKeeps, LoadKeeps, ResetReadsKeep, CutKeeps,
     VisitKeeps, DeletionKeeps, GenGetKeeps, GenSetKeeps DEF Step
<1> QED
  BY <1>1, <1>2, ArriveKeeps, GenerateKeeps, CrashKeeps DEF Next

\* However resets, transfers, rejections, generations and deaths overlap, and whichever old copy
\* of a list is written back: a list gives a user nothing that the tables have not once given.
THEOREM AccessEarned == ASSUME CollectionsAssumption PROVE Spec => []AccessIsEarned
<1>1. Init => IInv
  BY InitHolds
<1>2. IInv /\ [Next]_vars => IInv'
  BY NextKeeps
<1>3. IInv => AccessIsEarned
  BY DEF IInv, ListsEarned, Earned, AccessIsEarned
<1> QED
  BY <1>1, <1>2, <1>3, PTL DEF Spec

------------------------------------------------------------------------------
(* What the lists owe to the tables.                                       *)

\* The request r is still going to write, or to give up, the entry of c in the list of u;
\* o and w are the owner of c and the row of u.
Owes(r, u, c, o, w) ==
  /\ r.c = c /\ r.op # "generate"
  /\ \/ r.pc = "own" /\ u = r.target
     \/ /\ r.pc = "load"
        /\ o \notin Users \/ o = u \/ w # NoRow \/ (r.op \in {"remove", "leave"} /\ u = r.target)
     \/ r.pc \in {"cutget", "cutset"} /\ u = r.target
     \/ r.pc \in {"cutget", "cutset", "visit", "visitset"} /\ u \in r.todo \cup {r.owner}
     \/ r.pc = "wipe" /\ (u \in r.todo \/ w # NoRow)
     \/ r.pc \in {"genget", "genset"} /\ u \in r.todo

Fits(u, c) == list[u] = NoList \/ <<u, c>> \in astray \/ Agrees(list[u][c], u, c)

\* Nobody has a row in a collection not made yet.
Unborn == \A c \in Collections : owner[c] = NoOne => \A u \in Users : row[c][u] = NoRow

\* Whose list a request is about to write.
Placed(r) ==
  /\ r.pc \notin {"idle", "genget", "genset"} => r.op # "generate"
  /\ r.pc = "write" /\ r.op = "create" => r.actor = r.target
  /\ r.pc \in {"cutget", "cutset"} => \A u \in Users : r.rows[u] # NoRow => u \in r.todo
  /\ r.pc = "cutset" => r.at = r.target
  /\ r.pc = "visitset" => r.at \in r.todo \/ (r.todo = {} /\ r.at = r.owner)
  /\ r.pc = "affected" => r.actor \in Users
  /\ r.pc = "drop" => r.actor \in r.todo
  /\ r.pc = "genset" => r.at \in r.todo

Debt(r, u, c) == Owes(r, u, c, owner[c], row[c][u])
Told(u, c) == Fits(u, c) \/ (owner[c] # NoOne /\ \E s \in Slots : Debt(req[s], u, c))

LInv ==
  /\ IInv /\ Unborn
  /\ \A s \in Slots : Placed(req[s])
  /\ \A u \in Users, c \in Collections : Told(u, c)

LEMMA Settling ==
  ASSUME CollectionsAssumption, LInv, IInv', Unborn', NEW s \in Slots, NEW q, Becomes(s, q), Placed(q),
         \A u \in Users, c \in Collections :
           \/ Fits(u, c)'
           \/ owner'[c] # NoOne /\ Owes(q, u, c, owner'[c], row'[c][u])
           \/ /\ Fits(u, c) => Fits(u, c)'
              /\ ~Debt(req[s], u, c)
              /\ owner[c] # NoOne => owner'[c] # NoOne
              /\ \A r \in Requests : Debt(r, u, c) => Owes(r, u, c, owner'[c], row'[c][u])
  PROVE  LInv'
<1>1. req \in [Slots -> Requests]
  BY DEF LInv, IInv, Requested
<1>2. \A t \in Slots : req'[t] = IF t = s THEN q ELSE req[t]
  BY <1>1 DEF Becomes
<1>3. \A t \in Slots : Placed(req'[t])
  BY <1>2 DEF LInv
<1>4. ASSUME NEW u \in Users, NEW c \in Collections PROVE Told(u, c)'
  <2>1. CASE Fits(u, c)'
    BY <2>1 DEF Told
  <2>2. CASE owner'[c] # NoOne /\ Owes(q, u, c, owner'[c], row'[c][u])
    BY <1>2, <2>2 DEF Told, Debt
  <2>3. CASE /\ Fits(u, c) => Fits(u, c)'
             /\ ~Debt(req[s], u, c)
             /\ owner[c] # NoOne => owner'[c] # NoOne
             /\ \A r \in Requests : Debt(r, u, c) => Owes(r, u, c, owner'[c], row'[c][u])
    <3>1. CASE Fits(u, c)
      BY <2>3, <3>1 DEF Told
    <3>2. CASE owner[c] # NoOne /\ \E t \in Slots : Debt(req[t], u, c)
      <4>1. PICK t \in Slots : Debt(req[t], u, c)
        BY <3>2
      <4>2. t # s /\ req'[t] = req[t] /\ req[t] \in Requests
        BY <1>1, <1>2, <2>3, <4>1
      <4>3. Owes(req'[t], u, c, owner'[c], row'[c][u]) /\ owner'[c] # NoOne
        BY <2>3, <3>2, <4>1, <4>2
      <4> QED
        BY <4>3 DEF Told, Debt
    <3> QED
      BY <3>1, <3>2 DEF LInv, Told
  <2> QED
    BY <2>1, <2>2, <2>3
<1> QED
  BY <1>3, <1>4 DEF LInv

\* A step that only moves a request.
LEMMA QuietDebts ==
  ASSUME CollectionsAssumption, LInv, IInv', NEW s \in Slots, NEW q, Becomes(s, q), Placed(q),
         UNCHANGED <<owner, row, list>>, astray \subseteq astray',
         \A u \in Users, c \in Collections :
           Debt(req[s], u, c) => Owes(q, u, c, owner[c], row[c][u]) \/ <<u, c>> \in astray'
  PROVE  LInv'
<1>1. \A u \in Users, c \in Collections : Fits(u, c) => Fits(u, c)'
  BY DEF Fits, Agrees, Generated, Exists
<1>2. Unborn'
  BY DEF LInv, Unborn
<1>3. ASSUME NEW u \in Users, NEW c \in Collections
      PROVE  \/ Fits(u, c)'
             \/ owner'[c] # NoOne /\ Owes(q, u, c, owner'[c], row'[c][u])
             \/ /\ Fits(u, c) => Fits(u, c)'
                /\ ~Debt(req[s], u, c)
                /\ owner[c] # NoOne => owner'[c] # NoOne
                /\ \A r \in Requests : Debt(r, u, c) => Owes(r, u, c, owner'[c], row'[c][u])
  <2>1. CASE ~Debt(req[s], u, c)
    BY <1>1, <2>1 DEF Debt
  <2>2. CASE Debt(req[s], u, c) /\ <<u, c>> \in astray'
    BY <2>2 DEF Fits
  <2>3. CASE Debt(req[s], u, c) /\ Owes(q, u, c, owner[c], row[c][u])
    <3>1. CASE owner[c] # NoOne
      BY <2>3, <3>1
    <3>2. CASE owner[c] = NoOne
      BY <1>1, <3>2 DEF LInv, Told
    <3> QED
      BY <3>1, <3>2
  <2> QED
    BY <2>1, <2>2, <2>3
<1> QED
  BY <1>2, <1>3, Settling

\* A request that ends gives up all that it owes.
LEMMA EndingDebts ==
  ASSUME CollectionsAssumption, LInv, IInv', NEW s \in Slots, Done(s),
         UNCHANGED <<owner, row, list>>, astray \subseteq astray',
         \A u \in Users, c \in Collections : Debt(req[s], u, c) => <<u, c>> \in astray'
  PROVE  LInv'
<1>1. Becomes(s, Idle) /\ Placed(Idle)
  BY DEF Done, Becomes, Placed, Idle
<1> QED
  BY <1>1, QuietDebts

\* What is owed is owed in the request's own collection.
LEMMA OwnDebt ==
  ASSUME NEW r, NEW u \in Users, NEW c \in Collections, Debt(r, u, c)
  PROVE  r.c = c /\ r.op # "generate"
         /\ r.pc \notin {"idle", "write", "orphan", "unrow", "affected", "drop"}
         /\ <<u, c>> \in Everyone(r.c)
  BY DEF Debt, Owes, Everyone

\* A step that writes the tables of the request's collection.
LEMMA TableDebts ==
  ASSUME CollectionsAssumption, LInv, IInv', Unborn', NEW s \in Slots, NEW q, Becomes(s, q), Placed(q),
         list' = list, astray \subseteq astray',
         \A c \in Collections \ {req[s].c} : owner'[c] = owner[c] /\ row'[c] = row[c],
         \A u \in Users, c \in Collections \cap {req[s].c} :
           \/ <<u, c>> \in astray'
           \/ Fits(u, c)'
           \/ owner'[c] # NoOne /\ Owes(q, u, c, owner'[c], row'[c][u])
           \/ /\ ~Debt(req[s], u, c) /\ owner'[c] = owner[c] /\ row'[c][u] = row[c][u]
           \/ /\ Fits(u, c) => Fits(u, c)'
              /\ ~Debt(req[s], u, c)
              /\ owner[c] # NoOne => owner'[c] # NoOne
              /\ \A r \in Requests : Debt(r, u, c) => Owes(r, u, c, owner'[c], row'[c][u])
  PROVE  LInv'
<1>1. ASSUME NEW u \in Users, NEW c \in Collections, owner'[c] = owner[c], row'[c][u] = row[c][u]
      PROVE  Fits(u, c) => Fits(u, c)'
  BY <1>1 DEF Fits, Agrees, Generated, Exists
<1>2. ASSUME NEW u \in Users, NEW c \in Collections, c # req[s].c PROVE ~Debt(req[s], u, c)
  BY <1>2 DEF Debt, Owes
<1>3. ASSUME NEW u \in Users, NEW c \in Collections
      PROVE  \/ Fits(u, c)'
             \/ owner'[c] # NoOne /\ Owes(q, u, c, owner'[c], row'[c][u])
             \/ /\ Fits(u, c) => Fits(u, c)'
                /\ ~Debt(req[s], u, c)
                /\ owner[c] # NoOne => owner'[c] # NoOne
                /\ \A r \in Requests : Debt(r, u, c) => Owes(r, u, c, owner'[c], row'[c][u])
  <2>1. CASE ~Debt(req[s], u, c) /\ owner'[c] = owner[c] /\ row'[c][u] = row[c][u]
    BY <1>1, <2>1 DEF Debt
  <2>2. CASE c # req[s].c
    BY <1>2, <2>1, <2>2
  <2>3. CASE c = req[s].c
    <3>1. CASE <<u, c>> \in astray'
      BY <3>1 DEF Fits
    <3> QED
      BY <2>1, <2>3, <3>1
  <2> QED
    BY <2>2, <2>3
<1> QED
  BY <1>3, Settling

\* A step that writes the list of the user v.
LEMMA ListDebts ==
  ASSUME CollectionsAssumption, LInv, IInv', NEW s \in Slots, NEW q, Becomes(s, q), Placed(q),
         UNCHANGED <<owner, row>>, NEW v \in Users, NEW l, list' = [list EXCEPT ![v] = l],
         \A u \in Users \ {v}, c \in Collections :
           /\ <<u, c>> \in astray => <<u, c>> \in astray'
           /\ Debt(req[s], u, c) => Owes(q, u, c, owner[c], row[c][u]),
         \A c \in Collections :
           \/ Fits(v, c)'
           \/ owner[c] # NoOne /\ Owes(q, v, c, owner[c], row[c][v])
           \/ ~Debt(req[s], v, c) /\ (Fits(v, c) => Fits(v, c)')
  PROVE  LInv'
<1>1. \A u \in Users \ {v} : list'[u] = list[u]
  BY DEF IInv, Shape, LInv
<1>2. \A u \in Users \ {v}, c \in Collections : Fits(u, c) => Fits(u, c)'
  BY <1>1 DEF Fits, Agrees, Generated, Exists
<1>3. Unborn'
  BY DEF LInv, Unborn
<1>4. ASSUME NEW u \in Users, NEW c \in Collections
      PROVE  \/ Fits(u, c)'
             \/ owner'[c] # NoOne /\ Owes(q, u, c, owner'[c], row'[c][u])
             \/ /\ Fits(u, c) => Fits(u, c)'
                /\ ~Debt(req[s], u, c)
                /\ owner[c] # NoOne => owner'[c] # NoOne
                /\ \A r \in Requests : Debt(r, u, c) => Owes(r, u, c, owner'[c], row'[c][u])
  <2>1. CASE u = v
    BY <2>1 DEF Debt
  <2>2. CASE u # v /\ ~Debt(req[s], u, c)
    BY <1>2, <2>2 DEF Debt
  <2>3. CASE u # v /\ Owes(q, u, c, owner[c], row[c][u])
    BY <1>2, <2>3 DEF LInv, Told
  <2> QED
    BY <2>1, <2>2, <2>3
<1> QED
  BY <1>3, <1>4, Settling

------------------------------------------------------------------------------
(* Arrivals and writes of the tables settle.                               *)

LEMMA BeginSettles ==
  ASSUME CollectionsAssumption, LInv, IInv', NEW s \in Slots, NEW op \in Ops \ {"generate"},
         NEW c \in Collections, NEW a \in Users, NEW t \in Users, NEW g,
         NEW pc \in {"write", "orphan", "affected"}, op = "create" => a = t,
         Begin(s, op, c, a, t, g, pc)
  PROVE  LInv'
<1> DEFINE q == [Idle EXCEPT !.op = op, !.c = c, !.actor = a, !.target = t, !.perms = g, !.pc = pc]
<1>1. Becomes(s, q) /\ UNCHANGED <<owner, row, list, astray>> /\ req[s].pc = "idle"
  BY DEF Begin, Becomes, tables, At
<1>2. q.pc = pc /\ q.op = op /\ q.actor = a /\ q.target = t
  BY DEF Idle
<1>3. Placed(q)
  <2> HIDE DEF q
  <2> QED
    BY <1>2 DEF Placed
<1>4. \A u \in Users, d \in Collections : ~Debt(req[s], u, d)
  BY <1>1, OwnDebt
<1> QED
  BY <1>1, <1>3, <1>4, QuietDebts

LEMMA ArriveSettles ==
  ASSUME CollectionsAssumption, LInv, IInv', NEW s \in Slots, Arrive(s) PROVE LInv'
<1>1. ASSUME NEW op \in {"add", "update", "remove"}, NEW c \in Collections, NEW a \in Users,
             NEW t \in Users, NEW g, Manage(s, op, c, a, t, g)
      PROVE  LInv'
  BY <1>1, BeginSettles DEF Manage, Ops
<1>2. ASSUME NEW op \in {"create", "leave", "accept", "reject", "transfer"}, NEW c \in Collections,
             NEW a \in Users, NEW t \in Users, Own(s, op, c, a, t), op = "create" => a = t
      PROVE  LInv'
  <2>1. Begin(s, op, c, a, t, {}, IF op = "transfer" THEN "orphan" ELSE "write")
    BY <1>2 DEF Own
  <2> QED
    BY <1>2, <2>1, BeginSettles DEF Ops
<1>3. ASSUME NEW c \in Collections, NEW a \in Users, Delete(s, c, a) PROVE LInv'
  BY <1>3, BeginSettles DEF Delete, Ops
<1> QED
  BY <1>1, <1>2, <1>3 DEF Arrive

LEMMA GenerateSettles ==
  ASSUME CollectionsAssumption, LInv, IInv', NEW s \in Slots, Generate(s) PROVE LInv'
<1> DEFINE q == [Idle EXCEPT !.op = "generate", !.todo = Users, !.pc = "genget"]
<1>1. Becomes(s, q) /\ UNCHANGED <<owner, row, list, astray>> /\ req[s].pc = "idle"
  BY DEF Generate, Becomes, tables, At
<1>2. q.pc = "genget"
  BY DEF Idle
<1>3. Placed(q)
  <2> HIDE DEF q
  <2> QED
    BY <1>2 DEF Placed
<1>4. \A u \in Users, d \in Collections : ~Debt(req[s], u, d)
  BY <1>1, OwnDebt
<1> QED
  BY <1>1, <1>3, <1>4, QuietDebts

\* What the records of a request say after Goto.
LEMMA GoingFurther ==
  ASSUME LInv, NEW s \in Slots, NEW pc \in Points, Goto(s, pc),
         req[s].pc \notin {"idle", "genget", "genset"}
  PROVE  /\ Becomes(s, On(s, pc)) /\ On(s, pc).pc = pc /\ On(s, pc).c = req[s].c
         /\ On(s, pc).op = req[s].op /\ On(s, pc).target = req[s].target
         /\ On(s, pc).todo = req[s].todo /\ On(s, pc).owner = req[s].owner
         /\ On(s, pc).actor = req[s].actor
         /\ req[s] \in Requests /\ req[s].c \in Collections /\ req[s].target \in Users
         /\ req[s].op # "generate"
         /\ pc \in {"load", "unrow", "own", "wipe", "visit", "genget"} => Placed(On(s, pc))
<1>1. IInv /\ Placed(req[s])
  BY DEF LInv
<1>2. req[s] \in Requests /\ req[s].c \in Collections /\ req[s].target \in Users
  BY <1>1, WriterIsHonest
<1>3. On(s, pc).op = req[s].op /\ On(s, pc).actor = req[s].actor
  BY <1>2 DEF On, Requests
<1>4. Becomes(s, On(s, pc)) /\ On(s, pc).pc = pc /\ On(s, pc).c = req[s].c
      /\ On(s, pc).target = req[s].target
      /\ On(s, pc).todo = req[s].todo /\ On(s, pc).owner = req[s].owner
  BY <1>1, Going
<1>5. req[s].op # "generate"
  BY <1>1 DEF Placed
<1> QED
  BY <1>2, <1>3, <1>4, <1>5 DEF Placed

\* A write of a row of a collection there is, or of none, that the reset is going to follow.
LEMMA WrittenSettles ==
  ASSUME CollectionsAssumption, LInv, IInv', NEW s \in Slots, Written(s), req[s].pc = "write",
         owner' = owner, astray \subseteq astray',
         \A d \in Collections, v \in Users :
           (d = req[s].c /\ v = req[s].target) \/ row'[d][v] = row[d][v],
         \A d \in Collections \ {req[s].c} : row'[d] = row[d],
         LET c == req[s].c
             t == req[s].target
         IN /\ owner[c] = NoOne => row'[c][t] = NoRow
            /\ \/ <<t, c>> \in astray'
               \/ owner[c] # NoOne /\ row'[c][t] # NoRow
               \/ owner[c] # NoOne /\ req[s].op \in {"remove", "leave"}
               \/ row'[c][t] = row[c][t]
  PROVE  LInv'
<1> DEFINE q == On(s, "load")
<1>1. Goto(s, "load") /\ list' = list
  BY DEF Written
<1>2. /\ Becomes(s, q) /\ q.pc = "load" /\ q.c = req[s].c /\ q.op = req[s].op
      /\ q.target = req[s].target /\ req[s].c \in Collections /\ req[s].target \in Users
      /\ req[s].op # "generate" /\ Placed(q)
  <2>1. "load" \in Points
    BY DEF Points
  <2> QED
    BY <1>1, <2>1, GoingFurther
<1> HIDE DEF q
<1>3. Unborn'
  BY <1>2 DEF LInv, Unborn
<1>4. \A u \in Users, c \in Collections : ~Debt(req[s], u, c)
  BY OwnDebt
<1>5. ASSUME NEW u \in Users, NEW c \in Collections \cap {req[s].c}
      PROVE  \/ <<u, c>> \in astray'
             \/ owner'[c] # NoOne /\ Owes(q, u, c, owner'[c], row'[c][u])
             \/ /\ ~Debt(req[s], u, c) /\ owner'[c] = owner[c] /\ row'[c][u] = row[c][u]
  <2>1. CASE u # req[s].target
    BY <1>4, <2>1
  <2>2. CASE u = req[s].target /\ row'[c][u] # row[c][u]
    BY <1>2, <2>2 DEF Owes
  <2> QED
    BY <1>4, <2>1, <2>2
<1> QED
  BY <1>1, <1>2, <1>3, <1>5, TableDebts

LEMMA RowsSettle ==
  ASSUME CollectionsAssumption, LInv, IInv', NEW s \in Slots,
         Add(s) \/ Update(s) \/ Remove(s) \/ Accept(s) \/ Reject(s)
  PROVE  LInv'
<1> DEFINE c == req[s].c
           t == req[s].target
<1>1. req[s].pc = "write" /\ Written(s) /\ owner' = owner /\ IInv
  BY DEF Add, Update, Remove, Accept, Reject, At, LInv
<1>2. /\ req[s] \in Requests /\ c \in Collections /\ t \in Users
      /\ owner \in [Collections -> Users \cup {NoOne, Gone}]
      /\ row \in [Collections -> [Users -> Rows]]
  BY <1>1, WriterIsHonest
<1>3. owner[c] = NoOne => row[c][t] = NoRow
  BY <1>2 DEF LInv, Unborn
<1>4. /\ \A d \in Collections, v \in Users : (d = c /\ v = t) \/ row'[d][v] = row[d][v]
      /\ \A d \in Collections \ {c} : row'[d] = row[d]
  <2>1. CASE row' = row
    BY <2>1
  <2>2. CASE \E r : row' = [row EXCEPT ![c][t] = r]
    BY <1>2, <2>2
  <2>3. row' = row \/ \E r : row' = [row EXCEPT ![c][t] = r]
    <3>1. CASE Add(s) \/ Remove(s) \/ Reject(s)
      BY <3>1 DEF Add, Remove, Reject, SetRow
    <3>2. CASE Update(s)
      BY <3>2 DEF Update
    <3>3. CASE Accept(s)
      BY <3>3 DEF Accept
    <3> QED
      BY <3>1, <3>2, <3>3
  <2> QED
    BY <2>1, <2>2, <2>3
<1>5. astray \subseteq astray'
  BY DEF Add, Update, Remove, Accept, Reject
<1>6. CASE Add(s)
  <2>1. [perms |-> req[s].perms, accepted |-> ~Invited] # NoRow
    <3>1. [perms |-> req[s].perms, accepted |-> ~Invited] \in [perms : SUBSET Perms, accepted : BOOLEAN]
      BY <1>2 DEF CollectionsAssumption, Requests
    <3> QED
      BY <3>1 DEF CollectionsAssumption
  <2>2. owner[c] # NoOne /\ row'[c][t] # NoRow
    BY <1>2, <1>6, <2>1 DEF Add, SetRow, Exists, CollectionsAssumption
  <2> QED
    BY <1>1, <1>4, <1>5, <2>2, WrittenSettles
<1>7. CASE Update(s)
  <2>1. CASE row[c][t] = NoRow
    BY <1>1, <1>4, <1>5, <1>7, <2>1, WrittenSettles DEF Update
  <2>2. CASE row[c][t] # NoRow
    <3>1. [row[c][t] EXCEPT !.perms = req[s].perms] \in [perms : SUBSET Perms, accepted : BOOLEAN]
      <4>1. row[c][t] \in [perms : SUBSET Perms, accepted : BOOLEAN]
        BY <1>2, <2>2 DEF Rows
      <4> QED
        BY <1>2, <4>1 DEF Requests
    <3>2. row'[c][t] = [row[c][t] EXCEPT !.perms = req[s].perms]
      BY <1>2, <1>7, <2>2 DEF Update
    <3>3. owner[c] # NoOne /\ row'[c][t] # NoRow
      BY <1>3, <2>2, <3>1, <3>2 DEF CollectionsAssumption
    <3> QED
      BY <1>1, <1>4, <1>5, <3>3, WrittenSettles
  <2> QED
    BY <2>1, <2>2
<1>8. CASE Remove(s)
  <2>1. owner[c] # NoOne /\ req[s].op \in {"remove", "leave"}
    BY <1>3, <1>8 DEF Remove
  <2> QED
    BY <1>1, <1>4, <1>5, <2>1, WrittenSettles
<1>9. CASE Accept(s)
  <2>1. [row[c][t] EXCEPT !.accepted = TRUE] \in [perms : SUBSET Perms, accepted : BOOLEAN]
    <3>1. row[c][t] \in [perms : SUBSET Perms, accepted : BOOLEAN]
      BY <1>2, <1>9 DEF Rows, Accept
    <3> QED
      BY <3>1
  <2>2. row'[c][t] = [row[c][t] EXCEPT !.accepted = TRUE]
    BY <1>2, <1>9 DEF Accept
  <2>3. owner[c] # NoOne /\ row'[c][t] # NoRow
    BY <1>3, <1>9, <2>1, <2>2 DEF CollectionsAssumption, Accept
  <2> QED
    BY <1>1, <1>4, <1>5, <2>3, WrittenSettles
<1>10. CASE Reject(s)
  <2>1. owner[c] # NoOne /\ <<t, c>> \in astray'
    BY <1>3, <1>10 DEF Reject
  <2> QED
    BY <1>1, <1>4, <1>5, <2>1, WrittenSettles
<1> QED
  BY <1>6, <1>7, <1>8, <1>9, <1>10

LEMMA CreateSettles ==
  ASSUME CollectionsAssumption, LInv, IInv', NEW s \in Slots, Create(s) PROVE LInv'
<1> DEFINE q == On(s, "load")
<1>1. Goto(s, "load") /\ list' = list /\ req[s].pc = "write" /\ req[s].op = "create"
      /\ row' = row /\ astray' = astray /\ owner' = [owner EXCEPT ![req[s].c] = req[s].actor]
      /\ owner[req[s].c] = NoOne /\ IInv
  BY DEF Create, Written, At, LInv
<1>2. /\ Becomes(s, q) /\ q.pc = "load" /\ q.c = req[s].c /\ q.op = req[s].op
      /\ q.target = req[s].target /\ req[s].c \in Collections /\ req[s].target \in Users
      /\ req[s].op # "generate" /\ Placed(q)
  BY <1>1, GoingFurther DEF Points
<1>3. req[s].actor = req[s].target
  BY <1>1 DEF LInv, Placed
<1>4. /\ owner \in [Collections -> Users \cup {NoOne, Gone}]
      /\ \A d \in Collections : owner'[d] = IF d = req[s].c THEN req[s].target ELSE owner[d]
  BY <1>1, <1>3 DEF IInv, Shape
<1> HIDE DEF q
<1>5. Unborn'
  BY <1>1, <1>2, <1>4 DEF LInv, Unborn, CollectionsAssumption
<1>6. ASSUME NEW u \in Users, NEW c \in Collections \cap {req[s].c}
      PROVE  \/ owner'[c] # NoOne /\ Owes(q, u, c, owner'[c], row'[c][u])
             \/ Fits(u, c)'
  <2>1. CASE u = req[s].target
    BY <1>2, <1>4, <2>1 DEF Owes, CollectionsAssumption
  <2>2. CASE u # req[s].target
    <3>1. Fits(u, c) /\ row[c][u] = NoRow
      BY <1>1 DEF LInv, Told, Unborn
    <3>2. u # NoOne
      BY DEF CollectionsAssumption
    <3>3. Generated(u)[c] = NoEntry /\ Generated(u)'[c] = NoEntry
      BY <1>1, <1>4, <2>2, <3>1, <3>2 DEF Generated
    <3> QED
      BY <1>1, <3>1, <3>2, <3>3 DEF Fits, Agrees
  <2> QED
    BY <2>1, <2>2
<1>7. \A c \in Collections \ {req[s].c}, u \in Users : ~Debt(req[s], u, c)
  BY OwnDebt
<1>8. \A c \in Collections \ {req[s].c}, u \in Users : owner'[c] = owner[c] /\ (Fits(u, c) => Fits(u, c)')
  BY <1>1, <1>4 DEF Fits, Agrees, Generated, Exists
<1>9. \A c \in Collections \ {req[s].c}, u \in Users :
        \A r \in Requests : Debt(r, u, c) => Owes(r, u, c, owner'[c], row'[c][u])
  BY <1>1, <1>8 DEF Debt
<1>10. \A u \in Users, c \in Collections :
           \/ Fits(u, c)'
           \/ owner'[c] # NoOne /\ Owes(q, u, c, owner'[c], row'[c][u])
           \/ /\ Fits(u, c) => Fits(u, c)'
              /\ ~Debt(req[s], u, c)
              /\ owner[c] # NoOne => owner'[c] # NoOne
              /\ \A r \in Requests : Debt(r, u, c) => Owes(r, u, c, owner'[c], row'[c][u])
  BY <1>6, <1>7, <1>8, <1>9
<1> QED
  BY <1>2, <1>5, <1>10, Settling

LEMMA RefuseSettles ==
  ASSUME CollectionsAssumption, LInv, IInv', NEW s \in Slots, Refuse(s) \/ TransferThrows(s)
  PROVE  LInv'
<1>1. \A u \in Users, c \in Collections : ~Debt(req[s], u, c)
  BY OwnDebt DEF Refuse, TransferThrows, At
<1> QED
  BY <1>1, EndingDebts DEF Refuse, TransferThrows, tables

------------------------------------------------------------------------------
(* The transfer.                                                           *)

LEMMA TransferRowSettles ==
  ASSUME CollectionsAssumption, LInv, IInv', NEW s \in Slots, TransferRow(s) PROVE LInv'
<1>1. Goto(s, "unrow") /\ req[s].pc = "orphan" /\ UNCHANGED <<owner, row, list, astray>>
  BY DEF TransferRow, At
<1>2. Becomes(s, On(s, "unrow")) /\ Placed(On(s, "unrow"))
  BY <1>1, GoingFurther DEF Points
<1>3. \A u \in Users, c \in Collections : ~Debt(req[s], u, c)
  BY <1>1, OwnDebt
<1> QED
  BY <1>1, <1>2, <1>3, QuietDebts

LEMMA TransferUnrowSettles ==
  ASSUME CollectionsAssumption, LInv, IInv', NEW s \in Slots, TransferUnrow(s) PROVE LInv'
<1> DEFINE q == On(s, "own")
           d == req[s].c
           t == req[s].target
<1>1. Goto(s, "own") /\ req[s].pc = "unrow" /\ UNCHANGED <<owner, list, astray>>
      /\ SetRow(d, t, NoRow) /\ IInv
  BY DEF TransferUnrow, At, LInv
<1>2. /\ Becomes(s, q) /\ q.pc = "own" /\ q.c = d /\ q.op = req[s].op /\ q.target = t
      /\ d \in Collections /\ t \in Users /\ req[s].op # "generate" /\ Placed(q)
  BY <1>1, GoingFurther DEF Points
<1>3. /\ \A c \in Collections, u \in Users : row'[c][u] = IF c = d /\ u = t THEN NoRow ELSE row[c][u]
      /\ \A c \in Collections \ {d} : row'[c] = row[c]
  BY <1>1, <1>2 DEF SetRow, IInv, Shape
<1> HIDE DEF q
<1>4. Unborn'
  BY <1>1, <1>3 DEF LInv, Unborn
<1>5. \A u \in Users, c \in Collections : ~Debt(req[s], u, c)
  BY <1>1, OwnDebt
<1>6. ASSUME NEW u \in Users, NEW c \in Collections \cap {d}
      PROVE  \/ owner'[c] # NoOne /\ Owes(q, u, c, owner'[c], row'[c][u])
             \/ /\ ~Debt(req[s], u, c) /\ owner'[c] = owner[c] /\ row'[c][u] = row[c][u]
  <2>1. CASE row'[c][u] = row[c][u]
    BY <1>1, <1>5, <2>1
  <2>2. CASE row'[c][u] # row[c][u]
    <3>1. u = t /\ row[c][u] # NoRow
      BY <1>3, <2>2
    <3>2. owner[c] # NoOne
      BY <3>1 DEF LInv, Unborn
    <3> QED
      BY <1>1, <1>2, <3>1, <3>2 DEF Owes
  <2> QED
    BY <2>1, <2>2
<1> QED
  BY <1>1, <1>2, <1>3, <1>4, <1>6, TableDebts

LEMMA TransferOwnSettles ==
  ASSUME CollectionsAssumption, LInv, IInv', NEW s \in Slots, TransferOwn(s) PROVE LInv'
<1> DEFINE q == On(s, "load")
           d == req[s].c
           t == req[s].target
<1>1. Goto(s, "load") /\ req[s].pc = "own" /\ list' = list /\ row' = row /\ IInv
  BY DEF TransferOwn, Written, At, LInv
<1>2. /\ Becomes(s, q) /\ q.pc = "load" /\ q.c = d /\ q.op = req[s].op /\ q.target = t
      /\ d \in Collections /\ t \in Users /\ req[s].op # "generate" /\ Placed(q)
  BY <1>1, GoingFurther DEF Points
<1>3. owner \in [Collections -> Users \cup {NoOne, Gone}]
  BY <1>1 DEF IInv, Shape
<1>4. astray \subseteq astray'
  BY DEF TransferOwn
<1>5. \A c \in Collections : owner'[c] = IF c = d /\ Exists(d) THEN t ELSE owner[c]
  BY <1>3 DEF TransferOwn
<1>6. Unborn'
  BY <1>1, <1>2, <1>5 DEF LInv, Unborn, CollectionsAssumption
<1> HIDE DEF q
<1>7. ASSUME NEW u \in Users, NEW c \in Collections \cap {d}
      PROVE  \/ <<u, c>> \in astray'
             \/ Fits(u, c)'
             \/ owner'[c] # NoOne /\ Owes(q, u, c, owner'[c], row'[c][u])
             \/ /\ ~Debt(req[s], u, c) /\ owner'[c] = owner[c] /\ row'[c][u] = row[c][u]
             \/ /\ Fits(u, c) => Fits(u, c)'
                /\ ~Debt(req[s], u, c)
                /\ owner[c] # NoOne => owner'[c] # NoOne
                /\ \A r \in Requests : Debt(r, u, c) => Owes(r, u, c, owner'[c], row'[c][u])
  <2>1. CASE Exists(c)
    <3>1. owner'[c] = t /\ owner[c] \in Users /\ t # NoOne /\ owner[c] # NoOne
      BY <1>2, <1>5, <2>1 DEF Exists, CollectionsAssumption
    <3>2. CASE u = t
      BY <1>2, <3>1, <3>2 DEF Owes
    <3>3. CASE u = owner[c]
      BY <2>1, <3>3 DEF TransferOwn
    <3>4. CASE u # t /\ u # owner[c]
      <4>1. ~Debt(req[s], u, c)
        BY <1>1, <3>4 DEF Debt, Owes
      <4>2. Fits(u, c) => Fits(u, c)'
        <5>1. Generated(u)'[c] = Generated(u)[c]
          BY <1>1, <1>2, <3>1, <3>4 DEF Generated, Exists
        <5>2. Rights(owner'[c], row'[c][u], u) = Rights(owner[c], row[c][u], u)
          BY <1>1, <3>1, <3>4 DEF Rights
        <5> QED
          BY <1>1, <1>4, <3>1, <3>4, <5>1, <5>2 DEF Fits, Agrees
      <4>3. \A r \in Requests : Debt(r, u, c) => Owes(r, u, c, owner'[c], row'[c][u])
        BY <1>1, <1>2, <3>1, <3>4 DEF Debt, Owes
      <4> QED
        BY <3>1, <4>1, <4>2, <4>3
    <3> QED
      BY <3>2, <3>3, <3>4
  <2>2. CASE ~Exists(c)
    <3>1. owner'[c] = owner[c] /\ row'[c][u] = row[c][u]
      BY <1>1, <1>5, <2>2
    <3>2. CASE owner[c] = NoOne
      <4>1. Fits(u, c)
        BY <3>2 DEF LInv, Told
      <4>2. Fits(u, c)'
        BY <1>1, <1>4, <3>1, <4>1 DEF Fits, Agrees, Generated, Exists
      <4> QED
        BY <3>1, <4>2
    <3>3. CASE owner[c] # NoOne
      BY <1>2, <2>2, <3>1, <3>3 DEF Owes, Exists
    <3> QED
      BY <3>2, <3>3
  <2> QED
    BY <2>1, <2>2
<1>8. \A c \in Collections \ {d} : owner'[c] = owner[c] /\ row'[c] = row[c]
  BY <1>1, <1>5
<1> QED
  BY <1>1, <1>2, <1>4, <1>6, <1>7, <1>8, TableDebts

------------------------------------------------------------------------------
(* The reset settles, and so does the deletion.                            *)

LEMMA LoadSettles ==
  ASSUME CollectionsAssumption, LInv, IInv', NEW s \in Slots, Load(s) PROVE LInv'
<1> DEFINE r == req[s]
           pc == IF r.op \in {"remove", "leave"} THEN "cutget" ELSE "visit"
           todo == {u \in Users : row[r.c][u] # NoRow}
           q == [r EXCEPT !.owner = owner[r.c], !.rows = row[r.c], !.orphan = r.c \in orphan,
                          !.todo = todo, !.at = r.target, !.pc = pc]
<1>1. /\ r \in Requests /\ r.c \in Collections /\ r.target \in Users /\ r.pc = "load"
      /\ r.op # "generate"
  BY WriterIsHonest DEF Load, At, LInv, Placed
<1>2. UNCHANGED <<owner, row, list>>
  BY DEF Load, tables
<1>3. CASE Exists(r.c) /\ Becomes(s, q) /\ astray' = astray
  <2> HIDE DEF r, pc, todo
  <2>1. /\ q.pc = pc /\ q.c = r.c /\ q.op = r.op /\ q.target = r.target
        /\ q.owner = owner[r.c] /\ q.rows = row[r.c] /\ q.todo = todo
    BY <1>1 DEF Requests
  <2>2. Placed(q)
    <3> HIDE DEF q
    <3> QED
      BY <1>1, <2>1 DEF Placed, todo, pc
  <2>3. \A u \in Users, c \in Collections :
          Debt(req[s], u, c) => Owes(q, u, c, owner[c], row[c][u])
    <3> HIDE DEF q
    <3>1. ASSUME NEW u \in Users, NEW c \in Collections, Debt(r, u, c)
          PROVE  Owes(q, u, c, owner[c], row[c][u])
      <4>1. r.c = c /\ (owner[c] = u \/ row[c][u] # NoRow \/ (r.op \in {"remove", "leave"} /\ u = r.target))
        BY <1>1, <1>3, <3>1 DEF Debt, Owes, Exists
      <4> QED
        BY <1>1, <2>1, <4>1 DEF Owes, todo, pc
    <3> QED
      BY <3>1 DEF r
  <2> QED
    BY <1>2, <1>3, <2>2, <2>3, QuietDebts
<1>4. CASE Done(s) /\ astray' = astray \cup Everyone(r.c)
  BY <1>2, <1>4, OwnDebt, EndingDebts
<1> QED
  BY <1>3, <1>4 DEF Load, Becomes

LEMMA FetchSettles ==
  ASSUME CollectionsAssumption, LInv, IInv', NEW s \in Slots, NEW u \in Users,
         NEW pc \in {"cutset", "visitset"}, Fetch(s, u, pc),
         req[s].pc = IF pc = "cutset" THEN "cutget" ELSE "visit",
         pc = "cutset" => u = req[s].target,
         pc = "visitset" => u \in req[s].todo \/ (req[s].todo = {} /\ u = req[s].owner),
         UNCHANGED <<owner, row, list>>
  PROVE  LInv'
<1> DEFINE r == req[s]
           q == [r EXCEPT !.at = u, !.copy = list[u], !.pc = pc]
<1>1. /\ r \in Requests /\ r.c \in Collections /\ r.target \in Users /\ r.op # "generate"
      /\ Placed(r)
  BY WriterIsHonest DEF LInv, Placed
<1>2. CASE astray' = astray /\ Becomes(s, q)
  <2> HIDE DEF r
  <2>1. /\ q.pc = pc /\ q.at = u /\ q.c = r.c /\ q.op = r.op
        /\ q.target = r.target /\ q.owner = r.owner /\ q.rows = r.rows
        /\ q.todo = r.todo
    BY <1>1 DEF Requests
  <2> HIDE DEF q
  <2>2. Placed(q)
    BY <1>1, <2>1 DEF Placed, r
  <2>3. \A v \in Users, c \in Collections :
          Debt(r, v, c) => Owes(q, v, c, owner[c], row[c][v])
    BY <2>1 DEF Debt, Owes, r
  <2> QED
    BY <1>2, <2>2, <2>3, QuietDebts DEF r
<1>3. CASE Done(s) /\ astray' = astray \cup Everyone(r.c)
  BY <1>3, OwnDebt, EndingDebts
<1> QED
  BY <1>2, <1>3 DEF Fetch, Becomes

LEMMA ResetReadsSettle ==
  ASSUME CollectionsAssumption, LInv, IInv', NEW s \in Slots, CutGet(s) \/ VisitGet(s) PROVE LInv'
<1>1. UNCHANGED <<owner, row, list>> /\ req[s].pc \in {"cutget", "visit"} /\ IInv
  BY DEF CutGet, VisitGet, tables, At, LInv
<1>2. req[s].target \in Users /\ req[s].owner \in Users /\ req[s].todo \subseteq Users
  BY <1>1 DEF IInv, Requested, Honest, Requests
<1>3. CASE CutGet(s)
  BY <1>1, <1>2, <1>3, FetchSettles DEF CutGet, At
<1>4. CASE VisitGet(s)
  <2>0. req[s].pc = "visit"
    BY <1>4 DEF VisitGet, At
  <2>1. CASE Done(s) /\ astray' = astray \cup Everyone(req[s].c)
    BY <1>1, <2>1, OwnDebt, EndingDebts
  <2>2. ASSUME NEW u \in req[s].todo, Fetch(s, u, "visitset") PROVE LInv'
    BY <1>1, <1>2, <2>0, <2>2, FetchSettles
  <2>3. CASE req[s].todo = {} /\ Fetch(s, req[s].owner, "visitset")
    BY <1>1, <1>2, <2>0, <2>3, FetchSettles
  <2> QED
    BY <1>4, <2>1, <2>2, <2>3 DEF VisitGet
<1> QED
  BY <1>3, <1>4

\* What a write of a list leaves alone, and what it loses: the entries of other collections.
LEMMA OthersFit ==
  ASSUME CollectionsAssumption, IInv, NEW s \in Slots, NEW l \in [Collections -> Entries],
         NEW v \in Users, v = req[s].at, list' = [list EXCEPT ![v] = l], UNCHANGED <<owner, row>>,
         NEW c \in Collections, c # req[s].c, l[c] = req[s].copy[c],
         <<v, c>> \notin Lost(s), <<v, c>> \in astray => <<v, c>> \in astray'
  PROVE  Fits(v, c) => Fits(v, c)'
<1>1. list'[v] = l
  BY DEF IInv, Shape
<1>2. list[v] # NoList /\ list[v][c] = l[c]
  BY DEF Lost
<1>3. Generated(v)'[c] = Generated(v)[c] /\ owner' = owner /\ row' = row
  BY DEF Generated, Exists
<1> QED
  BY <1>1, <1>2, <1>3 DEF Fits, Agrees

\* Writing l as the list of v: what is lost but the entry of c goes astray.
LosesOnly(s, v, c, l) ==
  /\ \A e \in astray : e = <<v, c>> \/ e \in astray'
  /\ \A d \in Collections \ {c} :
       <<v, d>> \in astray' \/ (l[d] = req[s].copy[d] /\ <<v, d>> \notin Lost(s))

\* A write of the list of v, that a request has read, with its entry of c.
LEMMA PutSettles ==
  ASSUME CollectionsAssumption, LInv, IInv', NEW s \in Slots, NEW q, Becomes(s, q), Placed(q),
         UNCHANGED <<owner, row>>, req[s].pc \in {"cutset", "visitset"},
         NEW v \in Users, v = req[s].at, NEW c \in Collections, c = req[s].c,
         NEW l \in [Collections -> Entries], list' = [list EXCEPT ![v] = l],
         LosesOnly(s, v, c, l),
         \A u \in Users \ {v}, d \in Collections :
           Debt(req[s], u, d) => Owes(q, u, d, owner[d], row[d][u]),
         Fits(v, c)' \/ (owner[c] # NoOne /\ Owes(q, v, c, owner[c], row[c][v]))
  PROVE  LInv'
<1>1. \A u \in Users \ {v}, d \in Collections : <<u, d>> \in astray => <<u, d>> \in astray'
  BY DEF LosesOnly
<1>2. ASSUME NEW d \in Collections, d # c
      PROVE  Fits(v, d)' \/ (~Debt(req[s], v, d) /\ (Fits(v, d) => Fits(v, d)'))
  <2>1. ~Debt(req[s], v, d)
    BY <1>2 DEF Debt, Owes
  <2>2. CASE <<v, d>> \in astray'
    BY <2>2 DEF Fits
  <2>3. CASE l[d] = req[s].copy[d] /\ <<v, d>> \notin Lost(s)
    <3>1. <<v, d>> \in astray => <<v, d>> \in astray'
      BY <1>2 DEF LosesOnly
    <3>2. Fits(v, d) => Fits(v, d)'
      <4>1. IInv
        BY DEF LInv
      <4> QED
        BY <1>2, <2>3, <3>1, <4>1, OthersFit
    <3> QED
      BY <2>1, <3>2
  <2> QED
    BY <1>2, <2>2, <2>3 DEF LosesOnly
<1>3. \A d \in Collections :
           \/ Fits(v, d)'
           \/ owner[d] # NoOne /\ Owes(q, v, d, owner[d], row[d][v])
           \/ ~Debt(req[s], v, d) /\ (Fits(v, d) => Fits(v, d)')
  BY <1>2
<1> QED
  BY <1>1, <1>3, ListDebts

\* What a list's entry may be.
LEMMA EntryThere ==
  ASSUME NEW e \in SUBSET Full PROVE e # NoEntry /\ e \in Entries
  BY DEF NoEntry, Full, Perms, Entries

\* The entry of a member who is not the owner is right when the row read is.
LEMMA MemberEntry ==
  ASSUME CollectionsAssumption, NEW r \in Requests, r.at \in Users, r.rows[r.at] # NoRow, r.owner # r.at
  PROVE  EntryOf(r) = Rights(r.owner, r.rows[r.at], r.at)
<1>1. r.rows[r.at] \in [perms : SUBSET Perms, accepted : BOOLEAN]
  BY DEF Requests, Rows
<1> QED
  BY <1>1 DEF EntryOf, Entry, Rights, Perms

LEMMA VisitSettles ==
  ASSUME CollectionsAssumption, LInv, IInv', NEW s \in Slots, VisitSet(s) PROVE LInv'
<1> DEFINE r == req[s]
<1>0. PICK v \in Users, c \in Collections : v = r.at /\ c = r.c
  BY DEF VisitSet, At, LInv, IInv, Requested, Honest
<1> DEFINE e == IF v \in r.todo THEN EntryOf(r) ELSE Full
           l == [r.copy EXCEPT ![c] = e]
           q == IF v \in r.todo THEN [r EXCEPT !.todo = @ \ {v}, !.pc = "visit"] ELSE Idle
<1>1. /\ Honest(r, held) /\ r \in Requests /\ req \in [Slots -> Requests] /\ r.pc = "visitset"
      /\ r.copy \in [Collections -> Entries] /\ v \in Users /\ c \in Collections
      /\ r.owner \in Users /\ Placed(r) /\ IInv /\ (v \in r.todo => r.rows[v] # NoRow)
  <2>1. /\ Honest(r, held) /\ r \in Requests /\ req \in [Slots -> Requests] /\ r.pc = "visitset"
        /\ Placed(r) /\ IInv
    BY DEF VisitSet, At, LInv, IInv, Requested, Honest
  <2>2. r.copy \in Lists /\ r.copy # NoList
    BY <2>1 DEF Honest, Requests
  <2>3. r.owner \in Users /\ (v \in r.todo => r.rows[v] # NoRow)
    BY <2>1 DEF Honest
  <2> QED
    BY <1>0, <2>1, <2>2, <2>3 DEF Lists
<1>2. e \in SUBSET Full /\ (v \in r.todo /\ r.owner # v => e = Rights(r.owner, r.rows[v], v))
  BY <1>0, <1>1, EntryIsRight, MemberEntry
<1>3. /\ l \in [Collections -> Entries] /\ l[c] = e /\ e # NoEntry
      /\ \A d \in Collections \ {c} : l[d] = r.copy[d]
  <2>1. e \in Entries /\ e # NoEntry
    BY <1>0, <1>2, EntryThere
  <2> HIDE DEF e
  <2> QED
    BY <1>0, <1>1, <2>1
<1>4. list' = [list EXCEPT ![v] = l] /\ UNCHANGED <<owner, row>> /\ Mark(s)
  BY <1>0 DEF VisitSet, tables
<1>5. Becomes(s, q)
  BY <1>0, <1>1 DEF VisitSet, Becomes, Done
<1>6. v \in r.todo => /\ q.pc = "visit" /\ q.todo = r.todo \ {v} /\ q.c = r.c /\ q.op = r.op
                      /\ q.owner = r.owner /\ q.rows = r.rows
  BY <1>0, <1>1 DEF Requests
<1>7. Placed(q)
  <2>1. CASE v \in r.todo
    <3> HIDE DEF q
    <3> QED
      BY <1>0, <1>1, <1>6, <2>1 DEF Placed
  <2>2. CASE v \notin r.todo
    BY <1>0, <2>2 DEF Placed, Idle
  <2> QED
    BY <1>0, <2>1, <2>2
<1>8. \A x \in astray : x = <<v, c>> \/ x \in astray'
  BY <1>0, <1>4 DEF Mark
<1>9. \A u \in Users \ {v}, d \in Collections :
        Debt(req[s], u, d) => Owes(q, u, d, owner[d], row[d][u])
  <2> HIDE DEF q
  <2>1. CASE v \in r.todo
    BY <1>0, <1>1, <1>6, <2>1 DEF Debt, Owes
  <2>2. CASE v \notin r.todo
    BY <1>0, <1>1, <2>2 DEF Debt, Owes, Placed
  <2> QED
    BY <1>0, <2>1, <2>2
<1>10. \A d \in Collections \ {c} :
         <<v, d>> \in astray' \/ (l[d] = req[s].copy[d] /\ <<v, d>> \notin Lost(s))
  <2>1. \A d \in Collections \ {c} : <<v, d>> \in Lost(s) => <<v, d>> \in astray'
    BY <1>0, <1>4 DEF Mark
  <2> QED
    BY <1>0, <1>3, <2>1
<1>11. \/ Fits(v, c)'
       \/ owner[c] # NoOne /\ Owes(q, v, c, owner[c], row[c][v])
  <2>1. CASE Stale(s)
    BY <1>0, <1>4, <2>1 DEF Mark, Fits
  <2>2. CASE ~Stale(s)
    <3>1. owner[c] = r.owner /\ row[c][v] = r.rows[v] /\ owner[c] # NoOne
      BY <1>0, <1>1, <2>2 DEF Stale, CollectionsAssumption
    <3>2. list'[v] = l /\ owner' = owner /\ row' = row
      BY <1>0, <1>1, <1>4 DEF IInv, Shape
    <3>3. CASE v \in r.todo /\ r.owner = v
      <4> HIDE DEF q
      <4> QED
        BY <1>0, <1>1, <1>6, <3>1, <3>3 DEF Owes, Placed
    <3>4. CASE v \in r.todo /\ r.owner # v
      <4>1. e = Rights(owner[c], row[c][v], v) /\ row[c][v] # NoRow
        BY <1>0, <1>1, <1>2, <3>1, <3>4
      <4> HIDE DEF e, l
      <4> QED
        BY <1>0, <1>3, <3>2, <4>1 DEF Fits, Agrees
    <3>5. CASE v \notin r.todo
      <4>1. e = Full /\ owner[c] = v
        BY <1>0, <1>1, <3>1, <3>5 DEF Placed
      <4> HIDE DEF e, l
      <4> QED
        BY <1>0, <1>3, <3>2, <4>1 DEF Fits, Agrees, Rights
    <3> QED
      BY <1>0, <3>3, <3>4, <3>5
  <2> QED
    BY <1>0, <2>1, <2>2
<1> HIDE DEF q, l
<1>12. v = req[s].at /\ c = req[s].c /\ req[s].pc \in {"cutset", "visitset"}
  BY <1>0, <1>1
<1>13. l \in [Collections -> Entries] /\ list' = [list EXCEPT ![v] = l] /\ UNCHANGED <<owner, row>>
  BY <1>3, <1>4
<1>14. LosesOnly(s, v, c, l)
  BY <1>8, <1>10 DEF LosesOnly
<1> HIDE DEF r
<1> QED
  BY <1>5, <1>7, <1>9, <1>11, <1>12, <1>13, <1>14, PutSettles

LEMMA CutSettles ==
  ASSUME CollectionsAssumption, LInv, IInv', NEW s \in Slots, CutSet(s) PROVE LInv'
<1> DEFINE r == req[s]
<1>0. PICK v \in Users, c \in Collections : v = r.at /\ c = r.c
  BY DEF CutSet, At, LInv, IInv, Requested, Honest
<1> DEFINE q == On(s, "visit")
<1>1. /\ Honest(r, held) /\ r \in Requests /\ req \in [Slots -> Requests] /\ r.pc = "cutset"
      /\ r.copy \in [Collections -> Entries] /\ v \in Users /\ c \in Collections
      /\ r.owner \in Users /\ Placed(r) /\ IInv
  <2>1. /\ Honest(r, held) /\ r \in Requests /\ req \in [Slots -> Requests] /\ r.pc = "cutset"
        /\ Placed(r) /\ IInv
    BY DEF CutSet, At, LInv, IInv, Requested, Honest
  <2>2. r.copy \in Lists /\ r.copy # NoList
    BY <2>1 DEF Honest, Requests
  <2>3. r.owner \in Users
    BY <2>1 DEF Honest
  <2> QED
    BY <1>0, <2>1, <2>2, <2>3 DEF Lists
<1>2. PICK l :
        /\ Put(s, l, "visit")
        /\ \/ Cut(s) = {} /\ l = r.copy /\ Mark(s)
           \/ \E d \in Cut(s) :
                /\ l = [r.copy EXCEPT ![d] = NoEntry]
                /\ IF d = c THEN Mark(s)
                   ELSE astray' = astray \cup Lost(s) \cup {<<v, d>>}
                                    \cup {e \in {<<v, c>>} : Stale(s)}
  BY <1>0 DEF CutSet
<1>3. l \in [Collections -> Entries] /\ l[c] = NoEntry
  <2>1. CASE Cut(s) = {} /\ l = r.copy
    BY <1>0, <1>1, <2>1 DEF Cut
  <2>2. ASSUME NEW d \in Cut(s), l = [r.copy EXCEPT ![d] = NoEntry]
        PROVE  l \in [Collections -> Entries] /\ l[c] = NoEntry
    <3>1. d \in Collections /\ (r.copy[c] # NoEntry => d = c) /\ NoEntry \in Entries
      BY <1>0 DEF Cut, Entries
    <3> QED
      BY <1>0, <1>1, <2>2, <3>1
  <2> QED
    BY <1>0, <1>2, <2>1, <2>2
<1>4. /\ Goto(s, "visit") /\ UNCHANGED <<owner, row>> /\ list' = [list EXCEPT ![v] = l]
  BY <1>0, <1>2 DEF Put, tables
<1>5. /\ Becomes(s, q) /\ q.pc = "visit" /\ q.c = r.c /\ q.op = r.op /\ q.todo = r.todo
      /\ q.owner = r.owner /\ Placed(q) /\ r.op # "generate"
  BY <1>0, <1>1, <1>4, GoingFurther DEF Points
<1> HIDE DEF q
<1>6. v = r.target
  BY <1>0, <1>1 DEF Placed
<1>7. \A x \in astray : x = <<v, c>> \/ x \in astray'
  BY <1>0, <1>2 DEF Mark
<1>8. \A u \in Users \ {v}, d \in Collections :
        Debt(req[s], u, d) => Owes(q, u, d, owner[d], row[d][u])
  BY <1>0, <1>1, <1>5, <1>6 DEF Debt, Owes
<1>9. ASSUME NEW d \in Collections \ {c}
      PROVE  <<v, d>> \in astray' \/ (l[d] = req[s].copy[d] /\ <<v, d>> \notin Lost(s))
  <2>1. <<v, d>> \in Lost(s) => <<v, d>> \in astray'
    BY <1>0, <1>2, <1>9 DEF Mark
  <2>2. l[d] = r.copy[d] \/ <<v, d>> \in astray'
    <3>1. ASSUME NEW x \in Cut(s), l = [r.copy EXCEPT ![x] = NoEntry],
                 IF x = c THEN Mark(s)
                 ELSE astray' = astray \cup Lost(s) \cup {<<v, x>>}
                                    \cup {e \in {<<v, c>>} : Stale(s)}
          PROVE  l[d] = r.copy[d] \/ <<v, d>> \in astray'
      BY <1>0, <1>1, <1>9, <3>1
    <3> QED
      BY <1>0, <1>2, <3>1
  <2> QED
    BY <1>0, <2>1, <2>2
<1>10. \/ Fits(v, c)'
       \/ owner[c] # NoOne /\ Owes(q, v, c, owner[c], row[c][v])
  <2>1. CASE Stale(s)
    <3>1. <<v, c>> \in astray'
      BY <1>0, <1>2, <2>1 DEF Mark
    <3> QED
      BY <1>0, <3>1 DEF Fits
  <2>2. CASE ~Stale(s)
    <3>1. owner[c] = r.owner /\ row[c][v] = r.rows[v] /\ owner[c] # NoOne
      BY <1>0, <1>1, <2>2 DEF Stale, CollectionsAssumption
    <3>2. list'[v] = l /\ owner' = owner /\ row' = row
      BY <1>0, <1>1, <1>4 DEF IInv, Shape
    <3>3. CASE v \in r.todo \/ v = r.owner
      BY <1>0, <1>5, <3>1, <3>3 DEF Owes
    <3>4. CASE v \notin r.todo /\ v # r.owner
      <4>1. row[c][v] = NoRow /\ owner[c] # v
        BY <1>0, <1>1, <3>1, <3>4 DEF Placed
      <4>2. Generated(v)'[c] = NoEntry
        BY <1>0, <1>1, <3>2, <4>1 DEF Generated
      <4> QED
        BY <1>0, <1>3, <3>2, <4>2 DEF Fits, Agrees
    <3> QED
      BY <1>0, <3>3, <3>4
  <2> QED
    BY <1>0, <2>1, <2>2
<1>11. v = req[s].at /\ c = req[s].c /\ req[s].pc \in {"cutset", "visitset"}
  BY <1>0, <1>1
<1>12. l \in [Collections -> Entries] /\ list' = [list EXCEPT ![v] = l] /\ UNCHANGED <<owner, row>>
  BY <1>3, <1>4
<1>13. \A d \in Collections \ {c} :
         <<v, d>> \in astray' \/ (l[d] = req[s].copy[d] /\ <<v, d>> \notin Lost(s))
  BY <1>9
<1>14. LosesOnly(s, v, c, l)
  BY <1>7, <1>13 DEF LosesOnly
<1> HIDE DEF r
<1> QED
  BY <1>5, <1>8, <1>10, <1>11, <1>12, <1>14, PutSettles

LEMMA AffectedSettles ==
  ASSUME CollectionsAssumption, LInv, IInv', NEW s \in Slots, Affected(s) PROVE LInv'
<1> DEFINE r == req[s]
           todo == {u \in Users : u = r.actor \/ row[r.c][u] # NoRow \/ r.c \in orphan}
           q == [r EXCEPT !.pc = "drop", !.todo = todo]
<1>1. /\ r \in Requests /\ r.pc = "affected" /\ r.op # "generate"
      /\ UNCHANGED <<owner, row, list, astray>>
  BY WriterIsHonest DEF Affected, At, LInv, Placed, tables
<1>2. \A u \in Users, c \in Collections : ~Debt(req[s], u, c)
  BY <1>1, OwnDebt
<1>3. CASE Done(s)
  BY <1>1, <1>2, <1>3, EndingDebts
<1>4. CASE Exists(r.c) /\ Becomes(s, q)
  <2>1. q.pc = "drop" /\ q.op = r.op /\ q.todo = todo /\ q.actor = r.actor
    <3> HIDE DEF todo
    <3> QED
      BY <1>1 DEF Requests
  <2>2. r.actor \in Users
    BY <1>1 DEF LInv, Placed, Requests
  <2>3. Placed(q)
    <3>1. q.actor \in q.todo
      BY <2>1, <2>2
    <3> HIDE DEF q
    <3> QED
      BY <1>1, <2>1, <3>1 DEF Placed
  <2> QED
    BY <1>1, <1>2, <1>4, <2>3, QuietDebts
<1> QED
  BY <1>3, <1>4 DEF Affected, Becomes

LEMMA DropSettles ==
  ASSUME CollectionsAssumption, LInv, IInv', NEW s \in Slots, Drop(s) PROVE LInv'
<1> DEFINE q == On(s, "wipe")
           r == req[s]
           d == req[s].c
<1>1. /\ Goto(s, "wipe") /\ r.pc = "drop" /\ list' = list /\ row' = row /\ astray' = astray /\ IInv
  BY DEF Drop, At, LInv
<1>2. /\ Becomes(s, q) /\ q.pc = "wipe" /\ q.c = d /\ q.op = r.op /\ q.todo = r.todo
      /\ r \in Requests /\ d \in Collections /\ r.op # "generate" /\ Placed(q)
  <2>1. "wipe" \in Points
    BY DEF Points
  <2> QED
    BY <1>1, <2>1, GoingFurther
<1>3. r.actor \in r.todo /\ r.actor \in Users
  BY <1>1, <1>2 DEF LInv, Placed, Requests
<1>4. \A c \in Collections : owner'[c] = IF c = d /\ owner[d] = r.actor THEN Gone ELSE owner[c]
  BY <1>1, <1>2 DEF Drop, IInv, Shape
<1> HIDE DEF q
<1>5. Unborn'
  BY <1>1, <1>4 DEF LInv, Unborn, CollectionsAssumption
<1>6. \A u \in Users, c \in Collections : ~Debt(r, u, c)
  BY <1>1, OwnDebt
<1>7. ASSUME NEW u \in Users, NEW c \in Collections \cap {d}
      PROVE  \/ <<u, c>> \in astray'
             \/ Fits(u, c)'
             \/ owner'[c] # NoOne /\ Owes(q, u, c, owner'[c], row'[c][u])
             \/ /\ ~Debt(req[s], u, c) /\ owner'[c] = owner[c] /\ row'[c][u] = row[c][u]
             \/ /\ Fits(u, c) => Fits(u, c)'
                /\ ~Debt(req[s], u, c)
                /\ owner[c] # NoOne => owner'[c] # NoOne
                /\ \A x \in Requests : Debt(x, u, c) => Owes(x, u, c, owner'[c], row'[c][u])
  <2>1. CASE owner[c] # r.actor
    BY <1>1, <1>4, <1>6, <2>1
  <2>2. CASE owner[c] = r.actor /\ (row[c][u] # NoRow \/ u = r.actor)
    <3>1. owner'[c] # NoOne
      BY <1>4, <2>2 DEF CollectionsAssumption
    <3> QED
      BY <1>1, <1>2, <1>3, <2>2, <3>1 DEF Owes
  <2>3. CASE owner[c] = r.actor /\ row[c][u] = NoRow /\ u # r.actor
    <3>1. owner'[c] = Gone /\ Gone \notin Users /\ Gone # NoOne
      BY <1>4, <2>3 DEF CollectionsAssumption
    <3>2. Fits(u, c) => Fits(u, c)'
      <4>1. Generated(u)[c] = NoEntry /\ Generated(u)'[c] = NoEntry
        BY <1>1, <2>3, <3>1 DEF Generated
      <4> QED
        BY <1>1, <2>3, <3>1, <4>1 DEF Fits, Agrees
    <3>3. \A x \in Requests : Debt(x, u, c) => Owes(x, u, c, owner'[c], row'[c][u])
      BY <1>1, <2>3, <3>1 DEF Debt, Owes
    <3> QED
      BY <1>6, <3>1, <3>2, <3>3
  <2> QED
    BY <2>1, <2>2, <2>3
<1>8. \A c \in Collections \ {d} : owner'[c] = owner[c] /\ row'[c] = row[c]
  BY <1>1, <1>4
<1> QED
  BY <1>1, <1>2, <1>5, <1>7, <1>8, TableDebts

LEMMA WipeSettles ==
  ASSUME CollectionsAssumption, LInv, IInv', NEW s \in Slots, Wipe(s) PROVE LInv'
<1> DEFINE q == On(s, "genget")
           r == req[s]
           d == req[s].c
<1>1. /\ Goto(s, "genget") /\ r.pc = "wipe" /\ list' = list /\ owner' = owner /\ IInv
      /\ astray' = astray \cup {<<u, d>> : u \in {u \in Users \ r.todo : row[d][u] # NoRow}}
  BY DEF Wipe, At, LInv
<1>2. /\ Becomes(s, q) /\ q.pc = "genget" /\ q.c = d /\ q.op = r.op /\ q.todo = r.todo
      /\ d \in Collections /\ r.op # "generate" /\ Placed(q)
  <2>1. "genget" \in Points
    BY DEF Points
  <2> QED
    BY <1>1, <2>1, GoingFurther
<1>3. /\ \A c \in Collections \ {d} : row'[c] = row[c]
      /\ \A u \in Users : row'[d][u] = NoRow
  BY <1>1, <1>2 DEF Wipe, IInv, Shape
<1> HIDE DEF q
<1>4. Unborn'
  BY <1>1, <1>3 DEF LInv, Unborn
<1>5. ASSUME NEW u \in Users, NEW c \in Collections \cap {d}
      PROVE  \/ <<u, c>> \in astray'
             \/ Fits(u, c)'
             \/ owner'[c] # NoOne /\ Owes(q, u, c, owner'[c], row'[c][u])
             \/ /\ ~Debt(req[s], u, c) /\ owner'[c] = owner[c] /\ row'[c][u] = row[c][u]
  <2>1. CASE owner[c] = NoOne
    <3>1. Fits(u, c) /\ row'[c][u] = row[c][u]
      BY <1>3, <2>1 DEF LInv, Told, Unborn
    <3>2. Fits(u, c)'
      BY <1>1, <3>1 DEF Fits, Agrees, Generated, Exists
    <3> QED
      BY <3>2
  <2>2. CASE owner[c] # NoOne /\ u \in r.todo
    BY <1>1, <1>2, <2>2 DEF Owes
  <2>3. CASE u \notin r.todo /\ row[c][u] # NoRow
    BY <1>1, <2>3
  <2>4. CASE u \notin r.todo /\ row[c][u] = NoRow
    <3>1. ~Debt(req[s], u, c)
      BY <1>1, <2>4 DEF Debt, Owes
    <3> QED
      BY <1>1, <1>3, <2>4, <3>1
  <2> QED
    BY <2>1, <2>2, <2>3, <2>4
<1>6. astray \subseteq astray'
  BY <1>1
<1> QED
  BY <1>1, <1>2, <1>3, <1>4, <1>5, <1>6, TableDebts

LEMMA GenGetSettles ==
  ASSUME CollectionsAssumption, LInv, IInv', NEW s \in Slots, GenGet(s) PROVE LInv'
<1> DEFINE r == req[s]
<1>1. /\ r \in Requests /\ r.pc = "genget" /\ UNCHANGED <<owner, row, list, astray>>
  BY DEF GenGet, At, LInv, IInv, Requested, Honest, tables
<1>2. PICK u \in r.todo :
        req' = [req EXCEPT ![s].at = u, ![s].copy = Generated(u), ![s].pc = "genset"]
  BY DEF GenGet
<1> DEFINE l == Generated(u)
           q == [r EXCEPT !.at = u, !.copy = l, !.pc = "genset"]
<1>3. Becomes(s, q)
  BY <1>2 DEF Becomes
<1>4. q.pc = "genset" /\ q.at = u /\ q.c = r.c /\ q.op = r.op /\ q.todo = r.todo
  <2> HIDE DEF l
  <2> QED
    BY <1>1 DEF Requests
<1> HIDE DEF q
<1>5. Placed(q)
  BY <1>2, <1>4 DEF Placed
<1>6. \A v \in Users, c \in Collections :
        Debt(req[s], v, c) => Owes(q, v, c, owner[c], row[c][v])
  BY <1>1, <1>4 DEF Debt, Owes
<1> QED
  BY <1>1, <1>3, <1>5, <1>6, QuietDebts

LEMMA GenSetSettles ==
  ASSUME CollectionsAssumption, LInv, IInv', NEW s \in Slots, GenSet(s) PROVE LInv'
<1> DEFINE r == req[s]
<1>1. /\ Honest(r, held) /\ r \in Requests /\ r.pc = "genset" /\ Placed(r) /\ IInv
      /\ UNCHANGED <<owner, row>>
  BY DEF GenSet, At, LInv, IInv, Requested, Honest, tables
<1>2. PICK v \in Users : v = r.at /\ v \in r.todo
  BY <1>1 DEF Honest, Placed
<1> DEFINE q == IF r.todo = {v} THEN Idle ELSE [r EXCEPT !.todo = @ \ {v}, !.pc = "genget"]
           right == {d \in Collections : r.copy[d] = Generated(v)[d]}
<1>3. /\ list' = [list EXCEPT ![v] = r.copy]
      /\ astray' = (astray \ ({v} \X right)) \cup ({v} \X (Collections \ right))
  BY <1>2 DEF GenSet
<1>4. Becomes(s, q)
  BY <1>2 DEF GenSet, Becomes, Done
<1>5. r.todo # {v} => q.pc = "genget" /\ q.c = r.c /\ q.op = r.op /\ q.todo = r.todo \ {v}
  BY <1>1 DEF Requests
<1>6. Placed(q)
  <2>1. CASE r.todo = {v}
    BY <2>1 DEF Placed, Idle
  <2>2. CASE r.todo # {v}
    <3> HIDE DEF q
    <3> QED
      BY <1>5, <2>2 DEF Placed
  <2> QED
    BY <2>1, <2>2
<1> HIDE DEF q
<1>7. \A u \in Users \ {v}, c \in Collections :
        /\ <<u, c>> \in astray => <<u, c>> \in astray'
        /\ Debt(req[s], u, c) => Owes(q, u, c, owner[c], row[c][u])
  <2>1. \A u \in Users \ {v}, c \in Collections : <<u, c>> \in astray => <<u, c>> \in astray'
    BY <1>3
  <2>2. \A u \in Users \ {v}, c \in Collections :
          Debt(req[s], u, c) => Owes(q, u, c, owner[c], row[c][u])
    BY <1>1, <1>2, <1>5 DEF Debt, Owes
  <2> QED
    BY <2>1, <2>2
<1>8. ASSUME NEW c \in Collections PROVE Fits(v, c)'
  <2>1. CASE c \in right
    <3>1. list'[v] = r.copy
      BY <1>1, <1>3 DEF IInv, Shape
    <3>2. r.copy[c] = Generated(v)'[c]
      BY <1>1, <2>1 DEF Generated, Exists
    <3> QED
      BY <3>1, <3>2 DEF Fits, Agrees
  <2>2. CASE c \notin right
    BY <1>3, <2>2 DEF Fits
  <2> QED
    BY <2>1, <2>2
<1> QED
  BY <1>1, <1>3, <1>4, <1>6, <1>7, <1>8, ListDebts

LEMMA CrashSettles ==
  ASSUME CollectionsAssumption, LInv, IInv', NEW s \in Slots, Crash(s) PROVE LInv'
<1>1. Done(s) /\ UNCHANGED <<owner, row, list>>
      /\ astray' = astray \cup (IF req[s].op = "generate" THEN {} ELSE Everyone(req[s].c))
  BY DEF Crash, tables
<1>2. \A u \in Users, c \in Collections : Debt(req[s], u, c) => <<u, c>> \in astray'
  BY <1>1, OwnDebt
<1> QED
  BY <1>1, <1>2, EndingDebts

------------------------------------------------------------------------------
LEMMA InitSettled == ASSUME CollectionsAssumption, Init PROVE LInv
<1>1. Unborn
  BY DEF Init, Unborn
<1>2. \A s \in Slots : Placed(req[s])
  BY DEF Init, Placed, Idle
<1>3. ASSUME NEW u \in Users, NEW c \in Collections PROVE Told(u, c)
  <2>1. list[u] \in {NoList, Generated(u)}
    BY DEF Init
  <2> QED
    BY <2>1 DEF Told, Fits, Agrees
<1> QED
  BY <1>1, <1>2, <1>3, InitHolds DEF LInv

LEMMA NextSettles == ASSUME CollectionsAssumption, LInv, [Next]_vars PROVE LInv'
<1>1. IInv /\ IInv'
  BY NextKeeps DEF LInv
<1>2. CASE UNCHANGED vars
  <2>1. UNCHANGED <<owner, row, list, req, astray>>
    BY <1>2 DEF vars, tables
  <2>2. Unborn' /\ \A s \in Slots : Placed(req[s])'
    BY <2>1 DEF LInv, Unborn, Placed
  <2>3. ASSUME NEW u \in Users, NEW c \in Collections PROVE Told(u, c)'
    <3>1. Fits(u, c) => Fits(u, c)'
      BY <2>1 DEF Fits, Agrees, Generated, Exists
    <3>2. \A t \in Slots : Debt(req[t], u, c) => Debt(req[t], u, c)'
      BY <2>1 DEF Debt
    <3> QED
      BY <2>1, <3>1, <3>2 DEF LInv, Told
  <2> QED
    BY <1>1, <2>2, <2>3 DEF LInv
<1>3. ASSUME NEW s \in Slots, Step(s) PROVE LInv'
  <2>1. CASE Add(s) \/ Update(s) \/ Remove(s) \/ Accept(s) \/ Reject(s) \/ Create(s) \/ Refuse(s)
    BY <1>1, <2>1, RowsSettle, CreateSettles, RefuseSettles
  <2>2. CASE TransferRow(s) \/ TransferThrows(s) \/ TransferUnrow(s) \/ TransferOwn(s)
    BY <1>1, <2>2, TransferRowSettles, RefuseSettles, TransferUnrowSettles, TransferOwnSettles
  <2>3. CASE Load(s) \/ CutGet(s) \/ CutSet(s) \/ VisitGet(s) \/ VisitSet(s)
    BY <1>1, <2>3, LoadSettles, ResetReadsSettle, CutSettles, VisitSettles
  <2>4. CASE Affected(s) \/ Drop(s) \/ Wipe(s) \/ GenGet(s) \/ GenSet(s)
    BY <1>1, <2>4, AffectedSettles, DropSettles, WipeSettles, GenGetSettles, GenSetSettles
  <2> QED
    BY <1>3, <2>1, <2>2, <2>3, <2>4 DEF Step
<1> QED
  BY <1>1, <1>2, <1>3, ArriveSettles, GenerateSettles, CrashSettles DEF Next

\* When every request has ended or died: an entry that nothing has put astray says what the
\* tables say, whatever resets, transfers, deletions and generations there were.
THEOREM ListsAreTold == ASSUME CollectionsAssumption PROVE Spec => []ListsTellTheTables
<1>1. Init => LInv
  BY InitSettled
<1>2. LInv /\ [Next]_vars => LInv'
  BY NextSettles
<1>3. LInv => ListsTellTheTables
  BY OwnDebt DEF LInv, Told, Fits, ListsTellTheTables, AtRest, At
<1> QED
  BY <1>1, <1>2, <1>3, PTL DEF Spec

------------------------------------------------------------------------------
(* The keys of the share links.                                            *)

\* The links that the rows l name.
Named(l) == {l[c] : c \in Collections} \cap Links

\* No two collections have the same link, and what is going to be a key has been given.
LinksAreGiven ==
  /\ \A c \in Collections : link[c] \in Links => link[c] \in used
  /\ \A c, d \in Collections : link[c] \in Links /\ link[c] = link[d] => c = d
  /\ \A r \in Slots : linkReq[r].pc \in {"patch", "put"} => linkReq[r].new \in used
  /\ \A s \in Sweeps : sweep[s] # L!Resting => sweep[s].rows \subseteq used

\* How far the keys k are from the links of the rows l while the request q is the only one.
RequestFits(q, l, k) ==
  /\ l[q.c] # Gone
  /\ q.pc = "delete" => k = Named(l) /\ q.old = l[q.c]
  /\ q.pc = "write" => k = Named(l) \ {l[q.c]}
  /\ q.pc \in {"patch", "put"} => k = Named(l) \ {q.new} /\ q.new = l[q.c]

\* The same while the sweep w is.
SweepFits(w, l, k) ==
  /\ w.pc = "listed" => w.keys = k
  /\ w.pc \in {"deleted", "read"} => k = {}
  /\ w.pc = "read" => w.rows = Named(l)

\* In a tidy history at most one of them is under way.
Tidy ==
  ~untidy =>
    /\ \A r, q \in Slots : linkReq[r] # L!Idle /\ linkReq[q] # L!Idle => r = q
    /\ \A s, t \in Sweeps : sweep[s] # L!Resting /\ sweep[t] # L!Resting => s = t
    /\ \A r \in Slots, s \in Sweeps : linkReq[r] = L!Idle \/ sweep[s] = L!Resting
    /\ L!AtRest => keys = Named(link)
    /\ \A r \in Slots : linkReq[r] # L!Idle => RequestFits(linkReq[r], link, keys)
    /\ \A s \in Sweeps : sweep[s] # L!Resting => SweepFits(sweep[s], link, keys)

LinkInv == L!TypeOK /\ LinksAreGiven /\ Tidy

\* What moves is alone when the history is tidy afterwards.
LEMMA RequestMoves ==
  ASSUME LinkInv, NEW r \in Slots, NEW q, linkReq' = [linkReq EXCEPT ![r] = q], sweep' = sweep,
         ~untidy' => L!Busy \subseteq {r} /\ L!Sweeping = {},
         ~untidy' /\ q = L!Idle => keys' = Named(link'),
         ~untidy' /\ q # L!Idle => RequestFits(q, link', keys')
  PROVE  Tidy'
<1>1. \A p \in Slots : linkReq'[p] = IF p = r THEN q ELSE linkReq[p]
  BY DEF LinkInv, L!TypeOK
<1>2. ASSUME ~untidy' PROVE /\ \A p \in Slots : p # r => linkReq'[p] = L!Idle
                            /\ \A s \in Sweeps : sweep'[s] = L!Resting
  BY <1>1, <1>2 DEF L!Busy, L!Sweeping
<1>3. L!AtRest' => q = L!Idle
  BY <1>1 DEF L!AtRest, L!Busy
<1> QED
  BY <1>1, <1>2, <1>3 DEF Tidy

LEMMA SweepMoves ==
  ASSUME LinkInv, NEW s \in Sweeps, NEW w, sweep' = [sweep EXCEPT ![s] = w], linkReq' = linkReq,
         ~untidy' => L!Busy = {} /\ L!Sweeping \subseteq {s},
         ~untidy' /\ w = L!Resting => keys' = Named(link'),
         ~untidy' /\ w # L!Resting => SweepFits(w, link', keys')
  PROVE  Tidy'
<1>1. \A t \in Sweeps : sweep'[t] = IF t = s THEN w ELSE sweep[t]
  BY DEF LinkInv, L!TypeOK
<1>2. ASSUME ~untidy' PROVE /\ \A t \in Sweeps : t # s => sweep'[t] = L!Resting
                            /\ \A r \in Slots : linkReq'[r] = L!Idle
  BY <1>1, <1>2 DEF L!Busy, L!Sweeping
<1>3. L!AtRest' => w = L!Resting
  BY <1>1 DEF L!AtRest, L!Sweeping
<1> QED
  BY <1>1, <1>2, <1>3 DEF Tidy

\* A request or a sweep under way in a tidy history is the only one.
LEMMA OneAtATime ==
  ASSUME LinkInv, ~untidy
  PROVE  /\ \A r \in Slots : linkReq[r] # L!Idle =>
              L!Busy = {r} /\ L!Sweeping = {} /\ RequestFits(linkReq[r], link, keys)
         /\ \A s \in Sweeps : sweep[s] # L!Resting =>
              L!Busy = {} /\ L!Sweeping = {s} /\ SweepFits(sweep[s], link, keys)
  BY DEF LinkInv, Tidy, L!Busy, L!Sweeping

------------------------------------------------------------------------------
LEMMA LinkReqTypes ==
  /\ L!Idle \in L!Reqs /\ L!Idle.pc = "idle"
  /\ \A c \in Collections, on \in BOOLEAN, old \in Links \cup {NoLink} :
       [pc |-> "delete", c |-> c, on |-> on, old |-> old] \in L!Reqs
  /\ \A c \in Collections, on \in BOOLEAN : [pc |-> "write", c |-> c, on |-> on] \in L!Reqs
  /\ \A p \in {"patch", "put"}, c \in Collections, new \in Links :
       [pc |-> p, c |-> c, new |-> new] \in L!Reqs
  BY DEF L!Reqs, L!Idle

\* A request is what its point says.
LEMMA LinkReqForms ==
  ASSUME NEW q \in L!Reqs
  PROVE  /\ q # L!Idle => q.pc \in {"delete", "write", "patch", "put"} /\ q.c \in Collections
         /\ q.pc = "delete" => q.on \in BOOLEAN /\ q.old \in Links \cup {NoLink}
         /\ q.pc = "write" => q.on \in BOOLEAN
         /\ q.pc \in {"patch", "put"} => q.new \in Links /\ q = [pc |-> q.pc, c |-> q.c, new |-> q.new]
         /\ q.pc \in {"delete", "write", "patch", "put"} => q # L!Idle
  BY DEF L!Reqs, L!Idle

LEMMA LinkLoadKeeps ==
  ASSUME L!ShareLinksAssumption, LinkInv, NEW r \in Slots, NEW c \in Collections,
         NEW on \in BOOLEAN, L!Load(r, c, on) \/ L!LoadV3(r, c, on)
  PROVE  LinkInv'
<1>1. /\ link \in [Collections -> Links \cup {NoLink, Gone}] /\ linkReq \in [Slots -> L!Reqs]
      /\ linkReq[r] = L!Idle /\ link[c] # Gone /\ UNCHANGED <<link, keys, sweep, linkDeaths, used>>
      /\ link[c] \in Links \cup {NoLink} /\ untidy' \in BOOLEAN
  BY DEF L!Load, L!LoadV3, L!Begins, LinkInv, L!TypeOK
<1> DEFINE q == IF L!Load(r, c, on) THEN [pc |-> "delete", c |-> c, on |-> on, old |-> link[c]]
                ELSE [pc |-> "write", c |-> c, on |-> on]
<1>2. q \in L!Reqs /\ q # L!Idle /\ q.c = c /\ q.pc \notin {"patch", "put"}
  BY <1>1, LinkReqTypes, LinkReqForms
<1>3. linkReq' = [linkReq EXCEPT ![r] = q]
  BY DEF L!Load, L!LoadV3
<1>4. L!TypeOK' /\ LinksAreGiven'
  BY <1>1, <1>2, <1>3 DEF LinkInv, L!TypeOK, LinksAreGiven
<1>5. ASSUME ~untidy' PROVE L!Busy = {} /\ L!Sweeping = {} /\ keys = Named(link)
                            /\ (~L!Load(r, c, on) => link[c] = NoLink)
  <2>1. L!Busy = {} /\ L!Sweeping = {} /\ ~untidy
    BY <1>5 DEF L!Load, L!LoadV3, L!Begins
  <2>2. ~L!Load(r, c, on) => link[c] = NoLink
    BY <1>5 DEF L!Load, L!LoadV3
  <2> QED
    BY <2>1, <2>2 DEF LinkInv, Tidy, L!AtRest
<1>6. ASSUME ~untidy' PROVE RequestFits(q, link', keys')
  BY <1>1, <1>2, <1>5, <1>6 DEF RequestFits, Named, L!ShareLinksAssumption
<1>7. Tidy'
  BY <1>1, <1>2, <1>3, <1>5, <1>6, RequestMoves
<1> QED
  BY <1>4, <1>7 DEF LinkInv

LEMMA DeleteKeyKeeps ==
  ASSUME L!ShareLinksAssumption, LinkInv, NEW r \in Slots, L!DeleteKey(r) PROVE LinkInv'
<1> DEFINE q == [pc |-> "write", c |-> linkReq[r].c, on |-> linkReq[r].on]
<1>1. /\ linkReq \in [Slots -> L!Reqs] /\ linkReq[r] \in L!Reqs /\ linkReq[r].pc = "delete" /\ linkReq[r] # L!Idle
      /\ linkReq[r].c \in Collections /\ linkReq[r].on \in BOOLEAN
  BY LinkReqForms DEF L!DeleteKey, LinkInv, L!TypeOK
<1>2. q \in L!Reqs /\ q # L!Idle /\ q.c = linkReq[r].c /\ q.pc = "write"
  BY <1>1, LinkReqTypes, LinkReqForms
<1>3. linkReq' = [linkReq EXCEPT ![r] = q] /\ keys' = keys \ {linkReq[r].old}
      /\ UNCHANGED <<link, sweep, linkDeaths, used, untidy>>
  BY DEF L!DeleteKey
<1>4. L!TypeOK' /\ LinksAreGiven'
  BY <1>1, <1>2, <1>3 DEF LinkInv, L!TypeOK, LinksAreGiven
<1>5. Tidy'
  BY <1>1, <1>2, <1>3, OneAtATime, RequestMoves DEF RequestFits
<1> QED
  BY <1>4, <1>5 DEF LinkInv

LEMMA LinkWriteKeeps ==
  ASSUME L!ShareLinksAssumption, LinkInv, NEW r \in Slots, L!Write(r) PROVE LinkInv'
<1> DEFINE c == linkReq[r].c
<1>1. /\ linkReq \in [Slots -> L!Reqs] /\ linkReq[r] \in L!Reqs /\ linkReq[r].pc = "write" /\ linkReq[r] # L!Idle
      /\ c \in Collections /\ linkReq[r].on \in BOOLEAN
      /\ link \in [Collections -> Links \cup {NoLink, Gone}]
  BY LinkReqForms DEF L!Write, LinkInv, L!TypeOK
<1>2. UNCHANGED <<keys, sweep, linkDeaths, untidy>>
  BY DEF L!Write
<1>3. ~untidy => L!Busy = {r} /\ L!Sweeping = {} /\ link[c] # Gone /\ keys = Named(link) \ {link[c]}
  BY <1>1, OneAtATime DEF RequestFits
<1>4. ASSUME NEW new \in Links \ used, used' = used \cup {new},
             link' = IF link[c] = Gone THEN link ELSE [link EXCEPT ![c] = new],
             linkReq' = [linkReq EXCEPT ![r] = [pc |-> "patch", c |-> c, new |-> new]]
      PROVE  LinkInv'
  <2> DEFINE q == [pc |-> "patch", c |-> c, new |-> new]
  <2>1. q \in L!Reqs /\ q # L!Idle /\ q.c = c /\ q.pc = "patch" /\ q.new = new
    BY <1>1, LinkReqTypes, LinkReqForms
  <2>2. \A d \in Collections : link'[d] = IF d = c /\ link[c] # Gone THEN new ELSE link[d]
    BY <1>1, <1>4
  <2>3. link' \in [Collections -> Links \cup {NoLink, Gone}]
    BY <1>1, <1>4
  <2>4. L!TypeOK'
    BY <1>1, <1>2, <1>4, <2>1, <2>3 DEF LinkInv, L!TypeOK
  <2>5. LinksAreGiven'
    BY <1>1, <1>2, <1>4, <2>1, <2>2 DEF LinkInv, L!TypeOK, LinksAreGiven
  <2>6. ASSUME ~untidy PROVE RequestFits(q, link', keys')
    <3>1. link[c] # Gone /\ keys = Named(link) \ {link[c]}
      BY <1>3, <2>6
    <3>2. \A l \in Links : l \in Named(link') <=> l = new \/ (l \in Named(link) /\ l # link[c])
      <4>1. \A d \in Collections : link[d] # new /\ (link[d] = link[c] /\ link[d] \in Links => d = c)
        BY <1>1, <1>4 DEF LinkInv, LinksAreGiven
      <4> QED
        BY <1>1, <2>2, <3>1, <4>1 DEF Named
    <3>3. new \notin Named(link)
      BY <1>4 DEF Named, LinkInv, LinksAreGiven
    <3>4. keys' = Named(link') \ {new}
      BY <1>2, <3>1, <3>2, <3>3 DEF Named
    <3> QED
      BY <1>1, <2>1, <2>2, <3>1, <3>4 DEF RequestFits, L!ShareLinksAssumption
  <2>7. Tidy'
    <3> HIDE DEF q
    <3> QED
      BY <1>2, <1>3, <1>4, <2>1, <2>6, RequestMoves DEF q
  <2> QED
    BY <2>4, <2>5, <2>7 DEF LinkInv
<1>5. ASSUME link' = IF link[c] = Gone THEN link ELSE [link EXCEPT ![c] = NoLink],
             linkReq' = [linkReq EXCEPT ![r] = L!Idle], used' = used
      PROVE  LinkInv'
  <2>1. \A d \in Collections : link'[d] = IF d = c /\ link[c] # Gone THEN NoLink ELSE link[d]
    BY <1>1, <1>5
  <2>2. link' \in [Collections -> Links \cup {NoLink, Gone}]
    BY <1>1, <1>5
  <2>3. L!TypeOK'
    BY <1>1, <1>2, <1>5, <2>2, LinkReqTypes DEF LinkInv, L!TypeOK
  <2>4. LinksAreGiven'
    BY <1>1, <1>2, <1>5, <2>1, LinkReqTypes DEF LinkInv, L!TypeOK, LinksAreGiven, L!ShareLinksAssumption
  <2>5. ASSUME ~untidy PROVE keys' = Named(link')
    <3>1. link[c] # Gone /\ keys = Named(link) \ {link[c]}
      BY <1>3, <2>5
    <3>2. \A d \in Collections : link[d] = link[c] /\ link[d] \in Links => d = c
      BY <1>1 DEF LinkInv, LinksAreGiven
    <3>3. \A l \in Links : l \in Named(link') <=> (l \in Named(link) /\ l # link[c])
      BY <1>1, <2>1, <3>1, <3>2 DEF Named, L!ShareLinksAssumption
    <3> QED
      BY <1>2, <3>1, <3>3 DEF Named
  <2>6. Tidy'
    BY <1>2, <1>3, <1>5, <2>5, RequestMoves
  <2> QED
    BY <2>3, <2>4, <2>6 DEF LinkInv
<1>6. CASE linkReq[r].on
  BY <1>4, <1>6 DEF L!Write
<1>7. CASE ~linkReq[r].on
  BY <1>5, <1>7 DEF L!Write
<1> QED
  BY <1>6, <1>7

LEMMA PatchKeeps ==
  ASSUME L!ShareLinksAssumption, LinkInv, NEW r \in Slots, L!PatchRead(r) \/ L!PatchSet(r)
  PROVE  LinkInv'
<1> DEFINE q == IF L!PatchSet(r) \/ link[linkReq[r].c] = Gone THEN L!Idle
                ELSE [pc |-> "put", c |-> linkReq[r].c, new |-> linkReq[r].new]
<1>1. /\ linkReq \in [Slots -> L!Reqs] /\ linkReq[r] \in L!Reqs /\ linkReq[r] # L!Idle
      /\ linkReq[r].pc = IF L!PatchSet(r) THEN "put" ELSE "patch"
      /\ linkReq[r].c \in Collections /\ linkReq[r].new \in Links /\ linkReq[r].new \in used
      /\ linkReq[r] = [pc |-> linkReq[r].pc, c |-> linkReq[r].c, new |-> linkReq[r].new]
  BY LinkReqForms DEF L!PatchRead, L!PatchSet, LinkInv, L!TypeOK, LinksAreGiven
<1>2. q \in L!Reqs /\ (q # L!Idle => q.c = linkReq[r].c /\ q.pc = "put" /\ q.new = linkReq[r].new)
      /\ q.pc # "patch" /\ (q.pc = "put" => q # L!Idle)
  BY <1>1, LinkReqTypes, LinkReqForms
<1>3. UNCHANGED <<link, sweep, linkDeaths, used, untidy>>
  BY DEF L!PatchRead, L!PatchSet
<1>4. keys' = (IF L!PatchSet(r) THEN keys \cup {linkReq[r].new} ELSE keys)
  BY <1>1 DEF L!PatchRead, L!PatchSet
<1>5. linkReq' = [linkReq EXCEPT ![r] = q]
  <2>1. CASE L!PatchSet(r)
    BY <2>1 DEF L!PatchSet
  <2>2. CASE ~L!PatchSet(r) /\ link[linkReq[r].c] = Gone
    BY <1>1, <2>2 DEF L!PatchRead
  <2>3. CASE ~L!PatchSet(r) /\ link[linkReq[r].c] # Gone
    <3>1. [linkReq[r] EXCEPT !.pc = "put"] = q
      BY <1>1, <2>3
    <3>2. linkReq' = [linkReq EXCEPT ![r] = [linkReq[r] EXCEPT !.pc = "put"]]
      BY <1>1, <2>3 DEF L!PatchRead
    <3> QED
      BY <3>1, <3>2
  <2> QED
    BY <2>1, <2>2, <2>3
<1> HIDE DEF q
<1>6. L!TypeOK' /\ LinksAreGiven'
  BY <1>1, <1>2, <1>3, <1>4, <1>5 DEF LinkInv, L!TypeOK, LinksAreGiven
<1>7. ASSUME ~untidy
      PROVE  /\ L!Busy = {r} /\ L!Sweeping = {} /\ link[linkReq[r].c] = linkReq[r].new
             /\ keys = Named(link) \ {linkReq[r].new} /\ linkReq[r].new \in Named(link)
             /\ link[linkReq[r].c] # Gone
  BY <1>1, <1>7, OneAtATime DEF RequestFits, Named
<1>8. ~untidy /\ q = L!Idle => keys' = Named(link)
  <2>1. ASSUME ~untidy, q = L!Idle PROVE keys' = Named(link)
    <3>1. L!PatchSet(r)
      BY <1>1, <1>7, <2>1, LinkReqTypes, LinkReqForms DEF q
    <3> QED
      BY <1>4, <1>7, <2>1, <3>1
  <2> QED
    BY <2>1
<1>9. ~untidy /\ q # L!Idle => RequestFits(q, link, keys')
  BY <1>2, <1>4, <1>7 DEF q, RequestFits
<1>10. Tidy'
  BY <1>3, <1>5, <1>7, <1>8, <1>9, RequestMoves
<1> QED
  BY <1>6, <1>10 DEF LinkInv

\* Both removals of collections.
LEMMA RemovalKeeps ==
  ASSUME L!ShareLinksAssumption, LinkInv, NEW gone \in SUBSET Collections,
         link' = [c \in Collections |-> IF c \in gone THEN Gone ELSE link[c]],
         untidy' = (untidy \/ L!Busy # {} \/ L!Sweeping # {} \/ \E c \in gone : link[c] # NoLink),
         UNCHANGED <<keys, linkReq, sweep, linkDeaths, used>>
  PROVE  LinkInv'
<1>1. link \in [Collections -> Links \cup {NoLink, Gone}]
  BY DEF LinkInv, L!TypeOK
<1>2. L!TypeOK' /\ LinksAreGiven'
  BY <1>1 DEF LinkInv, L!TypeOK, LinksAreGiven, L!ShareLinksAssumption
<1>3. ASSUME ~untidy' PROVE Tidy'
  <2>1. /\ ~untidy /\ L!Busy = {} /\ L!Sweeping = {} /\ \A c \in gone : link[c] = NoLink
    BY <1>3
  <2>2. keys = Named(link) /\ Named(link') = Named(link)
    BY <1>1, <2>1 DEF LinkInv, Tidy, L!AtRest, Named, L!ShareLinksAssumption
  <2>3. \A r \in Slots : linkReq'[r] = L!Idle
    BY <2>1 DEF L!Busy
  <2>4. \A s \in Sweeps : sweep'[s] = L!Resting
    BY <2>1 DEF L!Sweeping
  <2> QED
    BY <2>2, <2>3, <2>4 DEF Tidy
<1>4. untidy' => Tidy'
  BY DEF Tidy
<1> QED
  BY <1>2, <1>3, <1>4 DEF LinkInv

LEMMA LinkDeletionKeeps ==
  ASSUME L!ShareLinksAssumption, LinkInv,
         (\E c \in Collections : L!Delete(c)) \/ (\E owned \in SUBSET Collections : L!Erase(owned))
  PROVE  LinkInv'
<1>1. ASSUME NEW c \in Collections, L!Delete(c) PROVE LinkInv'
  <2>1. link' = [d \in Collections |-> IF d \in {c} THEN Gone ELSE link[d]]
    BY <1>1 DEF L!Delete, LinkInv, L!TypeOK
  <2>2. untidy' = (untidy \/ L!Busy # {} \/ L!Sweeping # {} \/ \E d \in {c} : link[d] # NoLink)
    BY <1>1 DEF L!Delete
  <2> QED
    BY <1>1, <2>1, <2>2, RemovalKeeps DEF L!Delete
<1>2. ASSUME NEW owned \in SUBSET Collections, L!Erase(owned) PROVE LinkInv'
  BY <1>2, RemovalKeeps DEF L!Erase
<1> QED
  BY <1>1, <1>2

------------------------------------------------------------------------------
(* The sweep.                                                              *)

Sweepers == [pc : {"listed", "deleted", "read"}, keys : SUBSET Links, rows : SUBSET Links]

LEMMA SweepForms ==
  ASSUME NEW w \in L!SweepStates
  PROVE  /\ w # L!Resting => w.pc \in {"listed", "deleted", "read"} /\ w.keys \subseteq Links
                           /\ w.rows \subseteq Links /\ w \in Sweepers
         /\ w.pc \in {"listed", "deleted", "read"} => w # L!Resting
         /\ Sweepers \subseteq L!SweepStates
  BY DEF L!SweepStates, Sweepers, L!Resting

LEMMA SweepTypes ==
  /\ L!Resting \in L!SweepStates
  /\ \A p \in {"listed", "deleted", "read"}, k, t \in SUBSET Links :
       [pc |-> p, keys |-> k, rows |-> t] \in L!SweepStates
  BY DEF L!SweepStates, L!Resting

LEMMA SweepRecord ==
  ASSUME NEW w \in Sweepers, NEW l \in SUBSET Links
  PROVE  LET d == [w EXCEPT !.pc = "deleted", !.keys = {}]
             r == [w EXCEPT !.pc = "read", !.rows = l]
         IN /\ d \in Sweepers /\ d.pc = "deleted" /\ d.rows = w.rows
            /\ r \in Sweepers /\ r.pc = "read" /\ r.rows = l
  BY DEF Sweepers

\* What a sweep that goes on becomes.
LEMMA SweepBecomes ==
  ASSUME L!ShareLinksAssumption, LinkInv, NEW s \in Sweeps, NEW w \in L!SweepStates,
         sweep' = [sweep EXCEPT ![s] = w], w # L!Resting => w.rows \subseteq used,
         keys' \subseteq used, UNCHANGED <<link, linkReq, linkDeaths, used>>, untidy' \in BOOLEAN
  PROVE  L!TypeOK' /\ LinksAreGiven'
  BY DEF LinkInv, L!TypeOK, LinksAreGiven

LEMMA SweepStartKeeps ==
  ASSUME L!ShareLinksAssumption, LinkInv, NEW s \in Sweeps, L!SweepStart(s) PROVE LinkInv'
<1> DEFINE w == [pc |-> "listed", keys |-> keys, rows |-> {}]
<1>1. keys \subseteq Links /\ keys \subseteq used
  BY DEF LinkInv, L!TypeOK
<1>2. w \in L!SweepStates /\ w # L!Resting /\ w.rows = {} /\ w.keys = keys /\ w.pc = "listed"
  BY <1>1, SweepTypes, SweepForms
<1>3. sweep' = [sweep EXCEPT ![s] = w] /\ UNCHANGED <<link, keys, linkReq, linkDeaths, used>>
      /\ untidy' = (L!Busy # {} \/ L!Sweeping # {})
  BY DEF L!SweepStart
<1> HIDE DEF w
<1>4. L!TypeOK' /\ LinksAreGiven'
  BY <1>1, <1>2, <1>3, SweepBecomes
<1>5. Tidy'
  BY <1>2, <1>3, SweepMoves DEF SweepFits
<1> QED
  BY <1>4, <1>5 DEF LinkInv

LEMMA SweepGoesOn ==
  ASSUME L!ShareLinksAssumption, LinkInv, NEW s \in Sweeps,
         L!SweepDelete(s) \/ L!SweepRead(s) \/ L!SweepWrite(s)
  PROVE  LinkInv'
<1> DEFINE v == sweep[s]
<1>1. /\ v \in L!SweepStates /\ sweep \in [Sweeps -> L!SweepStates] /\ v # L!Resting
      /\ v.pc \in {"listed", "deleted", "read"} /\ v.keys \subseteq Links /\ v.rows \subseteq Links
      /\ v \in Sweepers /\ v.rows \subseteq used
      /\ keys \subseteq used
  <2>1. v \in L!SweepStates /\ sweep \in [Sweeps -> L!SweepStates] /\ keys \subseteq used
    BY DEF LinkInv, L!TypeOK
  <2>2. v.pc \in {"listed", "deleted", "read"}
    BY DEF L!SweepDelete, L!SweepRead, L!SweepWrite
  <2> QED
    BY <2>1, <2>2, SweepForms DEF LinkInv, LinksAreGiven
<1>2. Named(link) \subseteq Links /\ Named(link) \subseteq used /\ L!Live = Named(link)
  BY DEF Named, LinkInv, LinksAreGiven, L!Live
<1>3. UNCHANGED <<link, linkReq, linkDeaths, used, untidy>>
  BY DEF L!SweepDelete, L!SweepRead, L!SweepWrite
<1>4. ~untidy => L!Busy = {} /\ L!Sweeping = {s} /\ SweepFits(v, link, keys)
  BY <1>1, OneAtATime
<1>5. untidy \in BOOLEAN
  BY DEF LinkInv, L!TypeOK
<1>6. CASE L!SweepDelete(s)
  <2> DEFINE w == [v EXCEPT !.pc = "deleted", !.keys = {}]
  <2>1. w \in L!SweepStates /\ w # L!Resting /\ w.rows = v.rows /\ w.pc = "deleted"
    BY <1>1, SweepRecord, SweepForms
  <2>2. keys' = keys \ v.keys /\ v.pc = "listed"
    BY <1>6 DEF L!SweepDelete
  <2>3. sweep' = [sweep EXCEPT ![s] = w]
    BY <1>6 DEF L!SweepDelete
  <2> HIDE DEF w
  <2>4. L!TypeOK' /\ LinksAreGiven'
    <3>1. keys' \subseteq used /\ untidy' \in BOOLEAN /\ w.rows \subseteq used
      BY <1>1, <1>3, <1>5, <2>1, <2>2
    <3> QED
      BY <1>3, <2>1, <2>3, <3>1, SweepBecomes
  <2>5. Tidy'
    BY <1>3, <1>4, <2>1, <2>2, <2>3, SweepMoves DEF SweepFits
  <2> QED
    BY <2>4, <2>5 DEF LinkInv
<1>7. CASE L!SweepRead(s)
  <2> DEFINE w == [v EXCEPT !.pc = "read", !.rows = L!Live]
  <2>1. w \in L!SweepStates /\ w # L!Resting /\ w.rows = Named(link) /\ w.pc = "read"
    <3>1. L!Live \in SUBSET Links
      BY <1>2
    <3>2. w \in Sweepers /\ w.rows = L!Live /\ w.pc = "read"
      BY <1>1, <3>1 DEF Sweepers
    <3> HIDE DEF w
    <3> QED
      BY <1>1, <1>2, <3>2, SweepForms
  <2>2. keys' = keys /\ v.pc = "deleted"
    BY <1>7 DEF L!SweepRead
  <2>3. sweep' = [sweep EXCEPT ![s] = w]
    BY <1>7 DEF L!SweepRead
  <2> HIDE DEF w
  <2>4. L!TypeOK' /\ LinksAreGiven'
    <3>1. keys' \subseteq used /\ untidy' \in BOOLEAN /\ w.rows \subseteq used
      BY <1>1, <1>2, <1>3, <1>5, <2>1, <2>2
    <3> QED
      BY <1>3, <2>1, <2>3, <3>1, SweepBecomes
  <2>5. Tidy'
    BY <1>3, <1>4, <2>1, <2>2, <2>3, SweepMoves DEF SweepFits
  <2> QED
    BY <2>4, <2>5 DEF LinkInv
<1>8. CASE L!SweepWrite(s)
  <2>1. sweep' = [sweep EXCEPT ![s] = L!Resting] /\ keys' = keys \cup v.rows /\ v.pc = "read"
    BY <1>8 DEF L!SweepWrite
  <2>2. L!TypeOK' /\ LinksAreGiven'
    BY <1>1, <1>3, <1>5, <2>1, SweepTypes, SweepBecomes
  <2>3. Tidy'
    BY <1>3, <1>4, <2>1, SweepMoves DEF SweepFits
  <2> QED
    BY <2>2, <2>3 DEF LinkInv
<1> QED
  BY <1>6, <1>7, <1>8

LEMMA DeathKeeps ==
  ASSUME L!ShareLinksAssumption, LinkInv,
         (\E r \in Slots : L!Die(r)) \/ (\E s \in Sweeps : L!SweepDies(s))
  PROVE  LinkInv'
<1>1. untidy' = TRUE /\ linkDeaths' = linkDeaths + 1 /\ linkDeaths < MaxDeaths /\ UNCHANGED <<link, keys, used>>
  BY DEF L!Die, L!SweepDies
<1>2. linkDeaths' \in 0..MaxDeaths
  BY <1>1 DEF LinkInv, L!TypeOK, L!ShareLinksAssumption
<1>3. linkReq' \in [Slots -> L!Reqs] /\ \A r \in Slots : linkReq'[r] \in {linkReq[r], L!Idle}
  BY LinkReqTypes DEF L!Die, L!SweepDies, LinkInv, L!TypeOK
<1>4. sweep' \in [Sweeps -> L!SweepStates] /\ \A s \in Sweeps : sweep'[s] \in {sweep[s], L!Resting}
  BY SweepTypes DEF L!Die, L!SweepDies, LinkInv, L!TypeOK
<1>5. L!TypeOK'
  BY <1>1, <1>2, <1>3, <1>4 DEF LinkInv, L!TypeOK
<1>6. LinksAreGiven'
  BY <1>1, <1>3, <1>4, LinkReqTypes DEF LinkInv, LinksAreGiven
<1>7. Tidy'
  BY <1>1 DEF Tidy
<1> QED
  BY <1>5, <1>6, <1>7 DEF LinkInv

------------------------------------------------------------------------------
LEMMA LinksBegin == ASSUME L!ShareLinksAssumption, L!Init PROVE LinkInv
<1>1. linkReq \in [Slots -> L!Reqs] /\ \A r \in Slots : linkReq[r] = L!Idle
  BY LinkReqTypes DEF L!Init
<1>2. sweep \in [Sweeps -> L!SweepStates] /\ \A s \in Sweeps : sweep[s] = L!Resting
  BY SweepTypes DEF L!Init
<1>3. link \in [Collections -> Links \cup {NoLink, Gone}] /\ \A c \in Collections : link[c] = NoLink
  BY DEF L!Init
<1>4. L!TypeOK
  <2>1. linkDeaths \in 0..MaxDeaths
    BY DEF L!Init, L!ShareLinksAssumption
  <2>2. keys = {} /\ used = {} /\ untidy \in BOOLEAN
    BY DEF L!Init
  <2> QED
    BY <1>1, <1>2, <1>3, <2>1, <2>2 DEF L!TypeOK
<1>5. LinksAreGiven
  BY <1>1, <1>2, <1>3, LinkReqTypes DEF LinksAreGiven, L!ShareLinksAssumption
<1>6. keys = Named(link)
  BY <1>3 DEF L!Init, Named, L!ShareLinksAssumption
<1>7. Tidy
  BY <1>1, <1>2, <1>6 DEF Tidy
<1> QED
  BY <1>4, <1>5, <1>7 DEF LinkInv

LEMMA LinksKeep == ASSUME L!ShareLinksAssumption, LinkInv, [L!Next]_(L!vars) PROVE LinkInv'
<1>1. CASE UNCHANGED L!vars
  BY <1>1 DEF L!vars, LinkInv, L!TypeOK, LinksAreGiven, Tidy, L!AtRest, L!Busy, L!Sweeping
<1>2. CASE L!Next
  BY <1>2, LinkLoadKeeps, DeleteKeyKeeps, LinkWriteKeeps, PatchKeeps, LinkDeletionKeeps, SweepStartKeeps,
     SweepGoesOn, DeathKeeps DEF L!Next, L!Step, L!Sweep
<1> QED
  BY <1>1, <1>2

\* However requests, sweeps, deletions and deaths came before: after changes that came one after
\* the other, or a sweep that nothing overlapped, the keys are those of the links that
\* collections have.
THEOREM KeysFollowLinks == ASSUME L!ShareLinksAssumption PROVE L!Spec => []KeysTellTheLinks
<1>1. L!Init => LinkInv
  BY LinksBegin
<1>2. LinkInv /\ [L!Next]_(L!vars) => LinkInv'
  BY LinksKeep
<1>3. LinkInv => KeysTellTheLinks
  BY DEF LinkInv, Tidy, KeysTellTheLinks, L!KeysTellTheLinks, L!Live, Named
<1> QED
  BY <1>1, <1>2, <1>3, PTL DEF L!Spec

------------------------------------------------------------------------------
\* Uploads.  Every difference between the rows, the quota and the document is somebody's debt,
\* as it is with the lists: a request that has not counted yet, a scan that has not written yet.

\* A scan in the state j has given out the identifier a, of its file.
Passed(j, a) ==
  \/ a.run < j.run
  \/ /\ a.run = j.run
     /\ j.pc \in {"rule", "asked", "write"} => a.rule < j.rule \/ (a.rule = j.rule /\ j.pc # "rule")
GivenOut(a, J) == Passed(J[a.file], a)

\* A document with approvals that have been made only, each under its collection or nameless.
Sound(d, J) == d # NoList =>
  /\ \A k \in U!Keys : \A a \in d[k] : GivenOut(a, J)
  /\ \A k \in U!Keys \ {U!Nameless} : \A a \in d[k] : U!Target(a) = k

\* A scan of a file in the state n.
Scans(j, n, J) ==
  /\ j \in U!Jobs
  /\ j.pc = "none" => j.run = 0
  /\ j.pc = "waiting" => j.run <= 1
  /\ j.pc \notin {"none", "waiting"} => j.run >= 1
  /\ j.pc \in {"asked", "write"} => j.rule \in DOMAIN Rules
  /\ n = "none" => j.pc = "none"
  /\ Sound(j.copy, J)

\* A request, when F are the files, J the scans and A the approvals.
Asks(r, F, J, A) ==
  /\ r \in U!Requests
  /\ r.pc = "idle" => r = U!Idle
  /\ r.op = "upload" <=> r.pc \in {"charge", "enqueue"}
  /\ r.op = "delete" <=> r.pc \in {"refund", "items", "approvals", "row"}
  /\ r.op = "act" <=> r.pc \in {"act", "destroy", "patchget", "patchset"}
  /\ r.op = "put" <=> r.pc = "create"
  /\ r.op \in {"upload", "delete", "put"} => r.file \in Files /\ F[r.file] # "none"
  /\ r.op \notin {"upload", "delete", "put"} => r.file = NoFile
  /\ r.op # "act" => r.todo = {}
  /\ r.pc \in {"destroy", "patchget", "patchset"} => r.at \in r.todo
  /\ r.pc \notin {"destroy", "patchget", "patchset"} => r.at = U!NoId
  /\ r.pc \in {"patchget", "patchset"} => r.at \notin A
  /\ r.pc \in {"patchset", "regenset"} => r.copy # NoList
  /\ \A a \in r.todo : GivenOut(a, J)
  /\ Sound(r.copy, J)

UploadTables ==
  /\ files \in [Files -> {"none", "kept", "gone"}]
  /\ charge \in [Files -> Int]
  /\ items \subseteq Files \X Targets /\ approvals \subseteq U!Ids
  /\ shown \in U!Docs
  /\ upMade \in 0..MaxUploads /\ upDeaths \in 0..MaxDeaths
  /\ raced \subseteq Files /\ upAstray \subseteq U!Ids

JobsFit == job \in [Files -> U!Jobs] /\ \A f \in Files : Scans(job[f], files[f], job)
RequestsFit ==
  upReq \in [Slots -> U!Requests] /\ \A s \in Slots : Asks(upReq[s], files, job, approvals)

\* A file is uploaded by one request, before its scan.
Uploading ==
  /\ \A s \in Slots : upReq[s].op = "upload" => job[upReq[s].file].pc = "none"
  /\ \A s, t \in Slots : upReq[s].op = "upload" /\ upReq[t].op = "upload" /\
       upReq[s].file = upReq[t].file => s = t

AllGiven == (\A a \in approvals : GivenOut(a, job)) /\ Sound(shown, job)

\* What is charged already and what is going to be.
Charging(R, f) == \E s \in Slots : R[s].pc = "charge" /\ R[s].file = f
Refunded(R, f) == \E s \in Slots : R[s].pc \in {"items", "approvals", "row"} /\ R[s].file = f
ChargeFits(x, n, R, f) ==
  /\ x <= 1
  /\ Charging(R, f) => x <= 0
  /\ n # "kept" \/ Refunded(R, f) => x <= 0
  /\ (n # "kept" \/ Refunded(R, f)) /\ Charging(R, f) => x <= -1
Undercharged == \A f \in Files : ChargeFits(charge[f], files[f], upReq, f)

\* A file that is not raced, when n says whether it is there, j is its scan, and R, I and A
\* are the requests, the items and the approvals.
Concerns(r, f) == r.op \in {"upload", "delete"} /\ r.file = f
Acts(r, f) == (r.op = "put" /\ r.file = f) \/ \E a \in r.todo : a.file = f
Over(j) == j.pc \in {"none", "done", "failed"}
Quiet(f, R, n) == n = "gone" \/ \E s \in Slots : R[s].op = "delete" /\ R[s].file = f
Cleared(f, R, n) == n = "gone" \/ \E s \in Slots : R[s].pc \in {"approvals", "row"} /\ R[s].file = f
Dropped(f, R, n) == n = "gone" \/ \E s \in Slots : R[s].pc = "row" /\ R[s].file = f
Empty(f, I) == \A c \in Targets : <<f, c>> \notin I
Unasked(f, A) == \A a \in A : a.file # f
Orderly(f, R, n, j, I, A) ==
  /\ \A s, t \in Slots : Concerns(R[s], f) /\ Concerns(R[t], f) => s = t
  /\ \A s \in Slots : Concerns(R[s], f) => n = "kept"
  /\ Quiet(f, R, n) => Over(j) /\ \A t \in Slots : ~Acts(R[t], f)
  /\ Cleared(f, R, n) => Empty(f, I)
  /\ Dropped(f, R, n) => Unasked(f, A)

\* What such a file is charged when nobody has died.
Exact(f, R, n, x) ==
  /\ \A s \in Slots : Concerns(R[s], f) => x = IF R[s].pc \in {"enqueue", "refund"} THEN 1 ELSE 0
  /\ (\A s \in Slots : ~Concerns(R[s], f)) => x = IF n = "kept" THEN 1 ELSE 0

InOrder == \A f \in Files \ raced : Orderly(f, upReq, files[f], job[f], items, approvals)
AllExact == upDeaths = 0 => \A f \in Files \ raced : Exact(f, upReq, files[f], charge[f])

\* The document tells of the approval a what the table says, or somebody is going to.
Fit(a, A, d) == a \in A <=> d # NoList /\ a \in U!Listed(d)
Asked(a, j) == j.pc \in {"asked", "write"} /\ a.rule = j.rule /\ a.run = j.run
Patches(a, r) == r.pc \in {"patchget", "patchset"} /\ r.at = a
ListDebt(a, J, R) == Asked(a, J[a.file]) \/ \E s \in Slots : Patches(a, R[s])
ListFits == \A a \in U!Ids \ upAstray :
  files[a.file] = "kept" => Fit(a, approvals, shown) \/ ListDebt(a, job, upReq)

UploadInv ==
  /\ UploadTables /\ JobsFit /\ RequestsFit /\ Uploading /\ AllGiven
  /\ Undercharged /\ InOrder /\ AllExact /\ ListFits

------------------------------------------------------------------------------
\* An identifier that the scan has given out in the state i, it has given out in j.
Later(i, j) == \A a \in U!Ids : Passed(i, a) => Passed(j, a)

LEMMA GivenStays ==
  ASSUME NEW J, NEW H, \A f \in Files : Later(J[f], H[f])
  PROVE  /\ \A a \in U!Ids : GivenOut(a, J) => GivenOut(a, H)
         /\ \A d \in U!Docs : Sound(d, J) => Sound(d, H)
<1>1. ASSUME NEW a \in U!Ids, GivenOut(a, J) PROVE GivenOut(a, H)
  <2>1. a.file \in Files
    BY DEF U!Ids
  <2> QED
    BY <1>1, <2>1 DEF GivenOut, Later
<1>2. ASSUME NEW d \in U!Docs, Sound(d, J) PROVE Sound(d, H)
  <2>1. CASE d = NoList
    BY <2>1 DEF Sound
  <2>2. CASE d # NoList
    <3>1. \A k \in U!Keys : \A a \in d[k] : a \in U!Ids
      BY <2>2 DEF U!Docs
    <3> QED
      BY <1>1, <1>2, <2>2, <3>1 DEF Sound
  <2> QED
    BY <2>1, <2>2
<1> QED
  BY <1>1, <1>2

LEMMA AsksStays ==
  ASSUME NEW r, NEW F, NEW J, NEW A, NEW G, NEW H, NEW B, Asks(r, F, J, A),
         \A f \in Files : Later(J[f], H[f]),
         \A f \in Files : F[f] # "none" => G[f] # "none",
         \A a \in U!Ids : GivenOut(a, J) /\ a \notin A => a \notin B
  PROVE  Asks(r, G, H, B)
<1>1. r \in U!Requests /\ r.todo \subseteq U!Ids /\ r.copy \in U!Docs
  BY DEF Asks, U!Requests
<1>2. Sound(r.copy, H) /\ \A a \in r.todo : GivenOut(a, H)
  BY <1>1, GivenStays DEF Asks
<1>3. r.pc \in {"patchget", "patchset"} => r.at \notin B
  BY <1>1 DEF Asks
<1> QED
  BY <1>1, <1>2, <1>3 DEF Asks

LEMMA ConstantsAre ==
  ASSUME U!UploadsAssumption
  PROVE  /\ NoFile \notin Files /\ NoList \notin [U!Keys -> SUBSET U!Ids]
         /\ Known \subseteq BOOLEAN /\ MaxUploads \in Nat /\ MaxDeaths \in Nat
  BY DEF U!UploadsAssumption

\* An approval is of one of the rules, and for its collection.
LEMMA RulesAre ==
  ASSUME U!UploadsAssumption
  PROVE  /\ Len(Rules) \in Nat /\ DOMAIN Rules = 1..Len(Rules)
         /\ \A n \in 1..Len(Rules) : Rules[n].c \in Targets
         /\ \A a \in U!Ids : a.rule \in 1..Len(Rules) /\ a.run \in 1..2 /\ a.file \in Files
         /\ \A a \in U!Ids : U!Target(a) \in Targets /\ U!Target(a) \in U!Keys
<1>1. Rules \in Seq([c : Targets, ask : BOOLEAN])
  BY DEF U!UploadsAssumption
<1>2. Len(Rules) \in Nat /\ DOMAIN Rules = 1..Len(Rules)
  BY <1>1
<1>3. \A n \in 1..Len(Rules) : Rules[n] \in [c : Targets, ask : BOOLEAN]
  <2> DEFINE S == [c : Targets, ask : BOOLEAN]
  <2>1. Rules \in Seq(S)
    BY <1>1
  <2> HIDE DEF S
  <2>2. \A n \in 1..Len(Rules) : Rules[n] \in S
    BY <2>1
  <2> QED
    BY <2>2 DEF S
<1>4. \A n \in 1..Len(Rules) : Rules[n].c \in Targets
  BY <1>3
<1>5. \A a \in U!Ids : a.rule \in 1..Len(Rules) /\ a.run \in 1..2 /\ a.file \in Files
  BY <1>2 DEF U!Ids
<1>6. \A a \in U!Ids : U!Target(a) \in Targets
  BY <1>4, <1>5 DEF U!Target
<1> QED
  BY <1>2, <1>4, <1>5, <1>6 DEF U!Keys

LEMMA SameScan == ASSUME NEW J PROVE \A f \in Files : Later(J[f], J[f])
  BY DEF Later

------------------------------------------------------------------------------
(* A request moves, and no scan does.                                      *)

UploadGoesTo(s, r) == upReq' = [upReq EXCEPT ![s] = r]

\* A file that is there is not forgotten, and nothing that has been made is made again.
Onward ==
  /\ \A f \in Files : files[f] # "none" => files'[f] # "none"
  /\ \A a \in U!Ids : GivenOut(a, job) /\ a \notin approvals => a \notin approvals'

LEMMA RequestsKeep ==
  ASSUME UploadInv, NEW s \in Slots, NEW r, UploadGoesTo(s, r), \A f \in Files :
           Later(job[f], job'[f]), Onward,
         Asks(r, files', job', approvals')
  PROVE  RequestsFit'
<1>1. r \in U!Requests /\ upReq \in [Slots -> U!Requests]
  BY DEF Asks, UploadInv, RequestsFit
<1>2. upReq' \in [Slots -> U!Requests]
  BY <1>1 DEF UploadGoesTo
<1>3. ASSUME NEW t \in Slots PROVE Asks(upReq'[t], files', job', approvals')
  <2>1. CASE t = s
    BY <1>1, <2>1 DEF UploadGoesTo
  <2>2. CASE t # s
    <3>1. upReq'[t] = upReq[t] /\ Asks(upReq[t], files, job, approvals)
      BY <1>1, <2>2 DEF UploadGoesTo, UploadInv, RequestsFit
    <3>2. Asks(upReq[t], files', job', approvals')
      BY <3>1, AsksStays DEF Onward
    <3> QED
      BY <3>1, <3>2
  <2> QED
    BY <2>1, <2>2
<1> QED
  BY <1>2, <1>3 DEF RequestsFit

LEMMA RequestsStay ==
  ASSUME UploadInv, upReq' = upReq, \A f \in Files : Later(job[f], job'[f]), Onward
  PROVE  RequestsFit'
<1>1. ASSUME NEW t \in Slots PROVE Asks(upReq[t], files', job', approvals')
  <2>1. Asks(upReq[t], files, job, approvals)
    BY DEF UploadInv, RequestsFit
  <2> QED
    BY <2>1, AsksStays DEF Onward
<1> QED
  BY <1>1 DEF RequestsFit, UploadInv

LEMMA JobsStay ==
  ASSUME UploadInv, job' = job, \A f \in Files : files'[f] = "none" => files[f] = "none"
  PROVE  JobsFit'
<1>1. ASSUME NEW f \in Files PROVE Scans(job[f], files'[f], job)
  <2>1. Scans(job[f], files[f], job)
    BY DEF UploadInv, JobsFit
  <2> QED
    BY <2>1 DEF Scans
<1> QED
  BY <1>1 DEF JobsFit, UploadInv

LEMMA UploadingKeeps ==
  ASSUME UploadInv, NEW s \in Slots, NEW r, UploadGoesTo(s, r), job' = job,
         r.op = "upload" => upReq[s].op = "upload" /\ r.file = upReq[s].file
  PROVE  Uploading'
<1>1. upReq \in [Slots -> U!Requests]
  BY DEF UploadInv, RequestsFit
<1>2. \A t \in Slots : upReq'[t].op = "upload" => upReq[t].op = "upload" /\
        upReq'[t].file = upReq[t].file
  BY <1>1 DEF UploadGoesTo
<1> QED
  BY <1>2 DEF Uploading, UploadInv

LEMMA GivenKeeps ==
  ASSUME UploadInv, job' = job, shown' = shown, approvals' \subseteq approvals
  PROVE  AllGiven'
  BY DEF UploadInv, AllGiven

LEMMA ChargesKeep ==
  ASSUME UploadInv, NEW s \in Slots, NEW r, UploadGoesTo(s, r), charge' = charge,
         \A f \in Files : files[f] = "kept" => files'[f] = "kept",
         r.pc # "charge",
         r.pc \in {"items", "approvals", "row"} =>
           upReq[s].pc \in {"items", "approvals", "row"} /\ r.file = upReq[s].file
  PROVE  Undercharged'
<1>1. upReq \in [Slots -> U!Requests]
  BY DEF UploadInv, RequestsFit
<1>2. \A t \in Slots : upReq'[t] = IF t = s THEN r ELSE upReq[t]
  BY <1>1 DEF UploadGoesTo
<1>3. \A f \in Files : /\ Charging(upReq', f) => Charging(upReq, f)
                       /\ Refunded(upReq', f) => Refunded(upReq, f)
  BY <1>2 DEF Charging, Refunded
<1>4. \A f \in Files : ChargeFits(charge[f], files[f], upReq, f)
  BY DEF UploadInv, Undercharged
<1>5. ASSUME NEW f \in Files PROVE ChargeFits(charge[f], files'[f], upReq', f)
  BY <1>3, <1>4 DEF ChargeFits
<1> QED
  BY <1>5 DEF Undercharged

\* The file f when the request of s goes on without coming nearer to its end.
LEMMA OrderKeeps ==
  ASSUME UploadInv, NEW f \in Files \ raced, NEW s \in Slots, NEW r, UploadGoesTo(s, r),
           files'[f] = files[f],
         Concerns(r, f) => Concerns(upReq[s], f) /\ r.op = upReq[s].op,
         r.file = f /\ r.pc \in {"approvals", "row"} =>
           Empty(f, items') \/ (upReq[s].file = f /\ upReq[s].pc \in {"approvals", "row"}),
         r.file = f /\ r.pc = "row" => Unasked(f, approvals') \/
           (upReq[s].file = f /\ upReq[s].pc = "row"),
         Acts(r, f) => Acts(upReq[s], f) \/ ~Quiet(f, upReq, files[f]),
         Quiet(f, upReq, files[f]) /\ Over(job[f]) => Over(job'[f]),
         Cleared(f, upReq, files[f]) /\ Empty(f, items) => Empty(f, items'),
         Dropped(f, upReq, files[f]) /\ Unasked(f, approvals) => Unasked(f, approvals')
  PROVE  Orderly(f, upReq', files'[f], job'[f], items', approvals')
<1>1. upReq \in [Slots -> U!Requests] /\ Orderly(f, upReq, files[f], job[f], items, approvals)
  BY DEF UploadInv, RequestsFit, InOrder
<1>2. \A t \in Slots : upReq'[t] = IF t = s THEN r ELSE upReq[t]
  BY <1>1 DEF UploadGoesTo
<1>3. \A t \in Slots : Concerns(upReq'[t], f) => Concerns(upReq[t], f) /\ upReq'[t].op = upReq[t].op
  BY <1>2
<1>4. Quiet(f, upReq', files'[f]) => Quiet(f, upReq, files[f])
  BY <1>3 DEF Quiet, Concerns
<1>5. /\ Cleared(f, upReq', files'[f]) => Cleared(f, upReq, files[f]) \/ Empty(f, items')
      /\ Dropped(f, upReq', files'[f]) => Dropped(f, upReq, files[f]) \/ Unasked(f, approvals')
  BY <1>2 DEF Cleared, Dropped
<1>6. \A t \in Slots : Acts(upReq'[t], f) => Acts(upReq[t], f) \/ ~Quiet(f, upReq, files[f])
  BY <1>2
<1>7. /\ \A t, u \in Slots : Concerns(upReq'[t], f) /\ Concerns(upReq'[u], f) => t = u
      /\ \A t \in Slots : Concerns(upReq'[t], f) => files'[f] = "kept"
  BY <1>1, <1>3 DEF Orderly
<1>8. Quiet(f, upReq', files'[f]) => Over(job'[f]) /\ \A t \in Slots : ~Acts(upReq'[t], f)
  BY <1>1, <1>4, <1>6 DEF Orderly
<1>9. /\ Cleared(f, upReq', files'[f]) => Empty(f, items')
      /\ Dropped(f, upReq', files'[f]) => Unasked(f, approvals')
  BY <1>1, <1>5 DEF Orderly
<1> QED
  BY <1>7, <1>8, <1>9 DEF Orderly

LEMMA ExactKeeps ==
  ASSUME UploadInv, NEW f \in Files \ raced, NEW s \in Slots, NEW r, UploadGoesTo(s, r),
           files'[f] = files[f],
         charge'[f] = charge[f], upDeaths = 0,
         Concerns(r, f) <=> Concerns(upReq[s], f),
         Concerns(r, f) =>
           (r.pc \in {"enqueue", "refund"} <=> upReq[s].pc \in {"enqueue", "refund"})
  PROVE  Exact(f, upReq', files'[f], charge'[f])
<1>1. upReq \in [Slots -> U!Requests] /\ Exact(f, upReq, files[f], charge[f])
  BY DEF UploadInv, RequestsFit, AllExact
<1>2. \A t \in Slots : upReq'[t] = IF t = s THEN r ELSE upReq[t]
  BY <1>1 DEF UploadGoesTo
<1>3. \A t \in Slots : /\ Concerns(upReq'[t], f) <=> Concerns(upReq[t], f)
                       /\ Concerns(upReq'[t], f) =>
                            (upReq'[t].pc \in {"enqueue", "refund"} <=>
                              upReq[t].pc \in {"enqueue", "refund"})
  BY <1>2
<1>4. (\A t \in Slots : ~Concerns(upReq'[t], f)) => charge'[f] = IF files'[f] = "kept" THEN 1 ELSE 0
  BY <1>1, <1>3 DEF Exact
<1>5. ASSUME NEW t \in Slots, Concerns(upReq'[t], f)
      PROVE  charge'[f] = IF upReq'[t].pc \in {"enqueue", "refund"} THEN 1 ELSE 0
  BY <1>1, <1>3, <1>5 DEF Exact
<1> QED
  BY <1>4, <1>5 DEF Exact

LEMMA ListKeeps ==
  ASSUME UploadInv, NEW s \in Slots, NEW r, UploadGoesTo(s, r), shown' = shown,
           upAstray \subseteq upAstray',
         \A f \in Files : files'[f] = "kept" => files[f] = "kept",
         \A a \in U!Ids \ upAstray' : Asked(a, job[a.file]) => Asked(a, job'[a.file]),
         \A a \in U!Ids \ upAstray' : \/ Fit(a, approvals', shown)
                                 \/ /\ (a \in approvals <=> a \in approvals') \/ Patches(a, r)
                                    /\ Patches(a, upReq[s]) => Patches(a, r)
  PROVE  ListFits'
<1>1. upReq \in [Slots -> U!Requests]
  BY DEF UploadInv, RequestsFit
<1>2. \A t \in Slots : upReq'[t] = IF t = s THEN r ELSE upReq[t]
  BY <1>1 DEF UploadGoesTo
<1>3. ASSUME NEW a \in U!Ids \ upAstray', files'[a.file] = "kept"
      PROVE  Fit(a, approvals', shown') \/ ListDebt(a, job', upReq')
  <2>1. files[a.file] = "kept" /\ a \in U!Ids \ upAstray
    BY <1>3 DEF U!Ids
  <2>2. CASE Fit(a, approvals', shown)
    BY <2>2
  <2>3. CASE ~Fit(a, approvals', shown)
    <3>1. Fit(a, approvals, shown) \/ ListDebt(a, job, upReq)
      BY <2>1 DEF UploadInv, ListFits
    <3>2. /\ (a \in approvals <=> a \in approvals') \/ Patches(a, r)
          /\ Patches(a, upReq[s]) => Patches(a, r)
      BY <1>3, <2>3
    <3>3. Fit(a, approvals, shown) => Patches(a, r)
      BY <2>3, <3>2 DEF Fit
    <3>4. Patches(a, r) => ListDebt(a, job', upReq')
      BY <1>2 DEF ListDebt
    <3>5. ListDebt(a, job, upReq) => ListDebt(a, job', upReq')
      BY <1>2, <1>3, <3>2 DEF ListDebt
    <3> QED
      BY <3>1, <3>3, <3>4, <3>5
  <2> QED
    BY <2>2, <2>3
<1> QED
  BY <1>3 DEF ListFits

\* Nobody asks anything new.
LEMMA OrderStays ==
  ASSUME UploadInv, NEW f \in Files \ raced, upReq' = upReq, files'[f] = files[f],
         Quiet(f, upReq, files[f]) /\ Over(job[f]) => Over(job'[f]),
         Cleared(f, upReq, files[f]) /\ Empty(f, items) => Empty(f, items'),
         Dropped(f, upReq, files[f]) /\ Unasked(f, approvals) => Unasked(f, approvals')
  PROVE  Orderly(f, upReq', files'[f], job'[f], items', approvals')
<1>1. Orderly(f, upReq, files[f], job[f], items, approvals)
  BY DEF UploadInv, InOrder
<1> QED
  BY <1>1 DEF Orderly

\* The request q becomes r, and starts no upload and counts nothing off.
Tame(q, r) ==
  /\ r.op = "upload" => q.op = "upload" /\ r.file = q.file
  /\ r.pc # "charge"
  /\ r.pc \in {"items", "approvals", "row"} => q.pc \in {"items", "approvals", "row"} /\
       r.file = q.file

\* It begins no deletion of f, and goes on with one when I and A are without f.
Calm(f, q, r, I, A) ==
  /\ Concerns(r, f) => Concerns(q, f) /\ r.op = q.op
  /\ r.file = f /\ r.pc \in {"approvals", "row"} =>
       Empty(f, I) \/ (q.file = f /\ q.pc \in {"approvals", "row"})
  /\ r.file = f /\ r.pc = "row" => Unasked(f, A) \/ (q.file = f /\ q.pc = "row")

\* What f is charged is the same while both are under way.
Even(f, q, r) ==
  /\ Concerns(r, f) <=> Concerns(q, f)
  /\ Concerns(r, f) => (r.pc \in {"enqueue", "refund"} <=> q.pc \in {"enqueue", "refund"})

\* It keeps the debt of the approval a, and takes over the debt of a that B has and A had not.
KeepsDebts(a, q, r, A, B) ==
  /\ (a \in A <=> a \in B) \/ Patches(a, r)
  /\ Patches(a, q) => Patches(a, r)

\* A step of a request, of which the document is looked at elsewhere.
LEMMA RequestStep ==
  ASSUME U!UploadsAssumption, UploadInv, NEW s \in Slots, NEW r, UploadGoesTo(s, r), UploadTables',
         files' = files, charge' = charge, job' = job, upDeaths <= upDeaths',
           raced \subseteq raced',
         approvals' \subseteq approvals, AllGiven', ListFits',
         Asks(r, files, job, approvals'), Tame(upReq[s], r),
         \A f \in Files \ raced' : Calm(f, upReq[s], r, items', approvals'),
         \A f \in Files \ raced' : Acts(r, f) => Acts(upReq[s], f) \/ ~Quiet(f, upReq, files[f]),
         \A f \in Files \ raced' : Cleared(f, upReq, files[f]) /\ Empty(f, items) =>
           Empty(f, items'),
         upDeaths' = 0 => \A f \in Files \ raced' : Even(f, upReq[s], r)
  PROVE  UploadInv'
<1>1. Onward
  BY DEF Onward
<1>2. RequestsFit'
  BY <1>1, SameScan, RequestsKeep
<1>3. JobsFit' /\ Uploading'
  BY JobsStay, UploadingKeeps DEF Tame
<1>4. Undercharged'
  BY ChargesKeep DEF Tame
<1>5. ASSUME NEW f \in Files \ raced'
      PROVE  Orderly(f, upReq', files'[f], job'[f], items', approvals')
  <2>1. f \in Files \ raced
    BY <1>5
  <2>2. Dropped(f, upReq, files[f]) /\ Unasked(f, approvals) => Unasked(f, approvals')
    BY DEF Unasked
  <2> QED
    BY <1>5, <2>1, <2>2, OrderKeeps DEF Calm
<1>6. ASSUME NEW f \in Files \ raced', upDeaths' = 0
      PROVE  Exact(f, upReq', files'[f], charge'[f])
  <2>1. f \in Files \ raced /\ upDeaths = 0
    BY <1>5, <1>6, ConstantsAre DEF UploadInv, UploadTables
  <2> QED
    BY <1>6, <2>1, ExactKeeps DEF Even
<1> QED
  BY <1>2, <1>3, <1>4, <1>5, <1>6 DEF UploadInv, InOrder, AllExact

LEMMA PlainStep ==
  ASSUME U!UploadsAssumption, UploadInv, NEW s \in Slots, NEW r, UploadGoesTo(s, r), UploadTables',
         files' = files, charge' = charge, shown' = shown, job' = job,
         upDeaths <= upDeaths', raced \subseteq raced', upAstray \subseteq upAstray',
           approvals' \subseteq approvals,
         Asks(r, files, job, approvals'), Tame(upReq[s], r),
         \A f \in Files \ raced' : Calm(f, upReq[s], r, items', approvals'),
         \A f \in Files \ raced' : Acts(r, f) => Acts(upReq[s], f) \/ ~Quiet(f, upReq, files[f]),
         \A f \in Files \ raced' : Cleared(f, upReq, files[f]) /\ Empty(f, items) =>
           Empty(f, items'),
         upDeaths' = 0 => \A f \in Files \ raced' : Even(f, upReq[s], r),
         \A a \in U!Ids \ upAstray' : Fit(a, approvals', shown) \/
           KeepsDebts(a, upReq[s], r, approvals, approvals')
  PROVE  UploadInv'
<1>1. AllGiven'
  BY GivenKeeps
<1>2. ListFits'
  BY ListKeeps DEF KeepsDebts
<1> QED
  BY <1>1, <1>2, RequestStep

\* The request of s, with its point only changed.
LEMMA GoesOn ==
  ASSUME UploadInv, NEW s \in Slots, NEW pc, U!Goto(s, pc)
  PROVE  \E r : /\ UploadGoesTo(s, r) /\ r = [upReq[s] EXCEPT !.pc = pc]
                /\ r.op = upReq[s].op /\ r.pc = pc /\ r.file = upReq[s].file /\ r.yes = upReq[s].yes
                /\ r.todo = upReq[s].todo /\ r.at = upReq[s].at /\ r.copy = upReq[s].copy
<1>1. upReq[s] \in U!Requests /\ upReq \in [Slots -> U!Requests]
  BY DEF UploadInv, RequestsFit
<1>2. UploadGoesTo(s, [upReq[s] EXCEPT !.pc = pc])
  BY <1>1 DEF U!Goto, UploadGoesTo
<1> QED
  BY <1>1, <1>2 DEF U!Requests

LEMMA DeleteItemsKeeps ==
  ASSUME U!UploadsAssumption, UploadInv, NEW s \in Slots, U!DeleteItems(s)
  PROVE  UploadInv'
<1>1. /\ upReq[s].pc = "items" /\ U!Goto(s, "approvals") /\
           items' = items \ ({upReq[s].file} \X Targets)
      /\ files' = files /\ charge' = charge /\ approvals' = approvals /\ shown' = shown
      /\ job' = job /\ upMade' = upMade /\ upDeaths' = upDeaths /\ raced' = raced /\
           upAstray' = upAstray
  BY DEF U!DeleteItems, U!At
<1>2. PICK r : /\ UploadGoesTo(s, r) /\ r = [upReq[s] EXCEPT !.pc = "approvals"]
               /\ r.op = upReq[s].op /\ r.pc = "approvals" /\ r.file = upReq[s].file /\
                    r.yes = upReq[s].yes
               /\ r.todo = upReq[s].todo /\ r.at = upReq[s].at /\ r.copy = upReq[s].copy
  BY <1>1, GoesOn
<1>3. Asks(upReq[s], files, job, approvals) /\ UploadTables
  BY DEF UploadInv, RequestsFit
<1>4. Asks(r, files, job, approvals')
  BY <1>1, <1>2, <1>3 DEF Asks, U!Requests
<1>5. UploadTables'
  BY <1>1, <1>3 DEF UploadTables
<1>6. /\ Empty(upReq[s].file, items')
      /\ \A f \in Files : Empty(f, items) => Empty(f, items')
  BY <1>1 DEF Empty
<1>7. Tame(upReq[s], r)
  BY <1>1, <1>2, <1>3 DEF Tame, Asks
<1>8. \A f \in Files : Calm(f, upReq[s], r, items', approvals') /\ Even(f, upReq[s], r)
  BY <1>1, <1>2, <1>6 DEF Calm, Even, Concerns
<1>9. \A a \in U!Ids : KeepsDebts(a, upReq[s], r, approvals, approvals')
  BY <1>1, <1>2 DEF KeepsDebts, Patches
<1>10. \A f \in Files : Acts(r, f) => Acts(upReq[s], f)
  BY <1>2 DEF Acts
<1>11. upDeaths <= upDeaths' /\ raced \subseteq raced' /\ upAstray \subseteq upAstray' /\
         approvals' \subseteq approvals
  BY <1>1, <1>3, ConstantsAre DEF UploadTables
<1> QED
  BY <1>1, <1>2, <1>4, <1>5, <1>6, <1>7, <1>8, <1>9, <1>10, <1>11, PlainStep

LEMMA DeleteApprovalsKeeps ==
  ASSUME U!UploadsAssumption, UploadInv, NEW s \in Slots, U!DeleteApprovals(s)
  PROVE  UploadInv'
<1>1. /\ upReq[s].pc = "approvals" /\ U!Goto(s, "row") /\
           approvals' = {a \in approvals : a.file # upReq[s].file}
      /\ files' = files /\ charge' = charge /\ items' = items /\ shown' = shown
      /\ job' = job /\ upMade' = upMade /\ upDeaths' = upDeaths /\ raced' = raced
      /\ upAstray' = upAstray \cup {a \in approvals : a.file = upReq[s].file}
  BY DEF U!DeleteApprovals, U!At
<1>2. PICK r : /\ UploadGoesTo(s, r) /\ r = [upReq[s] EXCEPT !.pc = "row"]
               /\ r.op = upReq[s].op /\ r.pc = "row" /\ r.file = upReq[s].file /\
                    r.yes = upReq[s].yes
               /\ r.todo = upReq[s].todo /\ r.at = upReq[s].at /\ r.copy = upReq[s].copy
  BY <1>1, GoesOn
<1>3. Asks(upReq[s], files, job, approvals) /\ UploadTables
  BY DEF UploadInv, RequestsFit
<1>4. Asks(r, files, job, approvals')
  BY <1>1, <1>2, <1>3 DEF Asks, U!Requests
<1>5. UploadTables'
  BY <1>1, <1>3 DEF UploadTables
<1>6. Unasked(upReq[s].file, approvals')
  BY <1>1 DEF Unasked
<1>7. Tame(upReq[s], r)
  BY <1>1, <1>2, <1>3 DEF Tame, Asks
<1>8. \A f \in Files : Calm(f, upReq[s], r, items', approvals') /\ Even(f, upReq[s], r)
  BY <1>1, <1>2, <1>6 DEF Calm, Even, Concerns
<1>9. \A a \in U!Ids \ upAstray' : KeepsDebts(a, upReq[s], r, approvals, approvals')
  BY <1>1, <1>2 DEF KeepsDebts, Patches
<1>10. \A f \in Files : Acts(r, f) => Acts(upReq[s], f)
  BY <1>2 DEF Acts
<1>11. upDeaths <= upDeaths' /\ raced \subseteq raced' /\ upAstray \subseteq upAstray' /\
         approvals' \subseteq approvals
  BY <1>1, <1>3, ConstantsAre DEF UploadTables
<1> QED
  BY <1>1, <1>2, <1>4, <1>5, <1>7, <1>8, <1>9, <1>10, <1>11, PlainStep

\* A request about approvals has no file: it disturbs no deletion, and what is charged.
LEMMA ActIsCalm ==
  ASSUME NEW q, NEW r, NEW I, NEW A, NEW f \in Files, U!UploadsAssumption,
         q.op \notin {"upload", "delete"}, r.op \notin {"upload", "delete"},
         r.pc \notin {"charge", "items", "approvals", "row"}
  PROVE  Tame(q, r) /\ Calm(f, q, r, I, A) /\ Even(f, q, r)
  BY DEF Tame, Calm, Even, Concerns

\* A request of which nothing is left asks for nothing.
LEMMA IdleAsks ==
  ASSUME U!UploadsAssumption, NEW F, NEW J, NEW A
  PROVE  /\ Asks(U!Idle, F, J, A) /\ U!Idle \in U!Requests
         /\ \A f : ~Concerns(U!Idle, f) /\ ~Acts(U!Idle, f)
         /\ \A q : Tame(q, U!Idle)
         /\ \A f \in Files : \A q, I, B : Calm(f, q, U!Idle, I, B)
         /\ \A a : ~Patches(a, U!Idle)
<1>1. U!Idle \in U!Requests
  BY DEF U!Idle, U!Requests, U!Docs
<1>2. Asks(U!Idle, F, J, A)
  BY <1>1 DEF Asks, U!Idle, Sound
<1> QED
  BY <1>1, <1>2 DEF Concerns, Acts, Tame, Calm, Patches, U!Idle

LEMMA EndKeeps ==
  ASSUME U!UploadsAssumption, UploadInv, NEW s \in Slots, U!Done(s), UploadTables',
         files' = files, charge' = charge, items' = items, approvals' = approvals, shown' = shown,
           job' = job,
         upDeaths <= upDeaths', raced \subseteq raced', upAstray \subseteq upAstray',
         upDeaths' = 0 => upReq[s].op \notin {"upload", "delete"},
         \A a \in U!Ids \ upAstray' : Patches(a, upReq[s]) => Fit(a, approvals, shown)
  PROVE  UploadInv'
<1>1. UploadGoesTo(s, U!Idle)
  BY DEF U!Done, UploadGoesTo
<1>2. \A f \in Files : Calm(f, upReq[s], U!Idle, items', approvals')
  BY IdleAsks
<1>3. upDeaths' = 0 => \A f \in Files : Even(f, upReq[s], U!Idle)
  BY IdleAsks DEF Even, Concerns
<1>4. \A a \in U!Ids \ upAstray' : Fit(a, approvals', shown) \/
        KeepsDebts(a, upReq[s], U!Idle, approvals, approvals')
  BY DEF KeepsDebts
<1>5. \A f \in Files : ~Acts(U!Idle, f)
  BY IdleAsks
<1>6. Asks(U!Idle, files, job, approvals') /\ Tame(upReq[s], U!Idle)
  BY IdleAsks
<1>7. \A f \in Files : Empty(f, items) => Empty(f, items')
  OBVIOUS
<1> QED
  BY <1>1, <1>2, <1>3, <1>4, <1>5, <1>6, <1>7, PlainStep

LEMMA TwiceKeeps ==
  ASSUME U!UploadsAssumption, UploadInv, NEW s \in Slots, U!Twice(s)
  PROVE  UploadInv'
<1>1. Asks(upReq[s], files, job, approvals) /\ UploadTables
  BY DEF UploadInv, RequestsFit
<1>2. /\ upReq[s].pc = "act" /\ U!Done(s) /\ files' = files /\ charge' = charge /\ items' = items
      /\ approvals' = approvals /\ shown' = shown /\ job' = job /\ upMade' = upMade
      /\ upDeaths' = upDeaths /\ raced' = raced /\ upAstray' = upAstray
  BY DEF U!Twice, U!At, U!rows
<1>3. UploadTables' /\ upDeaths <= upDeaths'
  BY <1>1, <1>2, ConstantsAre DEF UploadTables
<1>4. upReq[s].op \notin {"upload", "delete"} /\ \A a : ~Patches(a, upReq[s])
  BY <1>1, <1>2 DEF Asks, Patches
<1> QED
  BY <1>2, <1>3, <1>4, EndKeeps

LEMMA UploadCrashKeeps ==
  ASSUME U!UploadsAssumption, UploadInv, NEW s \in Slots, U!Crash(s)
  PROVE  UploadInv'
<1>1. Asks(upReq[s], files, job, approvals) /\ UploadTables
  BY DEF UploadInv, RequestsFit
<1>2. /\ upDeaths < MaxDeaths /\ upDeaths' = upDeaths + 1 /\ upAstray' = upAstray \cup
           ({upReq[s].at} \ {U!NoId})
      /\ U!Done(s) /\ files' = files /\ charge' = charge /\ items' = items
      /\ approvals' = approvals /\ shown' = shown /\ job' = job /\ upMade' = upMade /\
           raced' = raced
  BY DEF U!Crash, U!rows
<1>3. U!NoId \notin U!Ids /\ upReq[s].at \in U!Ids \cup {U!NoId}
  BY <1>1, ConstantsAre DEF U!Ids, U!NoId, Asks, U!Requests
<1>4. UploadTables' /\ upDeaths <= upDeaths' /\ upDeaths' # 0
  BY <1>1, <1>2, <1>3, ConstantsAre DEF UploadTables
<1>5. \A a \in U!Ids \ upAstray' : ~Patches(a, upReq[s])
  BY <1>2, <1>3 DEF Patches
<1> QED
  BY <1>2, <1>4, <1>5, EndKeeps

\* Who has cleared a file of items or approvals deletes it.
LEMMA Quieter ==
  ASSUME UploadInv, NEW f \in Files
  PROVE  /\ Cleared(f, upReq, files[f]) => Quiet(f, upReq, files[f])
         /\ Dropped(f, upReq, files[f]) => Quiet(f, upReq, files[f])
<1>1. \A s \in Slots : upReq[s].pc \in {"approvals", "row"} => upReq[s].op = "delete"
  BY DEF UploadInv, RequestsFit, Asks
<1> QED
  BY <1>1 DEF Cleared, Dropped, Quiet

\* What a request about approvals works on is not being deleted.
LEMMA NotQuiet ==
  ASSUME UploadInv, NEW f \in Files \ raced, NEW s \in Slots, Acts(upReq[s], f)
  PROVE  ~Quiet(f, upReq, files[f])
  BY DEF UploadInv, InOrder, Orderly

LEMMA ActKeeps ==
  ASSUME U!UploadsAssumption, UploadInv, NEW s \in Slots, NEW A, NEW yes \in BOOLEAN, U!Act(s, A,
           yes)
  PROVE  UploadInv'
<1> DEFINE r == [U!Idle EXCEPT !.op = "act", !.yes = yes, !.todo = A, !.pc = "act"]
<1>1. /\ A # {} /\ A \subseteq approvals /\ upReq[s].pc = "idle" /\ upMade < MaxUploads /\
           upMade' = upMade + 1
      /\ UploadGoesTo(s, r) /\ raced' = raced \cup {f \in {a.file : a \in A} : U!Deleting(f)}
      /\ files' = files /\ charge' = charge /\ items' = items /\ approvals' = approvals
      /\ shown' = shown /\ job' = job /\ upDeaths' = upDeaths /\ upAstray' = upAstray
  BY DEF U!Act, U!Begin, U!At, UploadGoesTo, U!rows
<1>2. /\ r.op = "act" /\ r.pc = "act" /\ r.file = NoFile /\ r.todo = A /\ r.at = U!NoId /\
           r.copy = NoList
      /\ r.yes = yes
  BY DEF U!Idle
<1>3. upReq[s] = U!Idle /\ UploadTables /\ \A a \in approvals : GivenOut(a, job)
  BY <1>1 DEF UploadInv, RequestsFit, Asks, AllGiven
<1>4. r \in U!Requests
  BY <1>1, <1>3 DEF U!Requests, U!Docs, UploadTables, U!Idle
<1> HIDE DEF r
<1>5. Asks(r, files, job, approvals')
  BY <1>1, <1>2, <1>3, <1>4 DEF Asks, Sound
<1>6. UploadTables'
  BY <1>1, <1>3, ConstantsAre DEF UploadTables, U!Ids
<1>7. \A f \in Files : Tame(upReq[s], r) /\ Calm(f, upReq[s], r, items', approvals') /\
        Even(f, upReq[s], r)
  BY <1>2, <1>3, ActIsCalm DEF U!Idle
<1>8. Tame(upReq[s], r)
  BY <1>2 DEF Tame
<1>9. ASSUME NEW f \in Files \ raced', Acts(r, f) PROVE ~Quiet(f, upReq, files[f])
  <2>1. PICK a \in approvals : a.file = f /\ a \in A
    BY <1>1, <1>2, <1>9 DEF Acts
  <2>2. ~U!Deleting(f) /\ f \in Files \ raced
    BY <1>1, <1>9, <2>1
  <2>3. ~Unasked(f, approvals)
    BY <2>1 DEF Unasked
  <2>4. files[f] # "gone"
    BY <2>2, <2>3 DEF UploadInv, InOrder, Orderly, Dropped
  <2> QED
    BY <2>2, <2>4 DEF Quiet, U!Deleting
<1>10. \A a \in U!Ids : KeepsDebts(a, upReq[s], r, approvals, approvals')
  BY <1>1, <1>2, <1>3, IdleAsks DEF KeepsDebts
<1>11. upDeaths <= upDeaths' /\ raced \subseteq raced' /\ upAstray \subseteq upAstray' /\
         approvals' \subseteq approvals
  BY <1>1, <1>3, ConstantsAre DEF UploadTables
<1>12. \A f \in Files : Empty(f, items) => Empty(f, items')
  BY <1>1
<1> QED
  BY <1>1, <1>5, <1>6, <1>7, <1>8, <1>9, <1>10, <1>11, <1>12, PlainStep

LEMMA ApproveKeeps ==
  ASSUME U!UploadsAssumption, UploadInv, NEW s \in Slots, U!Approve(s)
  PROVE  UploadInv'
<1>1. /\ upReq[s].pc = "act" /\ files' = files /\ charge' = charge /\ approvals' = approvals
      /\ shown' = shown /\ job' = job /\ upMade' = upMade /\ upDeaths' = upDeaths /\ raced' = raced
      /\ upAstray' = upAstray
  BY DEF U!Approve, U!At
<1>2. Asks(upReq[s], files, job, approvals) /\ UploadTables /\ upReq \in [Slots -> U!Requests]
  BY DEF UploadInv, RequestsFit
<1>3. PICK a \in upReq[s].todo :
        /\ items' = IF upReq[s].yes THEN items \cup {<<a.file, U!Target(a)>>} ELSE items
        /\ upReq' = [upReq EXCEPT ![s].at = a, ![s].pc = "destroy"]
  BY DEF U!Approve
<1>4. a \in U!Ids
  BY <1>2 DEF Asks, U!Requests
<1>5. a.file \in Files /\ U!Target(a) \in Targets
  BY <1>4, RulesAre
<1> DEFINE r == [upReq[s] EXCEPT !.at = a, !.pc = "destroy"]
<1>6. UploadGoesTo(s, r)
  BY <1>2, <1>3 DEF UploadGoesTo
<1>7. /\ r.op = upReq[s].op /\ r.pc = "destroy" /\ r.file = upReq[s].file /\ r.yes = upReq[s].yes
      /\ r.todo = upReq[s].todo /\ r.at = a /\ r.copy = upReq[s].copy /\ r \in U!Requests
  <2>1. upReq[s] \in U!Requests
    BY <1>2
  <2> QED
    BY <1>4, <2>1 DEF U!Requests
<1> HIDE DEF r
<1>8. Asks(r, files, job, approvals')
  BY <1>1, <1>2, <1>7 DEF Asks
<1>9. UploadTables'
  BY <1>1, <1>2, <1>3, <1>5 DEF UploadTables
<1>10. upReq[s].op \notin {"upload", "delete"} /\ r.op \notin {"upload", "delete"} /\
         r.file = NoFile
  BY <1>1, <1>2, <1>7 DEF Asks
<1>11. \A f \in Files : Calm(f, upReq[s], r, items', approvals') /\ Even(f, upReq[s], r)
  BY <1>7, <1>10, ActIsCalm
<1>12. Tame(upReq[s], r)
  BY <1>7, <1>10 DEF Tame
<1>13. \A f \in Files : Acts(r, f) => Acts(upReq[s], f)
  BY <1>7 DEF Acts
<1>14. ASSUME NEW f \in Files \ raced', Cleared(f, upReq, files[f]), Empty(f, items)
       PROVE  Empty(f, items')
  <2>1. Quiet(f, upReq, files[f]) /\ f \in Files \ raced
    BY <1>1, <1>14, Quieter
  <2>2. f # a.file
    BY <2>1, NotQuiet DEF Acts
  <2> QED
    BY <1>3, <1>14, <2>2 DEF Empty
<1>15. \A b \in U!Ids : KeepsDebts(b, upReq[s], r, approvals, approvals')
  BY <1>1 DEF KeepsDebts, Patches
<1>16. upDeaths <= upDeaths' /\ raced \subseteq raced' /\ upAstray \subseteq upAstray' /\
         approvals' \subseteq approvals
  BY <1>1, <1>2, ConstantsAre DEF UploadTables
<1> QED
  BY <1>1, <1>6, <1>8, <1>9, <1>11, <1>12, <1>13, <1>14, <1>15, <1>16, PlainStep

LEMMA DestroyKeeps ==
  ASSUME U!UploadsAssumption, UploadInv, NEW s \in Slots, U!Destroy(s)
  PROVE  UploadInv'
<1>1. /\ upReq[s].pc = "destroy" /\ U!Goto(s, "patchget") /\ approvals' = approvals \ {upReq[s].at}
      /\ files' = files /\ charge' = charge /\ items' = items /\ shown' = shown
      /\ job' = job /\ upMade' = upMade /\ upDeaths' = upDeaths /\ raced' = raced /\
           upAstray' = upAstray
  BY DEF U!Destroy, U!At
<1>2. PICK r : /\ UploadGoesTo(s, r) /\ r = [upReq[s] EXCEPT !.pc = "patchget"]
               /\ r.op = upReq[s].op /\ r.pc = "patchget" /\ r.file = upReq[s].file /\
                    r.yes = upReq[s].yes
               /\ r.todo = upReq[s].todo /\ r.at = upReq[s].at /\ r.copy = upReq[s].copy
  BY <1>1, GoesOn
<1>3. Asks(upReq[s], files, job, approvals) /\ UploadTables
  BY DEF UploadInv, RequestsFit
<1>4. Asks(r, files, job, approvals')
  BY <1>1, <1>2, <1>3 DEF Asks, U!Requests
<1>5. UploadTables'
  BY <1>1, <1>3 DEF UploadTables
<1>6. upReq[s].op \notin {"upload", "delete"} /\ r.op \notin {"upload", "delete"} /\ r.file = NoFile
  BY <1>1, <1>2, <1>3 DEF Asks
<1>7. \A f \in Files : Calm(f, upReq[s], r, items', approvals') /\ Even(f, upReq[s], r)
  BY <1>2, <1>6, ActIsCalm
<1>8. Tame(upReq[s], r)
  BY <1>2, <1>6 DEF Tame
<1>9. \A f \in Files : (Acts(r, f) => Acts(upReq[s], f)) /\ (Empty(f, items) => Empty(f, items'))
  BY <1>1, <1>2 DEF Acts
<1>10. \A a \in U!Ids : KeepsDebts(a, upReq[s], r, approvals, approvals')
  BY <1>1, <1>2 DEF KeepsDebts, Patches
<1>11. upDeaths <= upDeaths' /\ raced \subseteq raced' /\ upAstray \subseteq upAstray' /\
         approvals' \subseteq approvals
  BY <1>1, <1>3, ConstantsAre DEF UploadTables
<1> QED
  BY <1>1, <1>2, <1>4, <1>5, <1>7, <1>8, <1>9, <1>10, <1>11, PlainStep

LEMMA AfterGoes ==
  ASSUME U!UploadsAssumption, UploadInv, NEW s \in Slots, U!After(s), upReq[s].op = "act"
  PROVE  \E r : /\ UploadGoesTo(s, r) /\ Asks(r, files, job, approvals)
                /\ r.op \notin {"upload", "delete"} /\ r.file = NoFile /\ r.pc \in {"idle", "act"}
                /\ \A f \in Files : Acts(r, f) => Acts(upReq[s], f)
<1>1. Asks(upReq[s], files, job, approvals) /\ upReq \in [Slots -> U!Requests]
  BY DEF UploadInv, RequestsFit
<1> DEFINE left == upReq[s].todo \ {upReq[s].at}
<1>2. CASE left = {}
  <2>1. UploadGoesTo(s, U!Idle)
    BY <1>2 DEF U!After, U!Done, UploadGoesTo
  <2>2. U!Idle.op \notin {"upload", "delete"} /\ U!Idle.file = NoFile /\ U!Idle.pc = "idle"
    BY DEF U!Idle
  <2> QED
    BY <2>1, <2>2, IdleAsks
<1>3. CASE left # {}
  <2> DEFINE r == [upReq[s] EXCEPT !.todo = left, !.at = U!NoId, !.copy = NoList, !.pc = "act"]
  <2>1. UploadGoesTo(s, r)
    BY <1>1, <1>3 DEF U!After, UploadGoesTo
  <2>2. r \in U!Requests
    <3>1. left \in SUBSET U!Ids /\ NoList \in U!Docs /\ upReq[s] \in U!Requests
      BY <1>1 DEF Asks, U!Requests, U!Docs
    <3> HIDE DEF left
    <3> QED
      BY <3>1 DEF U!Requests
  <2>3. /\ r.op = "act" /\ r.file = upReq[s].file /\ r.todo = left /\ r.at = U!NoId /\
             r.copy = NoList
        /\ r.pc = "act"
    BY <1>1 DEF U!Requests
  <2> HIDE DEF r
  <2>4. Asks(r, files, job, approvals) /\ r.file = NoFile
    BY <1>1, <2>2, <2>3 DEF Asks, Sound
  <2>5. \A f \in Files : Acts(r, f) => Acts(upReq[s], f)
    BY <2>3 DEF Acts
  <2> QED
    BY <2>1, <2>3, <2>4, <2>5
<1> QED
  BY <1>2, <1>3

LEMMA PatchGetKeeps ==
  ASSUME U!UploadsAssumption, UploadInv, NEW s \in Slots, U!PatchGet(s)
  PROVE  UploadInv'
<1>1. /\ upReq[s].pc = "patchget" /\ approvals' = approvals /\ files' = files /\ charge' = charge
      /\ items' = items /\ shown' = shown /\ job' = job /\ upMade' = upMade /\
           upDeaths' = upDeaths /\ raced' = raced
  BY DEF U!PatchGet, U!At, U!rows
<1>2. Asks(upReq[s], files, job, approvals) /\ UploadTables /\ upReq \in [Slots -> U!Requests]
  BY DEF UploadInv, RequestsFit
<1>3. upReq[s].op = "act" /\ upReq[s].at \in U!Ids /\ upReq[s].at \notin approvals
  BY <1>1, <1>2 DEF Asks, U!Requests
<1>4. U!Target(upReq[s].at) \in Targets
  BY <1>3, RulesAre
<1>5. upDeaths <= upDeaths' /\ raced \subseteq raced' /\ approvals' \subseteq approvals
  BY <1>1, <1>2, ConstantsAre DEF UploadTables
<1>6. CASE shown = NoList /\ U!Done(s) /\ upAstray' = upAstray \cup {upReq[s].at}
  <2>1. UploadTables' /\ upAstray \subseteq upAstray' /\ \A a \in U!Ids \ upAstray' :
          ~Patches(a, upReq[s])
    BY <1>1, <1>2, <1>3, <1>6 DEF UploadTables, Patches
  <2> QED
    BY <1>1, <1>3, <1>5, <1>6, <2>1, EndKeeps
<1>7. CASE /\ shown # NoList /\ U!After(s) /\ upAstray' = upAstray \cup
                {b \in {upReq[s].at} : upReq[s].at \in U!Listed(shown)}
  <2>1. PICK r : /\ UploadGoesTo(s, r) /\ Asks(r, files, job, approvals)
                 /\ r.op \notin {"upload", "delete"} /\ r.file = NoFile /\ r.pc \in {"idle", "act"}
                 /\ \A f \in Files : Acts(r, f) => Acts(upReq[s], f)
    BY <1>3, <1>7, AfterGoes
  <2>2. UploadTables' /\ upAstray \subseteq upAstray'
    BY <1>1, <1>2, <1>3, <1>7 DEF UploadTables
  <2>3. \A f \in Files : Calm(f, upReq[s], r, items', approvals') /\ Even(f, upReq[s], r)
    BY <1>3, <2>1, ActIsCalm
  <2>4. Tame(upReq[s], r)
    BY <2>1 DEF Tame
  <2>5. \A a \in U!Ids \ upAstray' : Fit(a, approvals', shown) \/
          KeepsDebts(a, upReq[s], r, approvals, approvals')
    <3>1. ASSUME NEW a \in U!Ids \ upAstray', Patches(a, upReq[s]) PROVE Fit(a, approvals', shown)
      BY <1>1, <1>3, <1>7, <3>1 DEF Fit, Patches
    <3> QED
      BY <1>1, <3>1 DEF KeepsDebts
  <2>6. Asks(r, files, job, approvals') /\ \A f \in Files : Empty(f, items) => Empty(f, items')
    BY <1>1, <2>1
  <2> QED
    BY <1>1, <1>5, <2>1, <2>2, <2>3, <2>4, <2>5, <2>6, PlainStep
<1>8. CASE /\ shown # NoList /\
                upReq' = [upReq EXCEPT ![s].copy = shown, ![s].pc = "patchset"] /\
                  upAstray' = upAstray
  <2> DEFINE r == [upReq[s] EXCEPT !.copy = shown, !.pc = "patchset"]
  <2>1. UploadGoesTo(s, r)
    BY <1>2, <1>8 DEF UploadGoesTo
  <2>2. /\ r.op = "act" /\ r.pc = "patchset" /\ r.file = upReq[s].file
        /\ r.todo = upReq[s].todo /\ r.at = upReq[s].at /\ r.copy = shown /\ r \in U!Requests
    <3>1. upReq[s] \in U!Requests /\ shown \in U!Docs
      BY <1>2 DEF UploadTables
    <3> QED
      BY <1>3, <3>1 DEF U!Requests
  <2> HIDE DEF r
  <2>3. Sound(shown, job)
    BY DEF UploadInv, AllGiven
  <2>4. Asks(r, files, job, approvals') /\ r.file = NoFile
    BY <1>1, <1>2, <1>3, <1>8, <2>2, <2>3 DEF Asks
  <2>5. UploadTables' /\ upAstray \subseteq upAstray'
    BY <1>1, <1>2, <1>8 DEF UploadTables
  <2>6. \A f \in Files : Calm(f, upReq[s], r, items', approvals') /\ Even(f, upReq[s], r)
    BY <1>3, <2>2, <2>4, ActIsCalm
  <2>7. Tame(upReq[s], r)
    BY <2>2 DEF Tame
  <2>8. \A f \in Files : (Acts(r, f) => Acts(upReq[s], f)) /\ (Empty(f, items) => Empty(f, items'))
    BY <1>1, <2>2 DEF Acts
  <2>9. \A a \in U!Ids : KeepsDebts(a, upReq[s], r, approvals, approvals')
    BY <1>1, <2>2 DEF KeepsDebts, Patches
  <2> QED
    BY <1>1, <1>5, <2>1, <2>4, <2>5, <2>6, <2>7, <2>8, <2>9, PlainStep
<1> QED
  BY <1>6, <1>7, <1>8 DEF U!PatchGet

LEMMA RegenGetKeeps ==
  ASSUME U!UploadsAssumption, UploadInv, NEW s \in Slots, U!RegenGet(s)
  PROVE  UploadInv'
<1>1. /\ upReq[s].pc = "idle" /\ approvals' = approvals /\ files' = files /\ charge' = charge
      /\ items' = items /\ shown' = shown /\ job' = job /\ upMade' = upMade /\ upDeaths' = upDeaths
      /\ raced' = raced /\ upAstray' = upAstray
  BY DEF U!RegenGet, U!At, U!rows
<1>2. PICK N \in SUBSET {U!Target(a) : a \in U!Waiting} :
        upReq' = [upReq EXCEPT ![s] = [U!Idle EXCEPT !.op = "regen", !.pc = "regenset",
          !.copy = [k \in U!Keys |->
            {a \in U!Waiting : k = IF U!Target(a) \in N THEN U!Nameless ELSE U!Target(a)}]]]
  BY DEF U!RegenGet
<1> DEFINE d == [k \in U!Keys |-> {a \in U!Waiting :
  k = IF U!Target(a) \in N THEN U!Nameless ELSE U!Target(a)}]
           r == [U!Idle EXCEPT !.op = "regen", !.pc = "regenset", !.copy = d]
<1>3. upReq[s] = U!Idle /\ UploadTables /\ \A a \in approvals : GivenOut(a, job)
  BY <1>1 DEF UploadInv, RequestsFit, Asks, AllGiven
<1>4. U!Waiting \subseteq approvals /\ U!Waiting \subseteq U!Ids
  BY <1>3 DEF U!Waiting, UploadTables
<1>5. d \in [U!Keys -> SUBSET U!Ids]
  BY <1>4
<1>6. Sound(d, job)
  <2>1. \A k \in U!Keys : \A a \in d[k] : a \in U!Waiting /\
          k = IF U!Target(a) \in N THEN U!Nameless ELSE U!Target(a)
    OBVIOUS
  <2> HIDE DEF d
  <2>2. \A k \in U!Keys : \A a \in d[k] : GivenOut(a, job)
    BY <1>3, <1>4, <2>1
  <2>3. \A k \in U!Keys \ {U!Nameless} : \A a \in d[k] : U!Target(a) = k
    BY <2>1
  <2> QED
    BY <2>2, <2>3 DEF Sound
<1>7. d \in U!Docs /\ d # NoList
  BY <1>5, ConstantsAre DEF U!Docs
<1>8. UploadGoesTo(s, r)
  BY <1>2 DEF UploadGoesTo
<1> HIDE DEF d
<1>9. /\ r.op = "regen" /\ r.pc = "regenset" /\ r.file = NoFile /\ r.todo = {} /\ r.at = U!NoId
      /\ r.copy = d /\ r \in U!Requests
  BY <1>7 DEF U!Idle, U!Requests
<1> HIDE DEF r
<1>10. Asks(r, files, job, approvals')
  BY <1>1, <1>6, <1>7, <1>9 DEF Asks
<1>11. UploadTables' /\ upDeaths <= upDeaths' /\ raced \subseteq raced' /\
         upAstray \subseteq upAstray' /\ approvals' \subseteq approvals
  BY <1>1, <1>3, ConstantsAre DEF UploadTables
<1>12. \A f \in Files : Calm(f, upReq[s], r, items', approvals') /\ Even(f, upReq[s], r)
  <2>1. upReq[s].op = "none"
    BY <1>3 DEF U!Idle
  <2> QED
    BY <1>9, <2>1, ActIsCalm
<1>13. Tame(upReq[s], r)
  BY <1>9 DEF Tame
<1>14. \A f \in Files : ~Acts(r, f) /\ (Empty(f, items) => Empty(f, items'))
  BY <1>1, <1>9 DEF Acts
<1>15. \A a \in U!Ids : KeepsDebts(a, upReq[s], r, approvals, approvals')
  BY <1>1, <1>3, IdleAsks DEF KeepsDebts
<1> QED
  BY <1>1, <1>8, <1>10, <1>11, <1>12, <1>13, <1>14, <1>15, PlainStep

\* addToCollection and removeFromCollection.
LEMMA PutKeeps ==
  ASSUME U!UploadsAssumption, UploadInv, NEW s \in Slots, NEW f \in Files, U!Put(s, f)
  PROVE  UploadInv'
<1> DEFINE r == [U!Idle EXCEPT !.op = "put", !.file = f, !.pc = "create"]
<1>1. /\ files[f] = "kept" /\ upReq[s].pc = "idle" /\ upMade < MaxUploads /\ upMade' = upMade + 1
      /\ UploadGoesTo(s, r) /\ raced' = IF U!Deleting(f) THEN raced \cup {f} ELSE raced
      /\ files' = files /\ charge' = charge /\ items' = items /\ approvals' = approvals
      /\ shown' = shown /\ job' = job /\ upDeaths' = upDeaths /\ upAstray' = upAstray
  BY DEF U!Put, U!Begin, U!At, UploadGoesTo, U!rows
<1>2. /\ r.op = "put" /\ r.pc = "create" /\ r.file = f /\ r.todo = {} /\ r.at = U!NoId /\
           r.copy = NoList
      /\ r \in U!Requests
  BY DEF U!Idle, U!Requests, U!Docs
<1> HIDE DEF r
<1>3. upReq[s] = U!Idle /\ UploadTables
  BY <1>1 DEF UploadInv, RequestsFit, Asks
<1>4. Asks(r, files, job, approvals')
  BY <1>1, <1>2 DEF Asks, Sound
<1>5. UploadTables' /\ upDeaths <= upDeaths' /\ raced \subseteq raced' /\
        upAstray \subseteq upAstray' /\ approvals' \subseteq approvals
  BY <1>1, <1>3, ConstantsAre DEF UploadTables
<1>6. \A g \in Files : Calm(g, upReq[s], r, items', approvals') /\ Even(g, upReq[s], r)
  BY <1>2, <1>3, ActIsCalm DEF U!Idle
<1>7. Tame(upReq[s], r)
  BY <1>2 DEF Tame
<1>8. ASSUME NEW g \in Files \ raced', Acts(r, g) PROVE ~Quiet(g, upReq, files[g])
  <2>1. g = f
    BY <1>2, <1>8 DEF Acts
  <2>2. ~U!Deleting(f)
    BY <1>1, <1>8, <2>1
  <2> QED
    BY <1>1, <2>1, <2>2 DEF Quiet, U!Deleting
<1>9. \A a \in U!Ids : KeepsDebts(a, upReq[s], r, approvals, approvals')
  BY <1>1, <1>2, <1>3, IdleAsks DEF KeepsDebts
<1>10. \A g \in Files : Empty(g, items) => Empty(g, items')
  BY <1>1
<1> QED
  BY <1>1, <1>4, <1>5, <1>6, <1>7, <1>8, <1>9, <1>10, PlainStep

LEMMA CreateKeeps ==
  ASSUME U!UploadsAssumption, UploadInv, NEW s \in Slots, U!Create(s)
  PROVE  UploadInv'
<1>1. /\ upReq[s].pc = "create" /\ UploadGoesTo(s, U!Idle)
      /\ files' = files /\ charge' = charge /\ approvals' = approvals /\ shown' = shown
      /\ job' = job /\ upMade' = upMade /\ upDeaths' = upDeaths /\ raced' = raced
      /\ upAstray' = upAstray
  BY DEF U!Create, U!At, U!Done, UploadGoesTo
<1>2. PICK c \in Targets : items' = items \cup {<<upReq[s].file, c>>}
  BY DEF U!Create
<1>3. Asks(upReq[s], files, job, approvals) /\ UploadTables
  BY DEF UploadInv, RequestsFit
<1>4. upReq[s].op = "put" /\ upReq[s].file \in Files
  BY <1>1, <1>3 DEF Asks
<1>5. UploadTables' /\ upDeaths <= upDeaths' /\ raced \subseteq raced' /\
        upAstray \subseteq upAstray' /\ approvals' \subseteq approvals
  BY <1>1, <1>2, <1>3, <1>4, ConstantsAre DEF UploadTables
<1>6. ASSUME NEW g \in Files \ raced', Cleared(g, upReq, files[g]), Empty(g, items)
      PROVE  Empty(g, items')
  <2>1. Quiet(g, upReq, files[g]) /\ g \in Files \ raced
    BY <1>1, <1>6, Quieter
  <2>2. g # upReq[s].file
    BY <1>4, <2>1, NotQuiet DEF Acts
  <2> QED
    BY <1>2, <1>6, <2>2 DEF Empty
<1>7. Tame(upReq[s], U!Idle) /\ Asks(U!Idle, files, job, approvals')
  BY IdleAsks
<1>8. \A g \in Files : /\ ~Acts(U!Idle, g) /\ Even(g, upReq[s], U!Idle)
                       /\ Calm(g, upReq[s], U!Idle, items', approvals')
  BY <1>4, IdleAsks DEF Even, Concerns
<1>9. \A a \in U!Ids : KeepsDebts(a, upReq[s], U!Idle, approvals, approvals')
  BY <1>1, <1>4 DEF KeepsDebts, Patches
<1> QED
  BY <1>1, <1>5, <1>6, <1>7, <1>8, <1>9, PlainStep

LEMMA TakeKeeps ==
  ASSUME U!UploadsAssumption, UploadInv, NEW s \in Slots, NEW f \in Files, NEW c \in Targets,
         U!Take(s, f, c)
  PROVE  UploadInv'
<1>1. /\ upReq[s].pc = "idle" /\ upMade < MaxUploads /\ upMade' = upMade + 1 /\ upReq' = upReq
      /\ approvals' = approvals /\ files' = files /\ charge' = charge
      /\ shown' = shown /\ job' = job /\ upDeaths' = upDeaths /\ upAstray' = upAstray
      /\ items' = items \ {<<f, c>>} /\ raced' = raced
  BY DEF U!Take, U!At
<1>2. UploadTables /\ upReq \in [Slots -> U!Requests] /\ upReq[s] = U!Idle
  BY <1>1 DEF UploadInv, RequestsFit, Asks
<1>3. UploadGoesTo(s, U!Idle)
  BY <1>1, <1>2 DEF UploadGoesTo
<1>4. UploadTables' /\ upDeaths <= upDeaths' /\ raced \subseteq raced' /\
        upAstray \subseteq upAstray' /\ approvals' \subseteq approvals
  BY <1>1, <1>2, ConstantsAre DEF UploadTables
<1>5. \A g \in Files : Empty(g, items) => Empty(g, items')
  BY <1>1 DEF Empty
<1>6. Tame(upReq[s], U!Idle) /\ Asks(U!Idle, files, job, approvals') /\ \A g \in Files :
        ~Acts(U!Idle, g)
  BY IdleAsks
<1>7. \A g \in Files : Calm(g, upReq[s], U!Idle, items', approvals') /\ Even(g, upReq[s], U!Idle)
  BY <1>2, IdleAsks DEF Even
<1>8. \A a \in U!Ids : KeepsDebts(a, upReq[s], U!Idle, approvals, approvals')
  BY <1>1, <1>2 DEF KeepsDebts
<1> QED
  BY <1>1, <1>3, <1>4, <1>5, <1>6, <1>7, <1>8, PlainStep

\* Nothing is known of a file before its upload.
LEMMA NoTrace ==
  ASSUME U!UploadsAssumption, UploadInv, NEW f \in Files, files[f] = "none"
  PROVE  /\ \A s \in Slots : ~Concerns(upReq[s], f) /\ ~Acts(upReq[s], f)
         /\ job[f].pc = "none" /\ Unasked(f, approvals)
         /\ shown # NoList => \A a \in U!Listed(shown) : a.file # f
<1>1. job[f].pc = "none" /\ job[f].run = 0
  BY DEF UploadInv, JobsFit, Scans
<1>2. \A a \in U!Ids : a.file = f => ~GivenOut(a, job)
  BY <1>1 DEF U!Ids, GivenOut, Passed
<1>3. ASSUME NEW s \in Slots PROVE ~Concerns(upReq[s], f) /\ ~Acts(upReq[s], f)
  <2>1. Asks(upReq[s], files, job, approvals)
    BY DEF UploadInv, RequestsFit
  <2>2. upReq[s].todo \subseteq U!Ids
    BY <2>1 DEF Asks, U!Requests
  <2> QED
    BY <1>2, <2>1, <2>2 DEF Asks, Concerns, Acts
<1>4. Unasked(f, approvals)
  BY <1>2 DEF UploadInv, UploadTables, AllGiven, Unasked
<1>5. ASSUME shown # NoList, NEW a \in U!Listed(shown) PROVE a.file # f
  <2>1. PICK k \in U!Keys : a \in shown[k]
    BY <1>5 DEF U!Listed
  <2>2. a \in U!Ids /\ GivenOut(a, job)
    BY <1>5, <2>1 DEF UploadInv, UploadTables, U!Docs, AllGiven, Sound
  <2> QED
    BY <1>2, <2>2
<1> QED
  BY <1>1, <1>3, <1>4, <1>5

LEMMA UploadKeeps ==
  ASSUME U!UploadsAssumption, UploadInv, NEW s \in Slots, NEW f \in Files, U!Upload(s, f)
  PROVE  UploadInv'
<1> DEFINE r == [U!Idle EXCEPT !.op = "upload", !.file = f, !.pc = "charge"]
<1>1. /\ files[f] = "none" /\ upReq[s].pc = "idle" /\ upMade < MaxUploads /\ upMade' = upMade + 1
      /\ UploadGoesTo(s, r) /\ files' = [files EXCEPT ![f] = "kept"] /\ charge' = charge /\
           items' = items
      /\ approvals' = approvals /\ shown' = shown /\ job' = job /\ upDeaths' = upDeaths /\
           raced' = raced
      /\ upAstray' = upAstray
  BY DEF U!Upload, U!Begin, U!At, UploadGoesTo
<1>2. /\ r.op = "upload" /\ r.pc = "charge" /\ r.file = f /\ r.todo = {} /\ r.at = U!NoId /\
           r.copy = NoList
      /\ r \in U!Requests
  BY DEF U!Idle, U!Requests, U!Docs
<1> HIDE DEF r
<1>3. upReq[s] = U!Idle /\ UploadTables /\ upReq \in [Slots -> U!Requests]
  BY <1>1 DEF UploadInv, RequestsFit, Asks
<1>4. /\ \A t \in Slots : ~Concerns(upReq[t], f) /\ ~Acts(upReq[t], f)
      /\ job[f].pc = "none" /\ Unasked(f, approvals)
      /\ shown # NoList => \A a \in U!Listed(shown) : a.file # f
  BY <1>1, NoTrace
<1>5. files' \in [Files -> {"none", "kept", "gone"}] /\ \A g \in Files :
        files'[g] = IF g = f THEN "kept" ELSE files[g]
  BY <1>1, <1>3 DEF UploadTables
<1>6. \A t \in Slots : upReq'[t] = IF t = s THEN r ELSE upReq[t]
  BY <1>1, <1>3 DEF UploadGoesTo
<1>7. UploadTables'
  BY <1>1, <1>3, <1>5, ConstantsAre DEF UploadTables
<1>8. Asks(r, files', job', approvals')
  BY <1>2, <1>5 DEF Asks, Sound
<1>9. Onward
  BY <1>1, <1>5 DEF Onward
<1>10. RequestsFit'
  BY <1>1, <1>8, <1>9, SameScan, RequestsKeep
<1>11. JobsFit' /\ AllGiven'
  BY <1>1, <1>5, JobsStay, GivenKeeps
<1>12. Uploading'
  <2>1. \A t \in Slots : upReq[t].op = "upload" => upReq[t].file # f
    BY <1>4 DEF Concerns
  <2> QED
    BY <1>1, <1>2, <1>4, <1>6, <2>1 DEF UploadInv, Uploading
<1>13. Undercharged'
  <2>1. \A g \in Files : ChargeFits(charge[g], files[g], upReq, g) /\ charge[g] \in Int
    BY <1>3 DEF UploadInv, Undercharged, UploadTables
  <2>2. \A g \in Files : g # f => /\ Charging(upReq', g) => Charging(upReq, g)
                                  /\ Refunded(upReq', g) => Refunded(upReq, g)
    BY <1>2, <1>6 DEF Charging, Refunded
  <2>3. ~Refunded(upReq', f)
    <3>1. \A t \in Slots : upReq[t].pc \in {"items", "approvals", "row"} => upReq[t].op = "delete"
      BY DEF UploadInv, RequestsFit, Asks
    <3> QED
      BY <1>2, <1>4, <1>6, <3>1 DEF Refunded, Concerns
  <2>4. charge[f] <= 0
    BY <1>1, <2>1 DEF ChargeFits
  <2>5. ASSUME NEW g \in Files PROVE ChargeFits(charge[g], files'[g], upReq', g)
    BY <1>5, <2>1, <2>2, <2>3, <2>4 DEF ChargeFits
  <2> QED
    BY <1>1, <2>5 DEF Undercharged
<1>14. ASSUME NEW g \in Files \ raced'
       PROVE  Orderly(g, upReq', files'[g], job'[g], items', approvals')
  <2>1. CASE g = f
    <3>1. \A t \in Slots : Concerns(upReq'[t], f) => t = s
      BY <1>4, <1>6
    <3>2. \A t \in Slots : upReq'[t].op = "delete" => upReq'[t].file # f
      BY <1>2, <1>4, <1>6 DEF Concerns
    <3>3. \A t \in Slots : upReq[t].pc \in {"approvals", "row"} => upReq[t].op = "delete"
      BY DEF UploadInv, RequestsFit, Asks
    <3>4. \A t \in Slots : upReq'[t].pc \in {"approvals", "row"} => upReq'[t].file # f
      BY <1>2, <1>4, <1>6, <3>3 DEF Concerns
    <3>5. files'[f] = "kept"
      BY <1>5
    <3>6. ~Quiet(f, upReq', files'[f]) /\ ~Cleared(f, upReq', files'[f]) /\
            ~Dropped(f, upReq', files'[f])
      BY <3>2, <3>4, <3>5 DEF Quiet, Cleared, Dropped
    <3> QED
      BY <2>1, <3>1, <3>5, <3>6 DEF Orderly
  <2>2. CASE g # f
    <3>1. g \in Files \ raced /\ files'[g] = files[g] /\ ~Concerns(r, g) /\ ~Acts(r, g)
      BY <1>1, <1>2, <1>5, <2>2 DEF Concerns, Acts
    <3> QED
      BY <1>1, <1>2, <3>1, OrderKeeps
  <2> QED
    BY <2>1, <2>2
<1>15. ASSUME NEW g \in Files \ raced', upDeaths' = 0 PROVE Exact(g, upReq', files'[g], charge'[g])
  <2>1. CASE g = f
    <3>1. Exact(f, upReq, files[f], charge[f])
      BY <1>1, <1>15, <2>1 DEF UploadInv, AllExact
    <3>2. charge[f] = 0
      BY <1>1, <1>4, <3>1 DEF Exact
    <3>3. \A t \in Slots : Concerns(upReq'[t], f) => upReq'[t].pc = "charge"
      BY <1>2, <1>4, <1>6
    <3>4. Concerns(upReq'[s], f)
      BY <1>2, <1>6 DEF Concerns
    <3> QED
      BY <1>1, <2>1, <3>2, <3>3, <3>4 DEF Exact
  <2>2. CASE g # f
    <3>1. g \in Files \ raced /\ files'[g] = files[g] /\ ~Concerns(r, g) /\
            ~Concerns(upReq[s], g) /\ upDeaths = 0
      BY <1>1, <1>2, <1>3, <1>5, <1>15, <2>2, IdleAsks DEF Concerns
    <3> QED
      BY <1>1, <3>1, ExactKeeps
  <2> QED
    BY <2>1, <2>2
<1>16. ASSUME NEW a \in U!Ids \ upAstray', files'[a.file] = "kept"
       PROVE  Fit(a, approvals', shown') \/ ListDebt(a, job', upReq')
  <2>1. CASE a.file = f
    BY <1>1, <1>4, <2>1 DEF Fit, Unasked
  <2>2. CASE a.file # f
    <3>1. files[a.file] = "kept" /\ a \in U!Ids \ upAstray
      BY <1>1, <1>5, <1>16, <2>2 DEF U!Ids
    <3>2. ListDebt(a, job, upReq) => ListDebt(a, job', upReq')
      BY <1>1, <1>3, <1>6, IdleAsks DEF ListDebt
    <3> QED
      BY <1>1, <3>1, <3>2 DEF UploadInv, ListFits
  <2> QED
    BY <2>1, <2>2
<1> QED
  BY <1>7, <1>10, <1>11, <1>12, <1>13, <1>14, <1>15, <1>16 DEF UploadInv, InOrder, AllExact,
     ListFits

\* The size of a file is counted, or counted off.
LEMMA CountKeeps ==
  ASSUME U!UploadsAssumption, UploadInv, NEW s \in Slots, NEW r, UploadGoesTo(s, r), UploadTables',
           upReq[s].file \in Files,
         files' = files, items' = items, approvals' = approvals, shown' = shown, job' = job,
         upDeaths' = upDeaths, raced' = raced, upAstray' = upAstray, NEW x \in Int,
         charge' = [charge EXCEPT ![upReq[s].file] = x], Asks(r, files, job, approvals),
         r.op = upReq[s].op, r.file = upReq[s].file, r.todo = upReq[s].todo,
         r.pc \in {"enqueue", "items"}, upReq[s].pc \in {"charge", "refund"},
         ChargeFits(x, files[r.file], upReq', r.file),
         upDeaths = 0 => upReq[s].file \in raced \/ x = IF r.pc = "enqueue" THEN 1 ELSE 0
  PROVE  UploadInv'
<1> DEFINE f == upReq[s].file
<1>1. UploadTables /\ upReq \in [Slots -> U!Requests]
  BY DEF UploadInv, RequestsFit
<1>2. \A g \in Files : charge'[g] = IF g = f THEN x ELSE charge[g]
  BY <1>1 DEF UploadTables
<1>3. \A t \in Slots : upReq'[t] = IF t = s THEN r ELSE upReq[t]
  BY <1>1 DEF UploadGoesTo
<1>4. Onward
  BY DEF Onward
<1>5. RequestsFit'
  BY <1>4, SameScan, RequestsKeep
<1>6. JobsFit' /\ AllGiven' /\ Uploading'
  BY JobsStay, GivenKeeps, UploadingKeeps
<1>7. Undercharged'
  <2>1. \A g \in Files : ChargeFits(charge[g], files[g], upReq, g)
    BY DEF UploadInv, Undercharged
  <2>2. \A g \in Files : g # f => /\ Charging(upReq', g) => Charging(upReq, g)
                                  /\ Refunded(upReq', g) => Refunded(upReq, g)
    BY <1>3 DEF Charging, Refunded
  <2>3. ASSUME NEW g \in Files, g # f PROVE ChargeFits(charge'[g], files'[g], upReq', g)
    BY <1>2, <2>1, <2>2, <2>3 DEF ChargeFits
  <2>4. ChargeFits(charge'[f], files'[f], upReq', f)
    BY <1>2
  <2> QED
    BY <2>3, <2>4 DEF Undercharged
<1>8. ASSUME NEW g \in Files \ raced'
      PROVE  Orderly(g, upReq', files'[g], job'[g], items', approvals')
  <2>1. /\ Concerns(r, g) => Concerns(upReq[s], g) /\ r.op = upReq[s].op
        /\ Acts(r, g) => Acts(upReq[s], g)
        /\ r.pc \notin {"approvals", "row"}
    BY DEF Concerns, Acts
  <2>2. g \in Files \ raced /\ files'[g] = files[g]
    BY <1>8
  <2> QED
    BY <2>1, <2>2, OrderKeeps
<1>9. ASSUME NEW g \in Files \ raced', upDeaths' = 0 PROVE Exact(g, upReq', files'[g], charge'[g])
  <2>1. CASE g = f
    <3>1. Orderly(f, upReq, files[f], job[f], items, approvals)
      BY <1>9, <2>1 DEF UploadInv, InOrder
    <3>2. Concerns(upReq[s], f) /\ Concerns(r, f)
      <4>1. r.op \in {"upload", "delete"}
        BY DEF Asks
      <4> QED
        BY <4>1 DEF Concerns
    <3>3. \A t \in Slots : Concerns(upReq'[t], f) => t = s
      BY <1>3, <3>1, <3>2 DEF Orderly
    <3>4. x = IF r.pc = "enqueue" THEN 1 ELSE 0
      BY <1>9, <2>1
    <3>5. charge'[f] = x /\ upReq'[s] = r
      BY <1>2, <1>3
    <3> QED
      BY <2>1, <3>2, <3>3, <3>4, <3>5 DEF Exact
  <2>2. CASE g # f
    <3>1. g \in Files \ raced /\ charge'[g] = charge[g] /\ ~Concerns(r, g) /\
            ~Concerns(upReq[s], g) /\ upDeaths = 0
      BY <1>2, <1>9, <2>2 DEF Concerns
    <3> QED
      BY <3>1, ExactKeeps
  <2> QED
    BY <2>1, <2>2
<1>10. ListFits'
  <2>1. \A a \in U!Ids \ upAstray' : Asked(a, job[a.file]) => Asked(a, job'[a.file])
    OBVIOUS
  <2>2. \A a : ~Patches(a, upReq[s])
    BY DEF Patches
  <2> QED
    BY <2>1, <2>2, ListKeeps
<1> QED
  BY <1>5, <1>6, <1>7, <1>8, <1>9, <1>10 DEF UploadInv, InOrder, AllExact

LEMMA ChargeKeeps ==
  ASSUME U!UploadsAssumption, UploadInv, NEW s \in Slots, U!Charge(s)
  PROVE  UploadInv'
<1>1. /\ upReq[s].pc = "charge" /\ U!Goto(s, "enqueue") /\
           charge' = [charge EXCEPT ![upReq[s].file] = @ + 1]
      /\ files' = files /\ items' = items /\ approvals' = approvals /\ shown' = shown
      /\ job' = job /\ upMade' = upMade /\ upDeaths' = upDeaths /\ raced' = raced /\
           upAstray' = upAstray
  BY DEF U!Charge, U!At
<1>2. PICK r : /\ UploadGoesTo(s, r) /\ r = [upReq[s] EXCEPT !.pc = "enqueue"]
               /\ r.op = upReq[s].op /\ r.pc = "enqueue" /\ r.file = upReq[s].file /\
                    r.yes = upReq[s].yes
               /\ r.todo = upReq[s].todo /\ r.at = upReq[s].at /\ r.copy = upReq[s].copy
  BY <1>1, GoesOn
<1>3. Asks(upReq[s], files, job, approvals) /\ UploadTables /\ upReq \in [Slots -> U!Requests]
  BY DEF UploadInv, RequestsFit
<1> DEFINE f == upReq[s].file
           x == charge[f] + 1
<1>4. f \in Files /\ charge[f] \in Int /\ upReq[s].op = "upload"
  BY <1>1, <1>3 DEF Asks, UploadTables
<1>5. charge' = [charge EXCEPT ![upReq[s].file] = x] /\ x \in Int
  BY <1>1, <1>3, <1>4 DEF UploadTables
<1>6. Asks(r, files, job, approvals)
  BY <1>1, <1>2, <1>3 DEF Asks, U!Requests
<1>7. UploadTables'
  BY <1>1, <1>3, <1>4 DEF UploadTables
<1>8. ChargeFits(x, files[r.file], upReq', r.file)
  <2>1. ChargeFits(charge[f], files[f], upReq, f)
    BY <1>4 DEF UploadInv, Undercharged
  <2>2. \A t \in Slots : upReq'[t] = IF t = s THEN r ELSE upReq[t]
    BY <1>2, <1>3 DEF UploadGoesTo
  <2>3. Charging(upReq, f)
    BY <1>1 DEF Charging
  <2>4. \A t \in Slots : upReq[t].pc = "charge" /\ upReq[t].file = f => t = s
    BY <1>1, <1>4 DEF UploadInv, RequestsFit, Asks, Uploading
  <2>5. ~Charging(upReq', f) /\ (Refunded(upReq', f) => Refunded(upReq, f))
    BY <1>2, <2>2, <2>4 DEF Charging, Refunded
  <2> QED
    BY <1>2, <1>4, <2>1, <2>3, <2>5 DEF ChargeFits
<1>9. upDeaths = 0 => f \in raced \/ x = 1
  BY <1>1, <1>4 DEF UploadInv, AllExact, Exact, Concerns
<1> HIDE DEF x
<1> QED
  BY <1>1, <1>2, <1>4, <1>5, <1>6, <1>7, <1>8, <1>9, CountKeeps

LEMMA RefundKeeps ==
  ASSUME U!UploadsAssumption, UploadInv, NEW s \in Slots, U!Refund(s)
  PROVE  UploadInv'
<1>1. /\ upReq[s].pc = "refund" /\ U!Goto(s, "items") /\
           charge' = [charge EXCEPT ![upReq[s].file] = @ - 1]
      /\ files' = files /\ items' = items /\ approvals' = approvals /\ shown' = shown
      /\ job' = job /\ upMade' = upMade /\ upDeaths' = upDeaths /\ raced' = raced /\
           upAstray' = upAstray
  BY DEF U!Refund, U!At
<1>2. PICK r : /\ UploadGoesTo(s, r) /\ r = [upReq[s] EXCEPT !.pc = "items"]
               /\ r.op = upReq[s].op /\ r.pc = "items" /\ r.file = upReq[s].file /\
                    r.yes = upReq[s].yes
               /\ r.todo = upReq[s].todo /\ r.at = upReq[s].at /\ r.copy = upReq[s].copy
  BY <1>1, GoesOn
<1>3. Asks(upReq[s], files, job, approvals) /\ UploadTables /\ upReq \in [Slots -> U!Requests]
  BY DEF UploadInv, RequestsFit
<1> DEFINE f == upReq[s].file
           x == charge[f] - 1
<1>4. f \in Files /\ charge[f] \in Int /\ upReq[s].op = "delete"
  BY <1>1, <1>3 DEF Asks, UploadTables
<1>5. charge' = [charge EXCEPT ![upReq[s].file] = x] /\ x \in Int
  BY <1>1, <1>3, <1>4 DEF UploadTables
<1>6. Asks(r, files, job, approvals)
  BY <1>1, <1>2, <1>3 DEF Asks, U!Requests
<1>7. UploadTables'
  BY <1>1, <1>3, <1>4 DEF UploadTables
<1>8. ChargeFits(x, files[r.file], upReq', r.file)
  <2>1. ChargeFits(charge[f], files[f], upReq, f)
    BY <1>4 DEF UploadInv, Undercharged
  <2>2. \A t \in Slots : upReq'[t] = IF t = s THEN r ELSE upReq[t]
    BY <1>2, <1>3 DEF UploadGoesTo
  <2>3. Charging(upReq', f) => Charging(upReq, f)
    BY <1>2, <2>2 DEF Charging
  <2> QED
    BY <1>2, <1>4, <2>1, <2>3 DEF ChargeFits
<1>9. upDeaths = 0 => f \in raced \/ x = 0
  BY <1>1, <1>4 DEF UploadInv, AllExact, Exact, Concerns
<1> HIDE DEF x
<1> QED
  BY <1>1, <1>2, <1>4, <1>5, <1>6, <1>7, <1>8, <1>9, CountKeeps

LEMMA DeleteKeeps ==
  ASSUME U!UploadsAssumption, UploadInv, NEW s \in Slots, NEW f \in Files, U!Delete(s, f)
  PROVE  UploadInv'
<1> DEFINE r == [U!Idle EXCEPT !.op = "delete", !.file = f, !.pc = "refund"]
<1>1. /\ files[f] = "kept" /\ upReq[s].pc = "idle" /\ upMade < MaxUploads /\ upMade' = upMade + 1
      /\ UploadGoesTo(s, r) /\ raced' = IF U!Busy(f) \/ ~U!Ended(f) THEN raced \cup {f} ELSE raced
      /\ files' = files /\ charge' = charge /\ items' = items
      /\ approvals' = approvals /\ shown' = shown /\ job' = job /\ upDeaths' = upDeaths
      /\ upAstray' = upAstray
  BY DEF U!Delete, U!Begin, U!At, UploadGoesTo, U!rows
<1>2. /\ r.op = "delete" /\ r.pc = "refund" /\ r.file = f /\ r.todo = {} /\ r.at = U!NoId /\
           r.copy = NoList
      /\ r \in U!Requests
  BY DEF U!Idle, U!Requests, U!Docs
<1> HIDE DEF r
<1>3. upReq[s] = U!Idle /\ UploadTables /\ upReq \in [Slots -> U!Requests]
  BY <1>1 DEF UploadInv, RequestsFit, Asks
<1>4. \A t \in Slots : upReq'[t] = IF t = s THEN r ELSE upReq[t]
  BY <1>1, <1>3 DEF UploadGoesTo
<1>5. UploadTables' /\ raced \subseteq raced'
  BY <1>1, <1>3, ConstantsAre DEF UploadTables
<1>6. Onward
  BY <1>1 DEF Onward
<1>7. Asks(r, files', job', approvals')
  BY <1>1, <1>2 DEF Asks, Sound
<1>8. RequestsFit' /\ JobsFit' /\ AllGiven'
  BY <1>1, <1>6, <1>7, SameScan, RequestsKeep, JobsStay, GivenKeeps
<1>9. Uploading'
  BY <1>1, <1>2, UploadingKeeps
<1>10. Undercharged'
  BY <1>1, <1>2, ChargesKeep
<1>11. f \notin raced' => /\ U!Ended(f) /\ f \notin raced
                          /\ \A t \in Slots : ~Concerns(upReq[t], f) /\ ~Acts(upReq[t], f)
  <2>1. ASSUME f \notin raced' PROVE ~U!Busy(f) /\ U!Ended(f) /\ f \notin raced
    BY <1>1, <2>1
  <2>2. \A t \in Slots : upReq[t].op # "act" => upReq[t].todo = {}
    BY DEF UploadInv, RequestsFit, Asks
  <2> QED
    BY <2>1, <2>2 DEF U!Busy, Concerns, Acts
<1>12. ASSUME NEW g \in Files \ raced'
       PROVE  Orderly(g, upReq', files'[g], job'[g], items', approvals')
  <2>1. CASE g = f
    <3>1. \A t \in Slots : Concerns(upReq'[t], f) => t = s
      BY <1>4, <1>11, <1>12, <2>1
    <3>2. \A t \in Slots : ~Acts(upReq'[t], f)
      BY <1>2, <1>4, <1>11, <1>12, <2>1 DEF Acts
    <3>3. \A t \in Slots : upReq[t].pc \in {"approvals", "row"} => upReq[t].op = "delete"
      BY DEF UploadInv, RequestsFit, Asks
    <3>4. \A t \in Slots : upReq'[t].pc \in {"approvals", "row"} => upReq'[t].file # f
      BY <1>2, <1>4, <1>11, <1>12, <2>1, <3>3 DEF Concerns
    <3>5. files'[f] = "kept" /\ Over(job'[f])
      BY <1>1, <1>11, <1>12, <2>1 DEF U!Ended, Over
    <3>6. ~Cleared(f, upReq', files'[f]) /\ ~Dropped(f, upReq', files'[f])
      BY <3>4, <3>5 DEF Cleared, Dropped
    <3> QED
      BY <2>1, <3>1, <3>2, <3>5, <3>6 DEF Orderly
  <2>2. CASE g # f
    <3>1. g \in Files \ raced /\ files'[g] = files[g] /\ ~Concerns(r, g) /\ ~Acts(r, g)
      BY <1>1, <1>2, <1>5, <2>2 DEF Concerns, Acts
    <3> QED
      BY <1>1, <1>2, <3>1, OrderKeeps
  <2> QED
    BY <2>1, <2>2
<1>13. ASSUME NEW g \in Files \ raced', upDeaths' = 0 PROVE Exact(g, upReq', files'[g], charge'[g])
  <2>1. CASE g = f
    <3>1. charge[f] = 1
      BY <1>1, <1>11, <1>13, <2>1 DEF UploadInv, AllExact, Exact
    <3>2. \A t \in Slots : Concerns(upReq'[t], f) => upReq'[t].pc = "refund"
      BY <1>2, <1>4, <1>11, <1>13, <2>1
    <3>3. Concerns(upReq'[s], f)
      BY <1>2, <1>4 DEF Concerns
    <3> QED
      BY <1>1, <2>1, <3>1, <3>2, <3>3 DEF Exact
  <2>2. CASE g # f
    <3>1. g \in Files \ raced /\ files'[g] = files[g] /\ ~Concerns(r, g) /\
            ~Concerns(upReq[s], g) /\ upDeaths = 0
      BY <1>1, <1>2, <1>3, <1>5, <1>13, <2>2, IdleAsks DEF Concerns
    <3> QED
      BY <1>1, <3>1, ExactKeeps
  <2> QED
    BY <2>1, <2>2
<1>14. ListFits'
  <2>1. \A a : ~Patches(a, upReq[s])
    BY <1>3, IdleAsks
  <2>2. \A a \in U!Ids \ upAstray' : Asked(a, job[a.file]) => Asked(a, job'[a.file])
    BY <1>1
  <2> QED
    BY <1>1, <2>1, <2>2, ListKeeps
<1> QED
  BY <1>5, <1>8, <1>9, <1>10, <1>12, <1>13, <1>14 DEF UploadInv, InOrder, AllExact

LEMMA DeleteRowKeeps ==
  ASSUME U!UploadsAssumption, UploadInv, NEW s \in Slots, U!DeleteRow(s)
  PROVE  UploadInv'
<1> DEFINE f == upReq[s].file
<1>1. /\ upReq[s].pc = "row" /\ UploadGoesTo(s, U!Idle) /\ files' = [files EXCEPT ![f] = "gone"]
      /\ charge' = charge /\ items' = items /\ raced' = raced
      /\ approvals' = approvals /\ shown' = shown /\ job' = job /\ upMade' = upMade /\
           upDeaths' = upDeaths
      /\ upAstray' = upAstray
  BY DEF U!DeleteRow, U!At, U!Done, UploadGoesTo
<1>2. Asks(upReq[s], files, job, approvals) /\ UploadTables /\ upReq \in [Slots -> U!Requests]
  BY DEF UploadInv, RequestsFit
<1>3. upReq[s].op = "delete" /\ f \in Files /\ files[f] # "none"
  BY <1>1, <1>2 DEF Asks
<1>4. \A g \in Files : files'[g] = IF g = f THEN "gone" ELSE files[g]
  BY <1>1, <1>2 DEF UploadTables
<1>5. \A t \in Slots : upReq'[t] = IF t = s THEN U!Idle ELSE upReq[t]
  BY <1>1, <1>2 DEF UploadGoesTo
<1>6. UploadTables'
  BY <1>1, <1>2 DEF UploadTables
<1>7. Onward
  BY <1>1, <1>4 DEF Onward
<1>8. RequestsFit'
  BY <1>1, <1>7, SameScan, IdleAsks, RequestsKeep
<1>9. JobsFit' /\ AllGiven' /\ Uploading'
  <2>1. Tame(upReq[s], U!Idle)
    BY IdleAsks
  <2> QED
    BY <1>1, <1>4, <2>1, JobsStay, GivenKeeps, UploadingKeeps DEF Tame
<1>10. Undercharged'
  <2>1. \A g \in Files : ChargeFits(charge[g], files[g], upReq, g)
    BY DEF UploadInv, Undercharged
  <2>2. U!Idle.pc = "idle"
    BY DEF U!Idle
  <2>3. \A g \in Files : /\ Charging(upReq', g) => Charging(upReq, g)
                         /\ Refunded(upReq', g) => Refunded(upReq, g)
    BY <1>5, <2>2 DEF Charging, Refunded
  <2>4. Refunded(upReq, f)
    BY <1>1 DEF Refunded
  <2>5. ASSUME NEW g \in Files PROVE ChargeFits(charge[g], files'[g], upReq', g)
    BY <1>4, <2>1, <2>3, <2>4 DEF ChargeFits
  <2> QED
    BY <1>1, <2>5 DEF Undercharged
<1>11. ASSUME NEW g \in Files \ raced'
       PROVE  Orderly(g, upReq', files'[g], job'[g], items', approvals')
  <2>1. CASE g = f
    <3>1. Orderly(f, upReq, files[f], job[f], items, approvals)
      BY <1>1, <1>11, <2>1 DEF UploadInv, InOrder
    <3>2. Quiet(f, upReq, files[f]) /\ Cleared(f, upReq, files[f]) /\ Dropped(f, upReq, files[f])
      BY <1>1, <1>3 DEF Quiet, Cleared, Dropped
    <3>3. Concerns(upReq[s], f)
      BY <1>3 DEF Concerns
    <3>4. \A t \in Slots : ~Concerns(upReq'[t], f) /\ ~Acts(upReq'[t], f)
      BY <1>5, <3>1, <3>2, <3>3, IdleAsks DEF Orderly
    <3>5. Over(job'[f]) /\ Empty(f, items') /\ Unasked(f, approvals')
      BY <1>1, <3>1, <3>2 DEF Orderly
    <3> QED
      BY <2>1, <3>4, <3>5 DEF Orderly
  <2>2. CASE g # f
    <3>1. g \in Files \ raced /\ files'[g] = files[g] /\ ~Acts(U!Idle, g) /\
            Calm(g, upReq[s], U!Idle, items', approvals')
      BY <1>1, <1>4, <1>11, <2>2, IdleAsks
    <3> QED
      BY <1>1, <3>1, OrderKeeps DEF Calm
  <2> QED
    BY <2>1, <2>2
<1>12. ASSUME NEW g \in Files \ raced', upDeaths' = 0 PROVE Exact(g, upReq', files'[g], charge'[g])
  <2>1. CASE g = f
    <3>1. Orderly(f, upReq, files[f], job[f], items, approvals) /\
            Exact(f, upReq, files[f], charge[f])
      BY <1>1, <1>12, <2>1 DEF UploadInv, InOrder, AllExact
    <3>2. Concerns(upReq[s], f)
      BY <1>3 DEF Concerns
    <3>3. \A t \in Slots : ~Concerns(upReq'[t], f)
      BY <1>5, <3>1, <3>2, IdleAsks DEF Orderly
    <3>4. charge[f] = 0
      BY <1>1, <3>1, <3>2 DEF Exact
    <3> QED
      BY <1>1, <1>4, <2>1, <3>3, <3>4 DEF Exact
  <2>2. CASE g # f
    <3>1. g \in Files \ raced /\ files'[g] = files[g] /\ ~Concerns(U!Idle, g) /\
            ~Concerns(upReq[s], g) /\ upDeaths = 0
      BY <1>1, <1>4, <1>12, <2>2, IdleAsks DEF Concerns
    <3> QED
      BY <1>1, <3>1, ExactKeeps
  <2> QED
    BY <2>1, <2>2
<1>13. ListFits'
  <2>1. \A a : ~Patches(a, upReq[s])
    BY <1>1 DEF Patches
  <2>2. \A a \in U!Ids \ upAstray' : Asked(a, job[a.file]) => Asked(a, job'[a.file])
    BY <1>1
  <2>3. \A g \in Files : files'[g] = "kept" => files[g] = "kept"
    BY <1>4
  <2> QED
    BY <1>1, <2>1, <2>2, <2>3, ListKeeps
<1> QED
  BY <1>6, <1>8, <1>9, <1>10, <1>11, <1>12, <1>13 DEF UploadInv, InOrder, AllExact

LEMMA PatchSetKeeps ==
  ASSUME U!UploadsAssumption, UploadInv, NEW s \in Slots, U!PatchSet(s)
  PROVE  UploadInv'
<1> DEFINE a == upReq[s].at
           copy == upReq[s].copy
           doc == [copy EXCEPT ![U!Target(a)] = @ \ {a}]
<1>1. /\ upReq[s].pc = "patchset" /\ shown' = doc /\ U!After(s)
      /\ upAstray' = upAstray \cup U!Lost(copy, shown) \cup {b \in {a} : a \in doc[U!Nameless]}
      /\ approvals' = approvals /\ files' = files /\ charge' = charge /\ items' = items /\
           job' = job
      /\ upMade' = upMade /\ upDeaths' = upDeaths /\ raced' = raced
  BY DEF U!PatchSet, U!At, U!rows
<1>2. Asks(upReq[s], files, job, approvals) /\ UploadTables /\ upReq \in [Slots -> U!Requests]
  BY DEF UploadInv, RequestsFit
<1>3. /\ upReq[s].op = "act" /\ a \in U!Ids /\ a \notin approvals /\ copy # NoList /\
           Sound(copy, job)
      /\ copy \in [U!Keys -> SUBSET U!Ids]
  BY <1>1, <1>2 DEF Asks, U!Requests, U!Docs
<1>4. U!Target(a) \in U!Keys
  BY <1>3, RulesAre
<1>5. doc \in [U!Keys -> SUBSET U!Ids] /\ \A k \in U!Keys :
        doc[k] = IF k = U!Target(a) THEN copy[k] \ {a} ELSE copy[k]
  BY <1>3, <1>4
<1>6. Sound(doc, job) /\ doc \in U!Docs /\ doc # NoList
  <2>1. \A k \in U!Keys : doc[k] \subseteq copy[k]
    BY <1>5
  <2>2. doc \in U!Docs /\ doc # NoList
    BY <1>5, ConstantsAre DEF U!Docs
  <2> HIDE DEF doc
  <2> QED
    BY <1>3, <2>1, <2>2 DEF Sound
<1>7. PICK r : /\ UploadGoesTo(s, r) /\ Asks(r, files, job, approvals)
               /\ r.op \notin {"upload", "delete"} /\ r.file = NoFile /\ r.pc \in {"idle", "act"}
               /\ \A f \in Files : Acts(r, f) => Acts(upReq[s], f)
  BY <1>1, <1>3, AfterGoes
<1>8. \A t \in Slots : upReq'[t] = IF t = s THEN r ELSE upReq[t]
  BY <1>2, <1>7 DEF UploadGoesTo
<1> HIDE DEF doc
<1>9. U!Lost(copy, shown) \subseteq U!Ids
  BY <1>2, <1>3 DEF U!Lost, U!Listed, UploadTables, U!Docs
<1>10. UploadTables'
  BY <1>1, <1>2, <1>3, <1>6, <1>9 DEF UploadTables
<1>11. AllGiven'
  BY <1>1, <1>6 DEF AllGiven, UploadInv
<1>12. ASSUME NEW b \in U!Ids \ upAstray', files'[b.file] = "kept"
       PROVE  Fit(b, approvals', shown') \/ ListDebt(b, job', upReq')
  <2>1. b \in U!Ids \ upAstray /\ b \notin U!Lost(copy, shown) /\ files[b.file] = "kept"
    BY <1>1, <1>12
  <2>2. b \in U!Listed(copy) <=> shown # NoList /\ b \in U!Listed(shown)
    BY <1>3, <2>1 DEF U!Lost
  <2>3. CASE b = a
    <3>1. a \notin doc[U!Nameless]
      BY <1>1, <1>12, <2>3
    <3>2. ASSUME NEW k \in U!Keys, a \in doc[k] PROVE FALSE
      <4>1. k # U!Nameless /\ a \in copy[k] /\ k # U!Target(a)
        BY <1>5, <3>1, <3>2
      <4> QED
        BY <1>3, <4>1 DEF Sound
    <3>3. a \notin U!Listed(doc)
      BY <3>2 DEF U!Listed
    <3> QED
      BY <1>1, <1>3, <2>3, <3>3 DEF Fit
  <2>4. CASE b # a
    <3>1. \A k \in U!Keys : b \in doc[k] <=> b \in copy[k]
      BY <1>5, <2>4
    <3>2. b \in U!Listed(doc) <=> b \in U!Listed(copy)
      BY <3>1 DEF U!Listed
    <3>3. Fit(b, approvals, shown) => Fit(b, approvals', shown')
      BY <1>1, <1>6, <2>2, <3>2 DEF Fit
    <3>4. ListDebt(b, job, upReq) => ListDebt(b, job', upReq')
      BY <1>1, <1>8, <2>4 DEF ListDebt, Patches
    <3>5. Fit(b, approvals, shown) \/ ListDebt(b, job, upReq)
      BY <2>1 DEF UploadInv, ListFits
    <3> QED
      BY <3>3, <3>4, <3>5
  <2> QED
    BY <2>3, <2>4
<1>13. ListFits'
  BY <1>12 DEF ListFits
<1>14. \A f \in Files : Calm(f, upReq[s], r, items', approvals') /\ Even(f, upReq[s], r)
  BY <1>3, <1>7, ActIsCalm
<1>15. Tame(upReq[s], r)
  BY <1>7 DEF Tame
<1>16. upDeaths <= upDeaths' /\ raced \subseteq raced' /\ approvals' \subseteq approvals
  BY <1>1, <1>2, ConstantsAre DEF UploadTables
<1>17. Asks(r, files, job, approvals') /\ \A f \in Files : Empty(f, items) => Empty(f, items')
  BY <1>1, <1>7
<1> QED
  BY <1>1, <1>7, <1>10, <1>11, <1>13, <1>14, <1>15, <1>16, <1>17, RequestStep

LEMMA RegenSetKeeps ==
  ASSUME U!UploadsAssumption, UploadInv, NEW s \in Slots, U!RegenSet(s)
  PROVE  UploadInv'
<1> DEFINE doc == upReq[s].copy
<1>1. /\ upReq[s].pc = "regenset" /\ shown' = doc /\ UploadGoesTo(s, U!Idle)
      /\ upAstray' = {a \in U!Ids : a \in doc[U!Nameless] \/
           ~(a \in U!Waiting <=> a \in U!Listed(doc))}
      /\ approvals' = approvals /\ files' = files /\ charge' = charge /\ items' = items /\
           job' = job
      /\ upMade' = upMade /\ upDeaths' = upDeaths /\ raced' = raced
  BY DEF U!RegenSet, U!At, U!rows, U!Done, UploadGoesTo
<1>2. Asks(upReq[s], files, job, approvals) /\ UploadTables /\ upReq \in [Slots -> U!Requests]
  BY DEF UploadInv, RequestsFit
<1>3. doc \in U!Docs /\ doc # NoList /\ Sound(doc, job) /\
        upReq[s].op \notin {"upload", "delete", "act"}
  BY <1>1, <1>2 DEF Asks, U!Requests
<1>4. UploadTables'
  BY <1>1, <1>2, <1>3 DEF UploadTables
<1>5. AllGiven'
  BY <1>1, <1>3 DEF AllGiven, UploadInv
<1>6. ASSUME NEW a \in U!Ids \ upAstray', files'[a.file] = "kept"
      PROVE  Fit(a, approvals', shown') \/ ListDebt(a, job', upReq')
  <2>1. a \in U!Waiting <=> a \in U!Listed(doc)
    BY <1>1, <1>6
  <2>2. a \in U!Waiting <=> a \in approvals
    BY <1>1, <1>6 DEF U!Waiting
  <2> QED
    BY <1>1, <1>3, <2>1, <2>2 DEF Fit
<1>7. ListFits'
  BY <1>6 DEF ListFits
<1>8. \A f \in Files : Calm(f, upReq[s], U!Idle, items', approvals') /\ Even(f, upReq[s], U!Idle)
  BY <1>3, IdleAsks DEF Even, Concerns
<1>9. Tame(upReq[s], U!Idle) /\ Asks(U!Idle, files, job, approvals') /\ \A f \in Files :
        ~Acts(U!Idle, f)
  BY IdleAsks
<1>10. upDeaths <= upDeaths' /\ raced \subseteq raced' /\ approvals' \subseteq approvals
  BY <1>1, <1>2, ConstantsAre DEF UploadTables
<1>11. \A f \in Files : Empty(f, items) => Empty(f, items')
  BY <1>1
<1> QED
  BY <1>1, <1>4, <1>5, <1>7, <1>8, <1>9, <1>10, <1>11, RequestStep

\* The scan of f becomes j.
LEMMA JobMoves ==
  ASSUME UploadInv, NEW f \in Files, NEW j, job' = [job EXCEPT ![f] = j], files' = files,
         Scans(j, files[f], job), Later(job[f], j)
  PROVE  /\ JobsFit' /\ \A g \in Files : Later(job[g], job'[g])
         /\ \A g \in Files : job'[g] = IF g = f THEN j ELSE job[g]
<1>1. job \in [Files -> U!Jobs] /\ \A g \in Files : Scans(job[g], files[g], job)
  BY DEF UploadInv, JobsFit
<1>2. \A g \in Files : job'[g] = IF g = f THEN j ELSE job[g]
  BY <1>1
<1>3. \A g \in Files : Later(job[g], job'[g])
  BY <1>2, SameScan
<1>4. job' \in [Files -> U!Jobs]
  BY <1>1 DEF Scans
<1>5. ASSUME NEW g \in Files PROVE Scans(job'[g], files'[g], job')
  <2>1. Scans(job'[g], files[g], job)
    BY <1>1, <1>2
  <2>2. job'[g].copy \in U!Docs
    BY <1>4 DEF U!Jobs
  <2>3. \A d \in U!Docs : Sound(d, job) => Sound(d, job')
    BY <1>3, GivenStays
  <2>4. Sound(job'[g].copy, job')
    BY <2>1, <2>2, <2>3 DEF Scans
  <2> QED
    BY <2>1, <2>4 DEF Scans
<1> QED
  BY <1>2, <1>3, <1>4, <1>5 DEF JobsFit

LEMMA GivenFollows ==
  ASSUME UploadInv, \A g \in Files : Later(job[g], job'[g]), shown' = shown, approvals' = approvals
  PROVE  AllGiven'
<1>1. approvals \subseteq U!Ids /\ shown \in U!Docs
  BY DEF UploadInv, UploadTables
<1> QED
  BY <1>1, GivenStays DEF UploadInv, AllGiven

LEMMA EnqueueKeeps ==
  ASSUME U!UploadsAssumption, UploadInv, NEW s \in Slots, U!Enqueue(s)
  PROVE  UploadInv'
<1> DEFINE f == upReq[s].file
           j == [job[f] EXCEPT !.pc = "waiting"]
<1>1. /\ upReq[s].pc = "enqueue" /\ job' = [job EXCEPT ![f] = j] /\ UploadGoesTo(s, U!Idle)
      /\ files' = files /\ charge' = charge /\ items' = items /\ approvals' = approvals
      /\ shown' = shown /\ upMade' = upMade /\ upDeaths' = upDeaths /\ raced' = raced /\
           upAstray' = upAstray
  <2>1. job' = [job EXCEPT ![upReq[s].file].pc = "waiting"]
    BY DEF U!Enqueue
  <2> QED
    BY <2>1 DEF U!Enqueue, U!At, U!rows, U!Done, UploadGoesTo
<1>2. Asks(upReq[s], files, job, approvals) /\ UploadTables /\ upReq \in [Slots -> U!Requests]
  BY DEF UploadInv, RequestsFit
<1>3. upReq[s].op = "upload" /\ f \in Files /\ files[f] # "none"
  BY <1>1, <1>2 DEF Asks
<1>4. job[f].pc = "none" /\ Scans(job[f], files[f], job)
  BY <1>3 DEF UploadInv, Uploading, JobsFit
<1>5. /\ j.pc = "waiting" /\ j.run = job[f].run /\ j.copy = job[f].copy /\
           j.rule = job[f].rule /\ j \in U!Jobs
      /\ job[f].run = 0
  BY <1>4 DEF Scans, U!Jobs
<1> HIDE DEF j
<1>6. Scans(j, files[f], job)
  BY <1>3, <1>4, <1>5 DEF Scans
<1>7. Later(job[f], j)
  BY <1>4, <1>5 DEF Later, Passed
<1>8. /\ JobsFit' /\ \A g \in Files : Later(job[g], job'[g])
      /\ \A g \in Files : job'[g] = IF g = f THEN j ELSE job[g]
  BY <1>1, <1>3, <1>6, <1>7, JobMoves
<1>9. AllGiven' /\ UploadTables'
  BY <1>1, <1>2, <1>8, GivenFollows DEF UploadTables
<1>10. RequestsFit'
  <2>1. Onward /\ Asks(U!Idle, files', job', approvals')
    BY <1>1, IdleAsks DEF Onward
  <2> QED
    BY <1>1, <1>8, <2>1, RequestsKeep
<1>11. \A t \in Slots : upReq'[t] = IF t = s THEN U!Idle ELSE upReq[t]
  BY <1>1, <1>2 DEF UploadGoesTo
<1>12. Uploading'
  <2>1. U!Idle.op # "upload"
    BY DEF U!Idle
  <2>2. ASSUME NEW t \in Slots, upReq'[t].op = "upload"
        PROVE  t # s /\ upReq'[t] = upReq[t] /\ upReq[t].file # f
    <3>1. t # s /\ upReq'[t] = upReq[t]
      BY <1>11, <2>1, <2>2
    <3> QED
      BY <1>3, <2>2, <3>1 DEF UploadInv, Uploading
  <2>3. \A t \in Slots : upReq[t].op = "upload" => upReq[t].file \in Files
    BY DEF UploadInv, RequestsFit, Asks
  <2>4. ASSUME NEW t \in Slots, upReq'[t].op = "upload" PROVE job'[upReq'[t].file].pc = "none"
    <3>1. upReq'[t] = upReq[t] /\ upReq[t].file # f /\ upReq[t].file \in Files /\
            job[upReq[t].file].pc = "none"
      BY <2>2, <2>3, <2>4 DEF UploadInv, Uploading
    <3> QED
      BY <1>8, <3>1
  <2>5. ASSUME NEW t \in Slots, NEW u \in Slots, upReq'[t].op = "upload", upReq'[u].op = "upload",
               upReq'[t].file = upReq'[u].file
        PROVE  t = u
    BY <2>2, <2>5 DEF UploadInv, Uploading
  <2> QED
    BY <2>4, <2>5 DEF Uploading
<1>13. Undercharged'
  <2>1. U!Idle.pc # "charge" /\ U!Idle.pc \notin {"items", "approvals", "row"}
    BY DEF U!Idle
  <2> QED
    BY <1>1, <2>1, ChargesKeep
<1>14. ASSUME NEW g \in Files \ raced', g = f PROVE ~Quiet(g, upReq, files[g])
  <2>1. Orderly(g, upReq, files[g], job[g], items, approvals) /\ Concerns(upReq[s], g)
    BY <1>1, <1>3, <1>14 DEF UploadInv, InOrder, Concerns
  <2> QED
    BY <1>3, <2>1 DEF Orderly, Quiet, Concerns
<1>15. ASSUME NEW g \in Files \ raced'
       PROVE  Orderly(g, upReq', files'[g], job'[g], items', approvals')
  <2>1. Calm(g, upReq[s], U!Idle, items', approvals') /\ ~Acts(U!Idle, g)
    BY IdleAsks
  <2>2. Quiet(g, upReq, files[g]) /\ Over(job[g]) => Over(job'[g])
    BY <1>8, <1>14
  <2>3. g \in Files \ raced
    BY <1>1
  <2> QED
    BY <1>1, <2>1, <2>2, <2>3, OrderKeeps DEF Calm
<1>16. ASSUME NEW g \in Files \ raced', upDeaths' = 0
       PROVE  Exact(g, upReq', files'[g], charge'[g])
  <2>1. g \in Files \ raced /\ upDeaths = 0 /\ Exact(g, upReq, files[g], charge[g])
    BY <1>1, <1>16 DEF UploadInv, AllExact
  <2>2. CASE g # f
    <3>1. ~Concerns(upReq[s], g) /\ ~Concerns(U!Idle, g)
      BY <2>2, IdleAsks DEF Concerns
    <3> QED
      BY <1>1, <2>1, <3>1, ExactKeeps
  <2>3. CASE g = f
    <3>1. Orderly(g, upReq, files[g], job[g], items, approvals) /\ Concerns(upReq[s], g)
      BY <1>3, <2>1, <2>3 DEF UploadInv, InOrder, Concerns
    <3>2. charge[g] = 1 /\ files[g] = "kept"
      BY <1>1, <2>1, <3>1 DEF Exact, Orderly
    <3>3. \A t \in Slots : ~Concerns(upReq'[t], g)
      BY <1>11, <3>1, IdleAsks DEF Orderly
    <3> QED
      BY <1>1, <3>2, <3>3 DEF Exact
  <2> QED
    BY <2>2, <2>3
<1>17. ListFits'
  <2>1. \A a \in U!Ids : a.file \in Files
    BY RulesAre
  <2>2. \A a \in U!Ids \ upAstray' : Asked(a, job[a.file]) => Asked(a, job'[a.file])
    BY <1>4, <1>8, <2>1 DEF Asked
  <2>3. \A a \in U!Ids : ~Patches(a, upReq[s])
    BY <1>1 DEF Patches
  <2> QED
    BY <1>1, <2>2, <2>3, ListKeeps
<1> QED
  BY <1>8, <1>9, <1>10, <1>12, <1>13, <1>15, <1>16, <1>17 DEF UploadInv, InOrder, AllExact

\* A step of the scan of f, when the approvals and the document are looked at elsewhere.
LEMMA WorkStep ==
  ASSUME U!UploadsAssumption, UploadInv, NEW f \in Files, NEW j, job' = [job EXCEPT ![f] = j],
           UploadTables',
         upReq' = upReq, files' = files, charge' = charge, upDeaths' = upDeaths, raced' = raced,
         ~Over(job[f]), Scans(j, files[f], job), Later(job[f], j), AllGiven', ListFits',
         \A a \in U!Ids : GivenOut(a, job) /\ a \notin approvals => a \notin approvals',
         \A g \in Files \ {f} : /\ Empty(g, items) => Empty(g, items')
                                /\ Unasked(g, approvals) => Unasked(g, approvals')
  PROVE  UploadInv'
<1>1. /\ JobsFit' /\ \A g \in Files : Later(job[g], job'[g])
      /\ \A g \in Files : job'[g] = IF g = f THEN j ELSE job[g]
  BY JobMoves
<1>2. RequestsFit'
  <2>1. Onward
    BY DEF Onward
  <2> QED
    BY <1>1, <2>1, RequestsStay
<1>3. Uploading'
  <2>1. \A t \in Slots : upReq[t].op = "upload" => upReq[t].file \in Files /\
          job[upReq[t].file].pc = "none"
    BY DEF UploadInv, RequestsFit, Asks, Uploading
  <2>2. job[f].pc # "none"
    BY DEF Over
  <2>3. \A t \in Slots : upReq[t].op = "upload" => job'[upReq[t].file].pc = "none"
    BY <1>1, <2>1, <2>2
  <2> QED
    BY <2>3 DEF Uploading, UploadInv
<1>4. Undercharged'
  BY DEF UploadInv, Undercharged, ChargeFits, Charging, Refunded
<1>5. ASSUME NEW g \in Files \ raced'
      PROVE  Orderly(g, upReq', files'[g], job'[g], items', approvals')
  <2>1. g \in Files \ raced /\ Orderly(g, upReq, files[g], job[g], items, approvals)
    BY <1>5 DEF UploadInv, InOrder
  <2>2. g = f => ~Quiet(g, upReq, files[g]) /\ ~Cleared(g, upReq, files[g]) /\
          ~Dropped(g, upReq, files[g])
    BY <2>1, Quieter DEF Orderly
  <2>3. /\ Quiet(g, upReq, files[g]) /\ Over(job[g]) => Over(job'[g])
        /\ Cleared(g, upReq, files[g]) /\ Empty(g, items) => Empty(g, items')
        /\ Dropped(g, upReq, files[g]) /\ Unasked(g, approvals) => Unasked(g, approvals')
    BY <1>1, <2>2
  <2> QED
    BY <2>1, <2>3, OrderStays
<1>6. AllExact'
  BY DEF UploadInv, AllExact
<1> QED
  BY <1>1, <1>2, <1>3, <1>4, <1>5, <1>6 DEF UploadInv, InOrder

\* One that leaves them alone and has no approval under way.
LEMMA PlainWork ==
  ASSUME U!UploadsAssumption, UploadInv, NEW f \in Files, NEW j, job' = [job EXCEPT ![f] = j],
           UploadTables',
         upReq' = upReq, files' = files, charge' = charge, upDeaths' = upDeaths, raced' = raced,
         approvals' = approvals, shown' = shown, upAstray' = upAstray,
         ~Over(job[f]), Scans(j, files[f], job), Later(job[f], j),
         \A a \in U!Ids : Asked(a, job[f]) => Asked(a, j),
         \A g \in Files \ {f} : Empty(g, items) => Empty(g, items')
  PROVE  UploadInv'
<1>1. /\ \A g \in Files : Later(job[g], job'[g])
      /\ \A g \in Files : job'[g] = IF g = f THEN j ELSE job[g]
  BY JobMoves
<1>2. AllGiven'
  BY <1>1, GivenFollows
<1>3. ASSUME NEW a \in U!Ids \ upAstray', files'[a.file] = "kept"
      PROVE  Fit(a, approvals', shown') \/ ListDebt(a, job', upReq')
  <2>1. Fit(a, approvals, shown) \/ ListDebt(a, job, upReq)
    BY <1>3 DEF UploadInv, ListFits
  <2>2. Asked(a, job[a.file]) => Asked(a, job'[a.file])
    BY <1>1, RulesAre
  <2> QED
    BY <2>1, <2>2 DEF ListDebt
<1>4. ListFits'
  BY <1>3 DEF ListFits
<1> QED
  BY <1>2, <1>4, WorkStep

\* What the scan of f is when it is on its way.
LEMMA Scanning ==
  ASSUME U!UploadsAssumption, UploadInv, NEW f \in Files, ~Over(job[f])
  PROVE  /\ Scans(job[f], files[f], job) /\ job[f] \in U!Jobs /\ files[f] # "none" /\
              job[f].copy \in U!Docs
         /\ job[f].run \in 0..2 /\ (job[f].pc # "waiting" => job[f].run \in 1..2)
         /\ job[f].rule \in 1..(Len(Rules) + 1) /\ UploadTables
<1>1. Scans(job[f], files[f], job) /\ UploadTables
  BY DEF UploadInv, JobsFit
<1>2. job[f] \in U!Jobs
  BY <1>1 DEF Scans
<1>3. job[f].run \in 0..2 /\ job[f].rule \in 1..(Len(Rules) + 1) /\ job[f].copy \in U!Docs
  BY <1>2 DEF U!Jobs
<1>4. job[f].pc # "none"
  BY DEF Over
<1> QED
  BY <1>1, <1>2, <1>3, <1>4 DEF Scans, Over

LEMMA CurrentIs ==
  ASSUME U!UploadsAssumption, UploadInv, NEW f \in Files, ~Over(job[f]), job[f].pc # "waiting",
         job[f].rule \in DOMAIN Rules
  PROVE  /\ U!Current(f) \in U!Ids /\ U!Current(f).file = f
         /\ U!Current(f).rule = job[f].rule /\ U!Current(f).run = job[f].run
         /\ \A a \in U!Ids : a.file = f /\ Asked(a, job[f]) => a = U!Current(f)
<1>1. job[f].run \in 1..2
  BY Scanning
<1> QED
  BY <1>1 DEF U!Current, U!Ids, Asked

\* The scan goes on with the next rule.
LEMMA NextIs ==
  ASSUME U!UploadsAssumption, UploadInv, NEW f \in Files, ~Over(job[f]), job[f].pc # "waiting",
         job[f].rule \in DOMAIN Rules
  PROVE  /\ Scans(U!Next1(f), files[f], job) /\ Later(job[f], U!Next1(f)) /\
              U!Next1(f).run = job[f].run
         /\ U!Next1(f).pc = "rule" /\ U!Next1(f).rule = job[f].rule + 1
<1>1. /\ Scans(job[f], files[f], job) /\ job[f] \in U!Jobs /\ files[f] # "none"
      /\ job[f].run \in 1..2 /\ job[f].rule \in 1..(Len(Rules) + 1)
  BY Scanning
<1>2. /\ U!Next1(f).pc = "rule" /\ U!Next1(f).rule = job[f].rule + 1 /\ U!Next1(f).run = job[f].run
      /\ U!Next1(f).copy = NoList /\ U!Next1(f).known = job[f].known
  BY <1>1 DEF U!Next1, U!Jobs
<1>3. job[f].rule + 1 \in 1..(Len(Rules) + 1)
  BY <1>1, RulesAre
<1>4. U!Next1(f) \in U!Jobs
  BY <1>1, <1>3 DEF U!Next1, U!Jobs, U!Docs
<1>5. Scans(U!Next1(f), files[f], job)
  BY <1>1, <1>2, <1>4 DEF Scans, Sound
<1>6. \A a \in U!Ids : a.rule \in Int /\ a.run \in Int
  BY RulesAre
<1>7. job[f].pc \in {"rule", "asked", "write"}
  BY <1>1 DEF U!Jobs, Over
<1>8. Later(job[f], U!Next1(f))
  BY <1>1, <1>2, <1>6, <1>7 DEF Later, Passed
<1> QED
  BY <1>2, <1>5, <1>8

LEMMA StartKeeps ==
  ASSUME U!UploadsAssumption, UploadInv, NEW f \in Files, U!Start(f)
  PROVE  UploadInv'
<1> DEFINE j == [U!NoJob EXCEPT !.pc = "rule", !.run = job[f].run + 1]
<1>1. /\ job[f].pc = "waiting" /\ job' = [job EXCEPT ![f] = j] /\ upReq' = upReq
      /\ files' = files /\ charge' = charge /\ items' = items /\ approvals' = approvals
      /\ shown' = shown /\ upMade' = upMade /\ upDeaths' = upDeaths /\ raced' = raced /\
           upAstray' = upAstray
  BY DEF U!Start, U!Scan, U!rows
<1>2. ~Over(job[f])
  BY <1>1 DEF Over
<1>3. Scans(job[f], files[f], job) /\ job[f].run \in 0..1 /\ files[f] # "none" /\ UploadTables
  BY <1>1, <1>2, Scanning DEF Scans
<1>4. /\ j.pc = "rule" /\ j.run = job[f].run + 1 /\ j.rule = 1 /\ j.copy = NoList
  BY DEF U!NoJob
<1>5. 1 \in 1..(Len(Rules) + 1)
  BY RulesAre
<1>6. j \in U!Jobs
  <2>1. job[f].run + 1 \in 0..2 /\ NoList \in U!Docs
    BY <1>3 DEF U!Docs
  <2> QED
    BY <1>5, <2>1 DEF U!Jobs, U!NoJob
<1> HIDE DEF j
<1>7. Scans(j, files[f], job)
  BY <1>3, <1>4, <1>6 DEF Scans, Sound
<1>8. \A a \in U!Ids : a.rule \in Int /\ a.run \in Int
  BY RulesAre
<1>9. Later(job[f], j) /\ \A a \in U!Ids : Asked(a, job[f]) => Asked(a, j)
  BY <1>1, <1>3, <1>4, <1>8 DEF Later, Passed, Asked
<1>10. UploadTables' /\ \A g \in Files : Empty(g, items) => Empty(g, items')
  BY <1>1, <1>3 DEF UploadTables
<1> QED
  BY <1>1, <1>2, <1>7, <1>9, <1>10, PlainWork

\* Skip, and the second way of Collect.
LEMMA NextRuleKeeps ==
  ASSUME U!UploadsAssumption, UploadInv, NEW f \in Files, NEW c, job[f].pc = "rule",
           job[f].rule \in DOMAIN Rules,
         c = Rules[job[f].rule].c, U!Scan(f, U!Next1(f)),
         items' = items \/ items' = items \cup {<<f, c>>},
         files' = files, charge' = charge, approvals' = approvals, shown' = shown, upReq' = upReq,
         upMade' = upMade, upDeaths' = upDeaths, raced' = raced, upAstray' = upAstray
  PROVE  UploadInv'
<1>1. ~Over(job[f]) /\ \A a \in U!Ids : ~Asked(a, job[f])
  BY DEF Over, Asked
<1>2. Scans(U!Next1(f), files[f], job) /\ Later(job[f], U!Next1(f)) /\ UploadTables
  BY <1>1, NextIs DEF UploadInv
<1>3. c \in Targets
  BY RulesAre
<1>4. UploadTables'
  BY <1>2, <1>3 DEF UploadTables
<1>5. \A g \in Files \ {f} : Empty(g, items) => Empty(g, items')
  BY DEF Empty
<1>6. job' = [job EXCEPT ![f] = U!Next1(f)]
  BY DEF U!Scan
<1> QED
  BY <1>1, <1>2, <1>4, <1>5, <1>6, PlainWork

\* End, and the first way of Collect.
LEMMA EndsKeep ==
  ASSUME U!UploadsAssumption, UploadInv, NEW f \in Files, job[f].pc = "rule",
         U!Scan(f, [job[f] EXCEPT !.pc = "done"]),
         files' = files, charge' = charge, items' = items, approvals' = approvals, shown' = shown,
         upReq' = upReq, upMade' = upMade, upDeaths' = upDeaths, raced' = raced,
           upAstray' = upAstray
  PROVE  UploadInv'
<1> DEFINE j == [job[f] EXCEPT !.pc = "done"]
<1>1. ~Over(job[f]) /\ \A a \in U!Ids : ~Asked(a, job[f])
  BY DEF Over, Asked
<1>2. Scans(job[f], files[f], job) /\ job[f] \in U!Jobs /\ job[f].run \in 1..2 /\
        files[f] # "none" /\ UploadTables
  BY <1>1, Scanning
<1>3. /\ j \in U!Jobs /\ j.pc = "done" /\ j.run = job[f].run /\ j.copy = job[f].copy /\
           j.rule = job[f].rule
  BY <1>2 DEF U!Jobs
<1>4. job' = [job EXCEPT ![f] = j]
  BY DEF U!Scan
<1> HIDE DEF j
<1>5. Scans(j, files[f], job)
  BY <1>2, <1>3 DEF Scans
<1>6. \A a \in U!Ids : a.rule \in Int /\ a.run \in Int
  BY RulesAre
<1>7. Later(job[f], j)
  BY <1>2, <1>3, <1>6 DEF Later, Passed
<1>8. UploadTables'
  BY <1>2 DEF UploadTables
<1> QED
  BY <1>1, <1>4, <1>5, <1>7, <1>8, PlainWork

LEMMA SkipKeeps ==
  ASSUME U!UploadsAssumption, UploadInv, NEW f \in Files, U!Skip(f)
  PROVE  UploadInv'
<1>1. /\ job[f].pc = "rule" /\ job[f].rule \in DOMAIN Rules /\ U!Scan(f, U!Next1(f)) /\
           items' = items
      /\ files' = files /\ charge' = charge /\ approvals' = approvals /\ shown' = shown /\
           upReq' = upReq
      /\ upMade' = upMade /\ upDeaths' = upDeaths /\ raced' = raced /\ upAstray' = upAstray
  BY DEF U!Skip, U!rows
<1> QED
  BY <1>1, NextRuleKeeps

LEMMA EndOfScanKeeps ==
  ASSUME U!UploadsAssumption, UploadInv, NEW f \in Files, U!End(f)
  PROVE  UploadInv'
<1>1. /\ job[f].pc = "rule" /\ U!Scan(f, [job[f] EXCEPT !.pc = "done"]) /\ items' = items
      /\ files' = files /\ charge' = charge /\ approvals' = approvals /\ shown' = shown /\
           upReq' = upReq
      /\ upMade' = upMade /\ upDeaths' = upDeaths /\ raced' = raced /\ upAstray' = upAstray
  BY DEF U!End, U!rows
<1> QED
  BY <1>1, EndsKeep

LEMMA CollectKeeps ==
  ASSUME U!UploadsAssumption, UploadInv, NEW f \in Files, U!Collect(f)
  PROVE  UploadInv'
<1> DEFINE c == Rules[job[f].rule].c
<1>1. /\ job[f].pc = "rule" /\ job[f].rule \in DOMAIN Rules
      /\ files' = files /\ charge' = charge /\ approvals' = approvals /\ shown' = shown /\
           upReq' = upReq
      /\ upMade' = upMade /\ upDeaths' = upDeaths /\ raced' = raced /\ upAstray' = upAstray
  BY DEF U!Collect
<1>2. \/ U!Scan(f, [job[f] EXCEPT !.pc = "done"]) /\ items' = items
      \/ items' = items \cup {<<f, c>>} /\ U!Scan(f, U!Next1(f))
  BY DEF U!Collect
<1> QED
  BY <1>1, <1>2, NextRuleKeeps, EndsKeep

LEMMA AskKeeps == ASSUME U!UploadsAssumption, UploadInv, NEW f \in Files, U!Ask(f) PROVE UploadInv'
<1>1. /\ job[f].pc = "rule" /\ job[f].rule \in DOMAIN Rules /\ approvals' = approvals \cup
           {U!Current(f)}
      /\ files' = files /\ charge' = charge /\ items' = items /\ shown' = shown /\ upReq' = upReq
      /\ upMade' = upMade /\ upDeaths' = upDeaths /\ raced' = raced /\ upAstray' = upAstray
  BY DEF U!Ask
<1>2. PICK k \in Known : job' = [job EXCEPT ![f] = [job[f] EXCEPT !.pc = "asked", !.known = k]]
  BY DEF U!Ask, U!Scan
<1> DEFINE j == [job[f] EXCEPT !.pc = "asked", !.known = k]
           b == U!Current(f)
<1>3. ~Over(job[f]) /\ k \in BOOLEAN
  BY <1>1, ConstantsAre DEF Over
<1>4. Scans(job[f], files[f], job) /\ job[f] \in U!Jobs /\ job[f].run \in 1..2 /\
        files[f] # "none" /\ UploadTables
  BY <1>1, <1>3, Scanning
<1>5. /\ j \in U!Jobs /\ j.pc = "asked" /\ j.run = job[f].run /\ j.copy = job[f].copy /\
           j.rule = job[f].rule
  BY <1>3, <1>4 DEF U!Jobs
<1> HIDE DEF j
<1>6. Scans(j, files[f], job)
  BY <1>1, <1>4, <1>5 DEF Scans
<1>7. \A a \in U!Ids : a.rule \in Int /\ a.run \in Int /\ a.file \in Files
  BY RulesAre
<1>8. /\ b \in U!Ids /\ b.file = f /\ b.rule = job[f].rule /\ b.run = job[f].run
  BY <1>1, <1>3, CurrentIs
<1> HIDE DEF b
<1>9. job[f].rule \in Int
  BY <1>7, <1>8
<1>10. Later(job[f], j)
  BY <1>1, <1>4, <1>5, <1>7, <1>9 DEF Later, Passed
<1>11. /\ \A g \in Files : Later(job[g], job'[g])
       /\ \A g \in Files : job'[g] = IF g = f THEN j ELSE job[g]
  BY <1>1, <1>2, <1>6, <1>10, JobMoves DEF j
<1>12. UploadTables'
  BY <1>1, <1>4, <1>8 DEF UploadTables, b
<1>13. ~GivenOut(b, job) /\ GivenOut(b, job')
  BY <1>1, <1>4, <1>5, <1>8, <1>9, <1>11 DEF GivenOut, Passed
<1>14. AllGiven'
  <2>1. approvals \subseteq U!Ids /\ shown \in U!Docs /\ Sound(shown, job) /\
          \A a \in approvals : GivenOut(a, job)
    BY <1>4 DEF UploadTables, UploadInv, AllGiven
  <2>2. /\ \A a \in U!Ids : GivenOut(a, job) => GivenOut(a, job')
        /\ \A d \in U!Docs : Sound(d, job) => Sound(d, job')
    BY <1>11, GivenStays
  <2> QED
    BY <1>1, <1>13, <2>1, <2>2 DEF AllGiven, b
<1>15. ASSUME NEW a \in U!Ids \ upAstray', files'[a.file] = "kept"
       PROVE  Fit(a, approvals', shown') \/ ListDebt(a, job', upReq')
  <2>1. CASE a = b
    <3>1. Asked(a, job'[a.file])
      BY <1>5, <1>8, <1>11, <2>1 DEF Asked
    <3> QED
      BY <3>1 DEF ListDebt
  <2>2. CASE a # b
    <3>1. Fit(a, approvals, shown) \/ ListDebt(a, job, upReq)
      BY <1>1, <1>15 DEF UploadInv, ListFits
    <3>2. Fit(a, approvals, shown) => Fit(a, approvals', shown')
      BY <1>1, <2>2 DEF Fit, b
    <3>3. Asked(a, job[a.file]) => a.file # f /\ job'[a.file] = job[a.file]
      BY <1>1, <1>7, <1>11 DEF Asked
    <3>4. ListDebt(a, job, upReq) => ListDebt(a, job', upReq')
      BY <1>1, <3>3 DEF ListDebt
    <3> QED
      BY <3>1, <3>2, <3>4
  <2> QED
    BY <2>1, <2>2
<1>16. ListFits'
  BY <1>15 DEF ListFits
<1>17. \A a \in U!Ids : GivenOut(a, job) /\ a \notin approvals => a \notin approvals'
  BY <1>1, <1>13 DEF b
<1>18. \A g \in Files \ {f} : /\ Empty(g, items) => Empty(g, items')
                              /\ Unasked(g, approvals) => Unasked(g, approvals')
  BY <1>1, <1>8 DEF Unasked, b
<1>19. job' = [job EXCEPT ![f] = j]
  BY <1>2 DEF j
<1> QED
  BY <1>1, <1>3, <1>6, <1>10, <1>12, <1>14, <1>16, <1>17, <1>18, <1>19, WorkStep

LEMMA ReadShownKeeps ==
  ASSUME U!UploadsAssumption, UploadInv, NEW f \in Files, U!ReadShown(f)
  PROVE  UploadInv'
<1> DEFINE j == [job[f] EXCEPT !.pc = "write", !.copy = shown]
<1>1. /\ job[f].pc = "asked" /\ job' = [job EXCEPT ![f] = j] /\ items' = items
      /\ files' = files /\ charge' = charge /\ approvals' = approvals /\ shown' = shown /\
           upReq' = upReq
      /\ upMade' = upMade /\ upDeaths' = upDeaths /\ raced' = raced /\ upAstray' = upAstray
  BY DEF U!ReadShown, U!Scan, U!rows
<1>2. ~Over(job[f])
  BY <1>1 DEF Over
<1>3. /\ Scans(job[f], files[f], job) /\ job[f] \in U!Jobs /\ job[f].run \in 1..2 /\
           files[f] # "none"
      /\ UploadTables /\ Sound(shown, job)
  BY <1>1, <1>2, Scanning DEF UploadInv, AllGiven
<1>4. /\ j \in U!Jobs /\ j.pc = "write" /\ j.run = job[f].run /\ j.copy = shown /\
           j.rule = job[f].rule
  BY <1>3 DEF U!Jobs, UploadTables
<1> HIDE DEF j
<1>5. Scans(j, files[f], job)
  BY <1>1, <1>3, <1>4 DEF Scans
<1>6. Later(job[f], j) /\ \A a \in U!Ids : Asked(a, job[f]) => Asked(a, j)
  BY <1>1, <1>4 DEF Later, Passed, Asked
<1>7. UploadTables' /\ \A g \in Files : Empty(g, items) => Empty(g, items')
  BY <1>1, <1>3 DEF UploadTables
<1> QED
  BY <1>1, <1>2, <1>5, <1>6, <1>7, PlainWork

\* What the document holds once the approval is pushed.
LEMMA PushedIs ==
  ASSUME U!UploadsAssumption, NEW d \in U!Docs, NEW a \in U!Ids, NEW known
  PROVE  /\ U!Pushed(d, a, known) \in [U!Keys -> SUBSET U!Ids] /\ U!Pushed(d, a, known) # NoList
         /\ \E k \in {U!Target(a), U!Nameless} : \A l \in U!Keys :
              U!Pushed(d, a, known)[l] = (IF d = NoList THEN {} ELSE d[l]) \cup
                (IF l = k THEN {a} ELSE {})
         /\ a \in U!Listed(U!Pushed(d, a, known))
         /\ \A b \in U!Ids \ {a} : b \in U!Listed(U!Pushed(d, a, known)) <=> d # NoList /\
              b \in U!Listed(d)
<1> DEFINE c == IF d = NoList THEN U!Nothing ELSE d
           k == IF known \/ U!Listed(c) # {} THEN U!Target(a) ELSE U!Nameless
           p == U!Pushed(d, a, known)
<1>1. c \in [U!Keys -> SUBSET U!Ids]
  BY DEF U!Docs, U!Nothing
<1>2. k \in U!Keys /\ k \in {U!Target(a), U!Nameless}
  BY RulesAre DEF U!Keys
<1>3. \A l \in U!Keys : c[l] = IF d = NoList THEN {} ELSE d[l]
  BY DEF U!Nothing
<1>4. p = [c EXCEPT ![k] = @ \cup {a}]
  BY DEF U!Pushed
<1> HIDE DEF c, k, p
<1>5. p \in [U!Keys -> SUBSET U!Ids] /\ \A l \in U!Keys : p[l] = c[l] \cup
        (IF l = k THEN {a} ELSE {})
  BY <1>1, <1>2, <1>4
<1>6. p # NoList
  BY <1>5, ConstantsAre
<1>7. a \in U!Listed(p)
  BY <1>2, <1>5 DEF U!Listed
<1>8. ASSUME NEW b \in U!Ids \ {a} PROVE b \in U!Listed(p) <=> d # NoList /\ b \in U!Listed(d)
  <2>1. \A l \in U!Keys : b \in p[l] <=> d # NoList /\ b \in d[l]
    BY <1>3, <1>5
  <2> QED
    BY <2>1 DEF U!Listed
<1>9. \A l \in U!Keys : p[l] = (IF d = NoList THEN {} ELSE d[l]) \cup (IF l = k THEN {a} ELSE {})
  BY <1>3, <1>5
<1> QED
  BY <1>2, <1>5, <1>6, <1>7, <1>8, <1>9 DEF p

LEMMA WriteShownKeeps ==
  ASSUME U!UploadsAssumption, UploadInv, NEW f \in Files, U!WriteShown(f)
  PROVE  UploadInv'
<1> DEFINE a == U!Current(f)
           copy == job[f].copy
           doc == U!Pushed(copy, a, job[f].known)
           j == U!Next1(f)
<1>1. /\ job[f].pc = "write" /\ shown' = doc
      /\ upAstray' = upAstray \cup U!Lost(copy, shown) \cup
           {b \in {a} : a \notin approvals \/ a \in doc[U!Nameless]}
      /\ job' = [job EXCEPT ![f] = j] /\ items' = items
      /\ files' = files /\ charge' = charge /\ approvals' = approvals /\ upReq' = upReq
      /\ upMade' = upMade /\ upDeaths' = upDeaths /\ raced' = raced
  BY DEF U!WriteShown, U!Scan, U!rows
<1>2. ~Over(job[f]) /\ job[f].pc # "waiting"
  BY <1>1 DEF Over
<1>3. /\ Scans(job[f], files[f], job) /\ job[f].rule \in DOMAIN Rules /\ copy \in U!Docs
      /\ UploadTables /\ Sound(shown, job) /\ Sound(copy, job) /\ job[f].run \in 1..2
  BY <1>1, <1>2, Scanning DEF UploadInv, AllGiven, Scans
<1>4. /\ a \in U!Ids /\ a.file = f /\ a.rule = job[f].rule /\ a.run = job[f].run
      /\ \A b \in U!Ids : b.file = f /\ Asked(b, job[f]) => b = a
  BY <1>2, <1>3, CurrentIs
<1>5. /\ Scans(j, files[f], job) /\ Later(job[f], j) /\ j.run = job[f].run
      /\ j.pc = "rule" /\ j.rule = job[f].rule + 1
  BY <1>2, <1>3, NextIs
<1>6. \A b \in U!Ids : b.rule \in Int /\ b.run \in Int /\ b.file \in Files /\ U!Target(b) \in U!Keys
  BY RulesAre
<1>7. /\ doc \in [U!Keys -> SUBSET U!Ids] /\ doc # NoList
      /\ \E k \in {U!Target(a), U!Nameless} : \A l \in U!Keys :
           doc[l] = (IF copy = NoList THEN {} ELSE copy[l]) \cup (IF l = k THEN {a} ELSE {})
      /\ a \in U!Listed(doc)
      /\ \A b \in U!Ids \ {a} : b \in U!Listed(doc) <=> copy # NoList /\ b \in U!Listed(copy)
  BY <1>3, <1>4, PushedIs
<1> HIDE DEF doc, j, a
<1>8. /\ \A g \in Files : Later(job[g], job'[g])
      /\ \A g \in Files : job'[g] = IF g = f THEN j ELSE job[g]
  BY <1>1, <1>5, JobMoves
<1>9. GivenOut(a, job')
  BY <1>4, <1>5, <1>6, <1>8 DEF GivenOut, Passed
<1>10. /\ \A b \in U!Ids : GivenOut(b, job) => GivenOut(b, job')
       /\ \A d \in U!Docs : Sound(d, job) => Sound(d, job')
  BY <1>8, GivenStays
<1>11. Sound(doc, job')
  <2>1. Sound(copy, job')
    BY <1>3, <1>10
  <2>2. PICK k \in {U!Target(a), U!Nameless} : \A l \in U!Keys :
          doc[l] = (IF copy = NoList THEN {} ELSE copy[l]) \cup (IF l = k THEN {a} ELSE {})
    BY <1>7
  <2>3. ASSUME NEW l \in U!Keys, NEW b \in doc[l]
        PROVE  GivenOut(b, job') /\ (l # U!Nameless => U!Target(b) = l)
    <3>1. CASE b = a
      <4>1. CASE l = k
        BY <1>9, <2>2, <3>1, <4>1
      <4>2. CASE l # k
        <5>1. copy # NoList /\ b \in copy[l]
          BY <2>2, <2>3, <4>2
        <5> QED
          BY <2>1, <5>1 DEF Sound
      <4> QED
        BY <4>1, <4>2
    <3>2. CASE b # a
      <4>1. copy # NoList /\ b \in copy[l]
        BY <2>2, <2>3, <3>2
      <4> QED
        BY <2>1, <4>1 DEF Sound
    <3> QED
      BY <3>1, <3>2
  <2> QED
    BY <2>3 DEF Sound
<1>12. AllGiven'
  <2>1. \A b \in approvals : GivenOut(b, job')
    BY <1>3, <1>10 DEF UploadTables, UploadInv, AllGiven
  <2> QED
    BY <1>1, <1>11, <2>1 DEF AllGiven
<1>13. U!Lost(copy, shown) \subseteq U!Ids
  BY <1>3 DEF U!Lost, U!Listed, UploadTables, U!Docs
<1>14. UploadTables'
  BY <1>1, <1>3, <1>4, <1>7, <1>13 DEF UploadTables, U!Docs
<1>15. ASSUME NEW b \in U!Ids \ upAstray', files'[b.file] = "kept"
       PROVE  Fit(b, approvals', shown') \/ ListDebt(b, job', upReq')
  <2>1. b \in U!Ids \ upAstray /\ b \notin U!Lost(copy, shown) /\ files[b.file] = "kept"
    BY <1>1, <1>15
  <2>2. CASE b = a
    <3>1. a \in approvals
      BY <1>1, <1>15, <2>2
    <3> QED
      BY <1>1, <1>7, <2>2, <3>1 DEF Fit
  <2>3. CASE b # a
    <3>1. (copy # NoList /\ b \in U!Listed(copy)) <=> (shown # NoList /\ b \in U!Listed(shown))
      BY <2>1 DEF U!Lost
    <3>2. Fit(b, approvals, shown) => Fit(b, approvals', shown')
      BY <1>1, <1>7, <2>1, <2>3, <3>1 DEF Fit
    <3>3. Asked(b, job[b.file]) => Asked(b, job'[b.file])
      BY <1>4, <1>6, <1>8, <2>1, <2>3
    <3>4. ListDebt(b, job, upReq) => ListDebt(b, job', upReq')
      BY <1>1, <3>3 DEF ListDebt
    <3>5. Fit(b, approvals, shown) \/ ListDebt(b, job, upReq)
      BY <2>1 DEF UploadInv, ListFits
    <3> QED
      BY <3>2, <3>4, <3>5
  <2> QED
    BY <2>2, <2>3
<1>16. ListFits'
  BY <1>15 DEF ListFits
<1> QED
  BY <1>1, <1>2, <1>5, <1>12, <1>14, <1>16, WorkStep

LEMMA MainDiesKeeps == ASSUME U!UploadsAssumption, UploadInv, U!MainDies PROVE UploadInv'
<1> DEFINE under == {f \in Files : job[f].pc \in {"asked", "write"}}
<1>1. /\ upDeaths < MaxDeaths /\ upDeaths' = upDeaths + 1 /\ items' = items
      /\ job' = [f \in Files |-> IF U!Working(f) THEN U!Requeue(job[f]) ELSE job[f]]
      /\ upAstray' = upAstray \cup {U!Current(f) : f \in under}
      /\ files' = files /\ charge' = charge /\ approvals' = approvals /\ shown' = shown /\
           upReq' = upReq
      /\ upMade' = upMade /\ raced' = raced
  BY DEF U!MainDies, U!rows
<1>2. UploadTables
  BY DEF UploadInv
<1>3. ASSUME NEW f \in Files, U!Working(f)
      PROVE  /\ ~Over(job[f]) /\ job[f].pc # "waiting" /\ U!Requeue(job[f]) \in U!Jobs
             /\ U!Requeue(job[f]).pc = (IF job[f].run < 2 THEN "waiting" ELSE "failed")
             /\ U!Requeue(job[f]).run = job[f].run /\ U!Requeue(job[f]).copy = NoList
  <2>1. ~Over(job[f]) /\ job[f].pc # "waiting"
    BY <1>3 DEF U!Working, Over
  <2>2. job[f].run \in 0..2
    BY <2>1, Scanning
  <2>3. 1 \in 1..(Len(Rules) + 1) /\ NoList \in U!Docs
    BY RulesAre DEF U!Docs
  <2>4. U!Requeue(job[f]) \in U!Jobs
    BY <2>2, <2>3 DEF U!Requeue, U!NoJob, U!Jobs
  <2> QED
    BY <2>1, <2>4 DEF U!Requeue, U!NoJob
<1>4. \A a \in U!Ids : a.rule \in Int /\ a.run \in Int /\ a.file \in Files
  BY RulesAre
<1>5. ASSUME NEW f \in Files PROVE Later(job[f], job'[f])
  <2>1. CASE U!Working(f)
    <3>1. job'[f] = U!Requeue(job[f]) /\ job[f].run \in 1..2
      BY <1>1, <1>3, <2>1, Scanning
    <3> QED
      BY <1>3, <1>4, <2>1, <3>1 DEF Later, Passed
  <2>2. CASE ~U!Working(f)
    BY <1>1, <2>2 DEF Later
  <2> QED
    BY <2>1, <2>2
<1>6. /\ \A a \in U!Ids : GivenOut(a, job) => GivenOut(a, job')
      /\ \A d \in U!Docs : Sound(d, job) => Sound(d, job')
  BY <1>5, GivenStays
<1>7. JobsFit'
  <2>1. ASSUME NEW f \in Files PROVE Scans(job'[f], files'[f], job')
    <3>1. CASE U!Working(f)
      <4>1. job'[f] = U!Requeue(job[f]) /\ job[f].run \in 1..2 /\ files[f] # "none"
        BY <1>1, <1>3, <3>1, Scanning
      <4> QED
        BY <1>1, <1>3, <3>1, <4>1 DEF Scans, Sound
    <3>2. CASE ~U!Working(f)
      <4>1. job'[f] = job[f] /\ Scans(job[f], files[f], job) /\ job[f].copy \in U!Docs
        BY <1>1, <3>2 DEF UploadInv, JobsFit, Scans, U!Jobs
      <4>2. Sound(job[f].copy, job')
        BY <1>6, <4>1 DEF Scans
      <4> QED
        BY <1>1, <4>1, <4>2 DEF Scans
    <3> QED
      BY <3>1, <3>2
  <2>2. \A f \in Files : job'[f] \in U!Jobs
    BY <2>1 DEF Scans
  <2>3. job' \in [Files -> U!Jobs]
    BY <1>1, <2>2
  <2> QED
    BY <2>1, <2>3 DEF JobsFit
<1>8. RequestsFit'
  <2>1. Onward
    BY <1>1 DEF Onward
  <2> QED
    BY <1>1, <1>5, <2>1, RequestsStay
<1>9. UploadTables'
  <2>1. \A f \in under : U!Current(f) \in U!Ids
    <3>1. \A f \in under : job[f].rule \in DOMAIN Rules /\ ~Over(job[f]) /\ job[f].pc # "waiting"
      BY DEF UploadInv, JobsFit, Scans, Over
    <3> QED
      BY <3>1, CurrentIs
  <2>2. upDeaths' \in 0..MaxDeaths
    BY <1>1, <1>2, ConstantsAre DEF UploadTables
  <2> HIDE DEF under
  <2>3. upAstray' \subseteq U!Ids
    BY <1>1, <1>2, <2>1 DEF UploadTables
  <2> QED
    BY <1>1, <1>2, <2>2, <2>3 DEF UploadTables
<1>10. Uploading'
  <2>1. \A t \in Slots : upReq[t].op = "upload" => upReq[t].file \in Files /\
          job[upReq[t].file].pc = "none"
    BY DEF UploadInv, RequestsFit, Asks, Uploading
  <2>2. \A t \in Slots : upReq[t].op = "upload" => job'[upReq[t].file].pc = "none"
    BY <1>1, <2>1 DEF U!Working
  <2> QED
    BY <1>1, <2>2 DEF Uploading, UploadInv
<1>11. AllGiven'
  BY <1>1, <1>5, GivenFollows
<1>12. Undercharged'
  BY <1>1 DEF UploadInv, Undercharged, ChargeFits, Charging, Refunded
<1>13. ASSUME NEW g \in Files \ raced'
       PROVE  Orderly(g, upReq', files'[g], job'[g], items', approvals')
  <2>1. Over(job[g]) => job'[g] = job[g]
    BY <1>1 DEF Over, U!Working
  <2> QED
    BY <1>1, <2>1, OrderStays
<1>14. AllExact'
  BY <1>1, <1>2, ConstantsAre DEF AllExact, UploadTables
<1>15. ASSUME NEW a \in U!Ids \ upAstray', files'[a.file] = "kept"
       PROVE  Fit(a, approvals', shown') \/ ListDebt(a, job', upReq')
  <2>1. Fit(a, approvals, shown) \/ ListDebt(a, job, upReq)
    BY <1>1, <1>15 DEF UploadInv, ListFits
  <2>2. ~Asked(a, job[a.file])
    <3>1. SUFFICES ASSUME Asked(a, job[a.file]) PROVE FALSE
      OBVIOUS
    <3>2. a.file \in under
      BY <1>4, <3>1 DEF Asked
    <3>3. job[a.file].rule \in DOMAIN Rules /\ ~Over(job[a.file]) /\ job[a.file].pc # "waiting"
      BY <3>2 DEF UploadInv, JobsFit, Scans, Over
    <3>4. a = U!Current(a.file)
      BY <1>4, <3>1, <3>3, CurrentIs
    <3> QED
      BY <1>1, <1>15, <3>2, <3>4
  <2> QED
    BY <1>1, <2>1, <2>2 DEF ListDebt
<1>16. ListFits'
  BY <1>15 DEF ListFits
<1> QED
  BY <1>7, <1>8, <1>9, <1>10, <1>11, <1>12, <1>13, <1>14, <1>16 DEF UploadInv, InOrder

------------------------------------------------------------------------------
LEMMA UploadsBegin == ASSUME U!UploadsAssumption, U!Init PROVE UploadInv
<1>1. /\ files = [f \in Files |-> "none"] /\ charge = [f \in Files |-> 0]
      /\ items = {} /\ approvals = {} /\ shown \in {NoList, U!Nothing}
      /\ job = [f \in Files |-> U!NoJob] /\ upReq = [s \in Slots |-> U!Idle]
      /\ upMade = 0 /\ upDeaths = 0 /\ raced = {} /\ upAstray = {}
  BY DEF U!Init
<1>2. U!Nothing \in [U!Keys -> SUBSET U!Ids] /\ U!Nothing # NoList /\ U!Listed(U!Nothing) = {}
  <2>1. U!Nothing \in [U!Keys -> SUBSET U!Ids] /\ \A k \in U!Keys : U!Nothing[k] = {}
    BY DEF U!Nothing
  <2> QED
    BY <2>1, ConstantsAre DEF U!Listed
<1>3. UploadTables
  BY <1>1, <1>2, ConstantsAre DEF UploadTables, U!Docs
<1>4. Sound(shown, job)
  <2>1. \A k \in U!Keys : U!Nothing[k] = {}
    BY DEF U!Nothing
  <2> QED
    BY <1>1, <2>1 DEF Sound
<1>5. JobsFit
  <2>1. 1 \in 1..(Len(Rules) + 1) /\ NoList \in U!Docs
    BY RulesAre DEF U!Docs
  <2>2. U!NoJob \in U!Jobs /\ U!NoJob.pc = "none" /\ U!NoJob.run = 0 /\ U!NoJob.copy = NoList
    BY <2>1 DEF U!NoJob, U!Jobs
  <2>3. \A f \in Files : Scans(U!NoJob, files[f], job)
    BY <2>2 DEF Scans, Sound
  <2> QED
    BY <1>1, <2>2, <2>3 DEF JobsFit
<1>6. RequestsFit
  BY <1>1, IdleAsks DEF RequestsFit
<1>7. \A s \in Slots : upReq[s] = U!Idle
  BY <1>1
<1>8. Uploading /\ Undercharged
  <2>1. U!Idle.op = "none" /\ U!Idle.pc = "idle"
    BY DEF U!Idle
  <2> QED
    BY <1>1, <1>7, <2>1 DEF Uploading, Undercharged, ChargeFits, Charging, Refunded
<1>9. AllGiven
  BY <1>1, <1>4 DEF AllGiven
<1>10. ASSUME NEW f \in Files
       PROVE  Orderly(f, upReq, files[f], job[f], items, approvals) /\
                Exact(f, upReq, files[f], charge[f])
  <2>1. files[f] = "none" /\ job[f].pc = "none" /\ charge[f] = 0
    BY <1>1 DEF U!NoJob
  <2>2. \A s \in Slots : ~Concerns(upReq[s], f) /\ ~Acts(upReq[s], f)
    BY <1>7, IdleAsks
  <2>3. Orderly(f, upReq, files[f], job[f], items, approvals)
    BY <1>1, <2>1, <2>2 DEF Orderly, Over, Empty, Unasked
  <2> QED
    BY <2>1, <2>2, <2>3 DEF Exact
<1>11. ListFits
  BY <1>1, <1>2 DEF ListFits, Fit
<1> QED
  BY <1>3, <1>5, <1>6, <1>8, <1>9, <1>10, <1>11 DEF UploadInv, InOrder, AllExact

LEMMA UploadsKeep == ASSUME U!UploadsAssumption, UploadInv, [U!Next]_(U!vars) PROVE UploadInv'
<1>1. ASSUME NEW s \in Slots, U!Arrive(s) PROVE UploadInv'
  <2>1. CASE \E f \in Files : U!Upload(s, f) \/ U!Delete(s, f) \/ U!Put(s, f) \/
               \E c \in Targets : U!Take(s, f, c)
    BY <2>1, UploadKeeps, DeleteKeeps, PutKeeps, TakeKeeps
  <2>2. CASE \E A \in SUBSET approvals, yes \in BOOLEAN : U!Act(s, A, yes)
    BY <2>2, ActKeeps
  <2> QED
    BY <1>1, <2>1, <2>2 DEF U!Arrive
<1>2. ASSUME NEW s \in Slots, U!Step(s) PROVE UploadInv'
  BY <1>2, ChargeKeeps, EnqueueKeeps, RefundKeeps, DeleteItemsKeeps, DeleteApprovalsKeeps,
     DeleteRowKeeps, CreateKeeps,
     ApproveKeeps, TwiceKeeps, DestroyKeeps, PatchGetKeeps, PatchSetKeeps, RegenSetKeeps DEF U!Step
<1>3. ASSUME NEW f \in Files, U!Work(f) PROVE UploadInv'
  BY <1>3, StartKeeps, SkipKeeps, EndOfScanKeeps, CollectKeeps, AskKeeps, ReadShownKeeps,
     WriteShownKeeps DEF U!Work
<1>4. CASE UNCHANGED U!vars
  <2>1. /\ files' = files /\ charge' = charge /\ items' = items /\ approvals' = approvals /\
             shown' = shown
        /\ job' = job /\ upReq' = upReq /\ upMade' = upMade /\ upDeaths' = upDeaths /\
             raced' = raced /\ upAstray' = upAstray
    BY <1>4 DEF U!vars, U!rows
  <2> QED
    BY <2>1 DEF UploadInv, UploadTables, JobsFit, RequestsFit, Uploading, AllGiven, Undercharged,
       InOrder, AllExact, ListFits,
                Charging, Refunded, ChargeFits
<1> QED
  BY <1>1, <1>2, <1>3, <1>4, RegenGetKeeps, UploadCrashKeeps, MainDiesKeeps DEF U!Next

\* At rest nobody owes anything.
LEMMA InvariantCounts == ASSUME U!UploadsAssumption, UploadInv PROVE U!UploadsAreAccounted
<1>1. ASSUME NEW f \in Files PROVE charge[f] <= IF files[f] = "kept" THEN 1 ELSE 0
  BY DEF UploadInv, UploadTables, Undercharged, ChargeFits
<1>2. U!AtRest => \A s \in Slots : \A f : ~Concerns(upReq[s], f)
  <2>1. ASSUME U!AtRest, NEW s \in Slots PROVE upReq[s] = U!Idle
    BY <2>1 DEF U!AtRest, U!At, UploadInv, RequestsFit, Asks
  <2> QED
    BY <2>1, IdleAsks
<1>3. ASSUME U!AtRest, upDeaths = 0, NEW f \in Files \ raced
      PROVE  charge[f] = IF files[f] = "kept" THEN 1 ELSE 0
  BY <1>2, <1>3 DEF UploadInv, AllExact, Exact
<1>4. ASSUME NEW f \in Files \ raced, files[f] = "gone"
      PROVE  (\A c \in Targets : <<f, c>> \notin items) /\ \A a \in approvals : a.file # f
  BY <1>4 DEF UploadInv, InOrder, Orderly, Cleared, Dropped, Empty, Unasked
<1> QED
  BY <1>1, <1>3, <1>4 DEF U!UploadsAreAccounted, U!NeverOvercharged, U!ChargeIsExact,
     U!GoneLeavesNothing

LEMMA InvariantLists == ASSUME U!UploadsAssumption, UploadInv PROVE U!ListTellsTheApprovals
<1>1. ASSUME U!AtRest, NEW a \in U!Ids \ upAstray, files[a.file] = "kept"
      PROVE  a \in approvals <=> shown # NoList /\ a \in U!Listed(shown)
  <2>1. a.file \in Files
    BY RulesAre
  <2>2. ~Asked(a, job[a.file])
    BY <1>1, <2>1 DEF U!AtRest, U!Ended, Asked
  <2>3. \A s \in Slots : ~Patches(a, upReq[s])
    BY <1>1 DEF U!AtRest, U!At, Patches
  <2> QED
    BY <1>1, <2>2, <2>3 DEF UploadInv, ListFits, Fit, ListDebt
<1> QED
  BY <1>1 DEF U!ListTellsTheApprovals

\* However the requests about files, their scans and the deaths of workers interleave: a file
\* is counted in the quota at most once, and not when it is gone; at rest, exactly once while
\* it is kept, if nobody has died and no two requests met at the file; and a file that was
\* deleted by itself leaves neither items nor approvals.
THEOREM UploadsAccounted == ASSUME U!UploadsAssumption PROVE U!Spec => []UploadsAreAccounted
<1>1. U!Init => UploadInv
  BY UploadsBegin
<1>2. UploadInv /\ [U!Next]_(U!vars) => UploadInv'
  BY UploadsKeep
<1>3. UploadInv => UploadsAreAccounted
  BY InvariantCounts DEF UploadsAreAccounted
<1> QED
  BY <1>1, <1>2, <1>3, PTL DEF U!Spec

\* At rest, the document in Redis lists an approval if and only if the table has it, for every
\* file that is there, but for what an overlapping write, a death, a missing document or an
\* entry without id has put astray.
THEOREM ListTells == ASSUME U!UploadsAssumption PROVE U!Spec => []ListTellsTheApprovals
<1>1. U!Init => UploadInv
  BY UploadsBegin
<1>2. UploadInv /\ [U!Next]_(U!vars) => UploadInv'
  BY UploadsKeep
<1>3. UploadInv => ListTellsTheApprovals
  BY InvariantLists DEF ListTellsTheApprovals
<1> QED
  BY <1>1, <1>2, <1>3, PTL DEF U!Spec
==============================================================================
