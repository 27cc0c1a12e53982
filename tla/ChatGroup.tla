------------------------------ MODULE ChatGroup ------------------------------
(***************************************************************************)
(* One group chat as the database and Redis hold it, and the pieces every  *)
(* request handler of the group is made of.                                *)
(*                                                                         *)
(* The tables: the Chat row (alive, owner), ChatAssociations (live),       *)
(* ChatRanks (ranks, index), ChatPermissionAssociations (grants),          *)
(* ChatRankAssociations (rows) and ChatInvites (invites).  Redis: one      *)
(* "chatPermissions:<user>:<association>" entry per association (cache).   *)
(*                                                                         *)
(* There is no transaction anywhere: each await is a point where another   *)
(* request can run.  A request is a record in job; what a handler started  *)
(* and did not await (cache regeneration, index normalisation) stays in    *)
(* the same record after the handler itself has answered.                  *)
(***************************************************************************)
EXTENDS Integers, FiniteSets, Sequences

CONSTANTS
  Users,          \* user ids
  Bots,           \* the users that are bot accounts
  Assocs,         \* association ids, allocated once and never reused
  UserOf,         \* UserOf[a] : the user association a is created for
  Ranks,          \* rank ids, allocated once and never reused
  Managed,        \* the managed "Members" rank
  Administrators, \* the "Administrators" rank created with the group
  Founders,       \* the associations the group is created with
  Founder,        \* the association of the group's creator
  Invited,        \* the invites there are at the start, by their rankId
  HasUnread,      \* users with a Redis "unread:<user>" document
  Jobs,           \* request slots of the worker processes
  NoRank          \* ChatInvite.rankId unset

MemberPermissions == {"SEND_MESSAGES", "INVITE_USERS"}

\* The rows of the ChatPermissions table that some handler tells apart.
Permissions ==
  MemberPermissions \cup
  {"MANAGE_RANKS", "ADD_USERS", "REMOVE_USERS", "MANAGE_INTEGRATIONS",
   "ADMIN", "TRUSTED"}

\* OWNER is computed, never stored.
AllPermissions == Permissions \cup {"OWNER"}

\* What stands where a permission set may be: sets that are no permission set.
NoEntry == {"no entry"}  \* Redis has no such key
NoFill  == {"no fill"}   \* no cache fill in progress
Owed    == {"owed"}      \* a regeneration that has not read the tables yet
Wanted  == {"wanted"}    \* a cached read that has not looked at Redis yet

ASSUME RankAssumption ==
  /\ IsFiniteSet(Ranks)
  /\ Managed \in Ranks
  /\ Administrators \in Ranks
  /\ Managed # Administrators
  /\ NoRank \notin Ranks
  /\ Invited \subseteq {Managed, Administrators, NoRank}

ASSUME AssocAssumption ==
  /\ UserOf \in [Assocs -> Users]
  /\ Founders \subseteq Assocs
  /\ \A a, b \in Founders : UserOf[a] = UserOf[b] => a = b
  /\ Founder \in Founders

VARIABLES
  alive,     \* the Chat row exists
  owner,     \* Chat.userId
  live,      \* ChatAssociation rows
  born,      \* association ids handed out so far
  ranks,     \* ChatRank rows
  drawn,     \* rank ids handed out so far
  index,     \* ChatRank.index
  grants,    \* the permissions of each rank
  rows,      \* rows[a][r] : ChatRankAssociation rows, nothing makes them unique
  invites,   \* ChatInvite rows, by their rankId
  cache,     \* the Redis permission entries
  job,       \* the requests in flight
  perms,     \* perms[j] : what checkPermissions returned to j
  fill,      \* fill[j][a] : j's regeneration of a's cache entry
  excuses,   \* history: why a cache entry may be wrong (see Excuses)
  granted,   \* history: permissions added by a request that held OWNER and ADMIN
  owners     \* history: users that have been Chat.userId

tables == <<alive, owner, live, born, ranks, drawn, index, grants, rows, invites>>
history == <<excuses, granted, owners>>

(***************************************************************************)
(* The reasons this code has for a cache entry that differs from the       *)
(* tables when nothing is in flight.                                       *)
(***************************************************************************)
Excuses ==
  {"overlap",     \* two requests that change the group overlapped
   "half",        \* updateChatRank threw after part of its writes
   "ruin",        \* deleteGroup threw after part of its writes
   "late",        \* the entry was filled before a rank row or grant of a newcomer
   "crash"}       \* the worker died with a request in flight

Operations ==
  {"none", "check", "toggle", "update", "create", "order", "remove", "bot",
   "kick", "leave", "add", "join", "invite", "uninvite", "transfer", "destroy"}

Points ==
  {"authorize", "miss", "read", "write", "remove", "grant", "seat", "row", "rank",
   "botrow", "grants", "purge", "unread", "destroy", "other", "disband", "done"}

Request ==
  [op : Operations, pc : Points, by : Assocs, need : AllPermissions,
   next : Points, users : SUBSET Users, todo : SUBSET Assocs, folk : SUBSET Assocs,
   target : Assocs, rank : Ranks, fresh : Ranks, invite : Ranks \cup {NoRank},
   map : SUBSET Permissions, have : SUBSET Permissions,
   order : Seq(Ranks), queue : Seq(Ranks),
   seen : Nat, highest : Int, snap : [Ranks -> Int], chatOwner : Users,
   clash : BOOLEAN, norm : {"off", "read", "write", "users"}, pos : Nat,
   loaded : [Ranks -> Int]]

NoRequest ==
  [op |-> "none", pc |-> "done", by |-> Founder, need |-> "SEND_MESSAGES",
   next |-> "done", users |-> {}, todo |-> {}, folk |-> {}, target |-> Founder,
   rank |-> Managed, fresh |-> Managed, invite |-> NoRank, map |-> {}, have |-> {},
   order |-> <<>>, queue |-> <<>>,
   seen |-> 0, highest |-> 0, snap |-> [r \in Ranks |-> 0], chatOwner |-> UserOf[Founder],
   clash |-> FALSE, norm |-> "off", pos |-> 0, loaded |-> [r \in Ranks |-> 0]]

------------------------------------------------------------------------------
(* What the tables say. *)

Held(a) == {r \in ranks : rows[a][r] > 0}

\* Slip: only the members that hold nothing but the rank.
HoldersOnly(r) == {a \in live : Held(a) = {r}}

Holders(r) == {a \in live : r \in Held(a)}

\* Slip: whoever holds ADMIN counts as the owner.
EffectiveAdminOwns(a) ==
  LET byRank == UNION {grants[r] : r \in Held(a)}
  IN byRank \cup (IF "ADMIN" \in byRank THEN {"OWNER"} ELSE {})

\* getPermissions after its query: the permissions of the association's ranks,
\* and OWNER for the user of Chat.userId.
Effective(a) ==
  (UNION {grants[r] : r \in Held(a)})
    \cup (IF UserOf[a] = owner THEN {"OWNER"} ELSE {})

\* getHighestIndex: 0 for a member without ranks.
HighestIndex(a) ==
  LET is == {index[r] : r \in Held(a)}
      Top(i) == \A k \in is : k <= i
  IN IF \E i \in is : Top(i) THEN CHOOSE i \in is : Top(i) ELSE 0

\* getChatFromAssociation finds the chat for this association.
Seated(a) == alive /\ a \in live

\* checkPermissions: ADMIN and OWNER stand for everything but OWNER and TRUSTED.
Allows(have, need) ==
  \/ need \in have
  \/ need \notin {"OWNER", "TRUSTED"} /\ have \cap {"ADMIN", "OWNER"} # {}

\* RANK_TOO_HIGH for a caller whose highest rank has index top.
TooHigh(r, have, top) ==
  \/ index[r] >= top /\ have \cap {"TRUSTED", "OWNER"} = {}
  \/ index[r] > top /\ "OWNER" \notin have /\ "TRUSTED" \in have

\* Slip: the managed rank is not sorted to the front.
ListingsByIndex ==
  {s \in [1..Cardinality(ranks) -> ranks] :
     \A i, k \in DOMAIN s : i < k => s[i] # s[k] /\ index[s[i]] <= index[s[k]]}

\* The rank listings normalizeIndexes may load: managed first, then by index;
\* equal indexes come in any order.
Listings ==
  {s \in [1..Cardinality(ranks) -> ranks] :
     \A i, k \in DOMAIN s : i < k =>
       /\ s[i] # s[k]
       /\ s[k] # Managed
       /\ s[i] # Managed => index[s[i]] <= index[s[k]]}

------------------------------------------------------------------------------
(* Bookkeeping of a request. *)

Put(j, q) == job' = [job EXCEPT ![j] = q]
Goto(j, pc) == Put(j, [job[j] EXCEPT !.pc = pc])
At(j, op, pc) == job[j].op = op /\ job[j].pc = pc
Checking(j, pc) == job[j].op # "none" /\ job[j].pc = pc

\* Another request that changes the group is in flight, or a permission check
\* is between its database read and its Redis write.  A request that arrived in
\* such a moment may act on what it read there after the other has ended (clash).
Overlap(j) ==
  \E k \in Jobs \ {j} :
    /\ job[k].op # "none"
    /\ job[k].op = "check" => job[k].pc = "miss"

Excuse(set) == excuses' = excuses \cup set
OverlapExcuse(j) == IF job[j].clash \/ Overlap(j) THEN {"overlap"} ELSE {}
Wrote(j) == Excuse(OverlapExcuse(j)) /\ UNCHANGED <<granted, owners>>

\* j is not between reading the tables for a's entry and writing it to Redis.
Unfilled(j, a) == fill[j][a] \in {NoFill, Owed, Wanted}

OweAll(j, as) ==
  fill' = [fill EXCEPT ![j] = [a \in Assocs |-> IF a \in as THEN Owed ELSE fill[j][a]]]

------------------------------------------------------------------------------
(* checkPermissions at the head of a handler: getPermissions answers from  *)
(* Redis, or reads the tables and then writes Redis.                       *)

Decide(j, have) ==
  /\ perms' = [perms EXCEPT ![j] = have]
  /\ Goto(j, IF Allows(have, job[j].need) THEN job[j].next ELSE "done")

CheckHit(j) ==
  /\ Checking(j, "authorize")
  /\ cache[job[j].by] # NoEntry
  /\ Decide(j, cache[job[j].by])
  /\ UNCHANGED <<tables, cache, fill, history>>

CheckRead(j) ==
  /\ Checking(j, "authorize")
  /\ cache[job[j].by] = NoEntry
  /\ IF job[j].by \in live
     THEN /\ perms' = [perms EXCEPT ![j] = Effective(job[j].by)]
          /\ Goto(j, "miss")
     ELSE Decide(j, {})
  /\ UNCHANGED <<tables, cache, fill, history>>

CheckWrite(j) ==
  /\ Checking(j, "miss")
  /\ cache' = [cache EXCEPT ![job[j].by] = perms[j]]
  /\ Decide(j, perms[j])
  /\ UNCHANGED <<tables, fill, history>>

(* Regeneration of one association's entry (syncPermissions, or            *)
(* getPermissions with reset), and a cached read that nobody awaits.  The  *)
(* loop of normalizeIndexes awaits each regeneration before the next.      *)

FillRead(j, a) ==
  /\ \/ fill[j][a] = Owed
     \/ fill[j][a] = Wanted /\ cache[a] = NoEntry
  /\ job[j].norm = "users" => \A b \in Assocs : Unfilled(j, b)
  /\ fill' = [fill EXCEPT ![j][a] = IF a \in live THEN Effective(a) ELSE NoFill]
  /\ UNCHANGED <<tables, cache, job, perms, history>>

FillHit(j, a) ==
  /\ fill[j][a] = Wanted
  /\ cache[a] # NoEntry
  /\ fill' = [fill EXCEPT ![j][a] = NoFill]
  /\ UNCHANGED <<tables, cache, job, perms, history>>

FillWrite(j, a) ==
  /\ ~Unfilled(j, a)
  /\ cache' = [cache EXCEPT ![a] = fill[j][a]]
  /\ fill' = [fill EXCEPT ![j][a] = NoFill]
  /\ UNCHANGED <<tables, job, perms, history>>

(* normalizeIndexes: list the ranks, give each its position, one update at *)
(* a time, then regenerate the entry of every member.  An update that      *)
(* would not change the loaded index sends no query.                       *)

NormRead(j) ==
  /\ job[j].norm = "read"
  /\ \E s \in Listings :
       Put(j, [job[j] EXCEPT !.norm = "write", !.queue = s, !.pos = 0, !.loaded = index])
  /\ UNCHANGED <<tables, cache, perms, fill, history>>

NormWrite(j) ==
  LET q == job[j]
      r == Head(q.queue)
  IN
  /\ q.norm = "write"
  /\ q.queue # <<>>
  /\ index' = IF r \in ranks /\ q.loaded[r] # q.pos
              THEN [index EXCEPT ![r] = q.pos] ELSE index
  /\ Put(j, [q EXCEPT !.queue = Tail(@), !.pos = @ + 1])
  /\ Wrote(j)
  /\ UNCHANGED <<alive, owner, live, born, ranks, drawn, grants, rows, invites,
                 cache, perms, fill>>

NormUsers(j) ==
  /\ job[j].norm = "write"
  /\ job[j].queue = <<>>
  /\ \A a \in Assocs : Unfilled(j, a)
  /\ Put(j, [job[j] EXCEPT !.norm = "users"])
  /\ IF alive THEN OweAll(j, live) ELSE UNCHANGED fill
  /\ UNCHANGED <<tables, cache, perms, history>>

(* A request is over when its handler has answered and everything it left  *)
(* running has ended.                                                      *)
Settled(j) ==
  /\ job[j].pc = "done"
  /\ job[j].norm \in {"off", "users"}
  /\ \A a \in Assocs : fill[j][a] = NoFill

Finish(j) ==
  /\ job[j].op # "none"
  /\ Settled(j)
  /\ Put(j, NoRequest)
  /\ perms' = [perms EXCEPT ![j] = {}]
  /\ UNCHANGED <<tables, cache, fill, history>>

\* cluster.ts: a worker that dies takes its requests with it.
Crash(j) ==
  /\ job[j].op # "none"
  /\ Put(j, NoRequest)
  /\ perms' = [perms EXCEPT ![j] = {}]
  /\ fill' = [fill EXCEPT ![j] = [a \in Assocs |-> NoFill]]
  /\ Excuse({"crash"})
  /\ UNCHANGED <<tables, cache, granted, owners>>

------------------------------------------------------------------------------
(* createChat and createDefaults have run: two ranks, every founder holds  *)
(* the managed one and has a regenerated entry, the creator holds both.    *)
Init ==
  /\ alive = TRUE
  /\ owner = UserOf[Founder]
  /\ live = Founders
  /\ born = Founders
  /\ ranks = {Managed, Administrators}
  /\ drawn = {Managed, Administrators}
  /\ index = [r \in Ranks |-> IF r = Administrators THEN 1 ELSE 0]
  /\ grants = [r \in Ranks |->
                 CASE r = Managed -> MemberPermissions
                   [] r = Administrators -> MemberPermissions \cup {"ADMIN"}
                   [] OTHER -> {}]
  /\ rows = [a \in Assocs |-> [r \in Ranks |->
               IF \/ r = Managed /\ a \in Founders
                  \/ r = Administrators /\ a = Founder
               THEN 1 ELSE 0]]
  /\ invites = Invited
  /\ cache = [a \in Assocs |-> IF a \in Founders THEN Effective(a) ELSE NoEntry]
  /\ job = [j \in Jobs |-> NoRequest]
  /\ perms = [j \in Jobs |-> {}]
  /\ fill = [j \in Jobs |-> [a \in Assocs |-> NoFill]]
  /\ excuses = {}
  /\ granted = {}
  /\ owners = {owner}

TablesOK ==
  /\ alive \in BOOLEAN
  /\ owner \in Users
  /\ live \subseteq Assocs /\ born \subseteq Assocs
  /\ ranks \subseteq Ranks /\ drawn \subseteq Ranks
  /\ index \in [Ranks -> Int]
  /\ grants \in [Ranks -> SUBSET Permissions]
  /\ rows \in [Assocs -> [Ranks -> Nat]]
  /\ invites \subseteq Ranks \cup {NoRank}

EntriesOK ==
  /\ cache \in [Assocs -> {NoEntry} \cup SUBSET AllPermissions]
  /\ perms \in [Jobs -> SUBSET AllPermissions]
  /\ fill \in [Jobs -> [Assocs -> {NoFill, Owed, Wanted} \cup SUBSET AllPermissions]]

HistoryOK ==
  /\ excuses \subseteq Excuses
  /\ granted \subseteq Permissions
  /\ owners \subseteq Users

TypeOK == TablesOK /\ EntriesOK /\ HistoryOK /\ job \in [Jobs -> Request]
==============================================================================
