--------------------------- MODULE ChatPermissions ---------------------------
(***************************************************************************)
(* The permission system of a group: requests arrive in any order and run  *)
(* interleaved at their awaits.  What must hold of the rank hierarchy, of  *)
(* the granted permissions and of the Redis entries that every permission  *)
(* check trusts.                                                           *)
(***************************************************************************)
EXTENDS ChatMemberRequests

CONSTANTS
  MaxRequests,  \* bound: requests that arrive in one behaviour
  MaxCrashes,   \* bound: worker crashes in one behaviour
  Served,       \* the operations that arrive
  Maps,         \* permission maps given to updateChatRank and addBotToChat
  Orders,       \* rank lists given to updateChatRankOrder
  Checks        \* permissions that other operations ask for

VARIABLES
  asked,        \* requests so far
  crashes       \* crashes so far

ASSUME BoundAssumption ==
  /\ MaxRequests \in Nat /\ MaxCrashes \in Nat
  /\ Served \subseteq Operations \ {"none"}
  /\ Maps \subseteq SUBSET Permissions
  /\ Orders \subseteq Seq(Ranks)
  /\ Checks \subseteq AllPermissions

vars == <<tables, cache, job, perms, fill, history, asked, crashes>>

Arrive(j) ==
  \/ \E by, target \in born, rank \in drawn :
       "toggle" \in Served /\ CallToggle(j, by, target, rank)
  \/ \E by \in born, rank \in drawn, map \in Maps :
       "update" \in Served /\ CallUpdate(j, by, rank, map)
  \/ \E by \in born, rank \in Ranks :
       "create" \in Served /\ CallCreate(j, by, rank)
  \/ \E by \in born, order \in Orders :
       "order" \in Served /\ CallOrder(j, by, order)
  \/ \E by \in born, rank \in drawn :
       "remove" \in Served /\ CallRemove(j, by, rank)
  \/ \E by \in born, rank \in drawn \cup {NoRank} :
       \/ "invite" \in Served /\ CallInvite(j, by, rank)
       \/ "uninvite" \in Served /\ CallUninvite(j, by, rank)
  \/ \E by \in born, as \in SUBSET Assocs :
       /\ as # {}
       /\ "add" \in Served /\ CallAdd(j, by, as)
  \/ \E a \in Assocs, rank \in drawn \cup {NoRank} :
       "join" \in Served /\ CallJoin(j, a, rank)
  \/ \E by \in born, a \in Assocs, rank \in Ranks, map \in Maps :
       "bot" \in Served /\ CallBot(j, by, a, rank, map)
  \/ \E by \in born, us \in SUBSET Users :
       /\ us # {}
       /\ "kick" \in Served /\ CallKick(j, by, us)
  \/ \E by \in born :
       \/ "leave" \in Served /\ CallLeave(j, by)
       \/ "destroy" \in Served /\ CallDestroy(j, by)
  \/ \E by, target \in born :
       "transfer" \in Served /\ CallTransfer(j, by, target)
  \/ \E by \in born, need \in Checks :
       "check" \in Served /\ CallCheck(j, by, need)

RankStep(j) ==
  \/ ToggleRead(j) \/ ToggleAdd(j) \/ ToggleTake(j)
  \/ UpdateRead(j) \/ UpdateAdd(j) \/ UpdateRemove(j)
  \/ CreateRank(j) \/ CreateGrants(j)
  \/ OrderRead(j) \/ OrderMove(j) \/ OrderEnd(j)
  \/ RemoveRead(j) \/ RemoveWrite(j)
  \/ InviteRead(j) \/ InviteWrite(j) \/ UninviteRead(j) \/ UninviteWrite(j)

MemberStep(j) ==
  \/ AddRead(j) \/ JoinRead(j) \/ BotRead(j)
  \/ Seat(j) \/ SeatRow(j)
  \/ BotRank(j) \/ BotRow(j) \/ BotGrants(j)
  \/ KickRead(j) \/ LeaveRead(j) \/ Purge(j) \/ Unread(j) \/ KickWrite(j)
  \/ TransferRead(j) \/ TransferWrite(j) \/ TransferOther(j)
  \/ DestroyRead(j) \/ Disband(j) \/ DestroyWrite(j)

CacheStep(j) ==
  \/ CheckHit(j) \/ CheckRead(j) \/ CheckWrite(j)
  \/ \E a \in Assocs : FillRead(j, a) \/ FillHit(j, a) \/ FillWrite(j, a)

NormStep(j) == NormRead(j) \/ NormWrite(j) \/ NormUsers(j)

\* What the event loop does with a request once it is there.
Run(j) == RankStep(j) \/ MemberStep(j) \/ CacheStep(j) \/ NormStep(j) \/ Finish(j)

Next ==
  \E j \in Jobs :
    \/ asked < MaxRequests /\ Arrive(j) /\ asked' = asked + 1 /\ UNCHANGED crashes
    \/ Run(j) /\ UNCHANGED <<asked, crashes>>
    \/ crashes < MaxCrashes /\ Crash(j) /\ crashes' = crashes + 1 /\ UNCHANGED asked

Initial == Init /\ asked = 0 /\ crashes = 0

Spec == Initial /\ [][Next]_vars

\* Node keeps running what it has started; nobody has to send a request, and
\* nothing has to crash.
FairSpec == Spec /\ \A j \in Jobs : WF_vars(Run(j) /\ UNCHANGED <<asked, crashes>>)

------------------------------------------------------------------------------
Quiet == \A j \in Jobs : job[j].op = "none"

\* Whenever nothing is in flight, the Redis entry of every member is the set its
\* ranks and the ownership give it, unless one of the named accidents happened
\* (what a half-done deleteGroup leaves is still told correctly): every handler that
\* changes a rank, a row or the owner regenerates all entries that depend on it
\* (syncPermissions, normalizeIndexes, transferGroupOwnership).
CacheTellsTheTables ==
  Quiet /\ excuses \subseteq {"ruin"} =>
    \A a \in live : cache[a] # NoEntry => cache[a] = Effective(a)

\* Under every interleaving and every crash, a permission beyond those of a plain
\* member is in circulation (on a rank, in an entry, in a request's hands) only if
\* the group was created with it or a request that held both OWNER and ADMIN
\* granted it (the grant checks of updateChatRank and addBotToChat).
Circulating ==
  (UNION {grants[r] : r \in Ranks})
    \cup (UNION {cache[a] : a \in {b \in Assocs : cache[b] # NoEntry}})
    \cup (UNION {perms[j] : j \in Jobs})
    \cup (UNION {UNION {fill[j][a] : a \in {b \in Assocs : ~Unfilled(j, b)}} : j \in Jobs})

PrivilegeIsConserved ==
  Circulating \ {"OWNER"} \subseteq MemberPermissions \cup {"ADMIN"} \cup granted

\* OWNER is in the entry of an association, on its way there, or in the hands of a
\* request of that association, only if its user is or was Chat.userId.
OwnerEntryIsEarned ==
  /\ \A a \in Assocs : cache[a] # NoEntry /\ "OWNER" \in cache[a] => UserOf[a] \in owners
  /\ \A j \in Jobs : "OWNER" \in perms[j] => UserOf[job[j].by] \in owners
  /\ \A j \in Jobs, a \in Assocs :
       ~Unfilled(j, a) /\ "OWNER" \in fill[j][a] => UserOf[a] \in owners

\* With no overlapping requests and no crash, the ranks of a group at rest have
\* distinct indexes and the managed rank has the lowest: normalizeIndexes restores
\* what addChatRank, addBotToChat and a half-done updateChatRankOrder disturb, and
\* RANK_TOO_HIGH never compares two ranks that tie.
HierarchyIsStrict ==
  Quiet /\ excuses \subseteq {"half", "late", "ruin"} =>
    \A r, s \in ranks : r # s => index[r] # index[s] /\ (r = Managed => index[r] < index[s])

\* The owner of a group at rest is one of its members (removeUserFromChat skips
\* the owner, leaveChat refuses the owner, ownership only goes to a member), unless
\* a transfer overlapped a removal, or deleteGroup stopped half-way.
OwnerIsMember ==
  Quiet /\ alive /\ excuses \subseteq {"half", "late"} =>
    \E a \in live : UserOf[a] = owner

\* One user has one association, however joins, additions and bots race: the
\* check for an existing association is repeated by the unique identifier.
OneSeatPerUser == \A a, b \in live : UserOf[a] = UserOf[b] => a = b

\* A reordering by someone who does not own the group, uninterrupted, leaves every
\* rank at or above the caller's highest one above all the ranks that were below
\* it, even when it stops half-way with RANK_TOO_HIGH.
OrderStaysBelow ==
  [][\A j \in Jobs :
       /\ At(j, "order", "done") /\ job'[j].op = "none"
       /\ job[j].norm = "users"
       /\ excuses' \subseteq {"half", "late", "ruin"}
       /\ UserOf[job[j].by] # job[j].chatOwner
       => \A r, s \in ranks :
            /\ job[j].snap[r] >= job[j].highest
            /\ job[j].snap[s] < job[j].snap[r]
            => index[s] < index[r]]_vars

\* A revoked permission leaves the Redis entry in the end: an entry that says more
\* than the tables is corrected, unless requests overlapped, a worker died, or
\* updateChatRank threw after it had taken some of the permissions away.
RevocationArrives ==
  \A a \in Assocs :
    (a \in live /\ cache[a] # NoEntry /\ ~(cache[a] \subseteq Effective(a)))
      ~> (a \notin live \/ cache[a] = NoEntry \/ cache[a] \subseteq Effective(a)
          \/ excuses \cap {"overlap", "half", "crash"} # {})
==============================================================================
