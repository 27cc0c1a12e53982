------------------------- MODULE ChatMemberRequests -------------------------
(***************************************************************************)
(* How associations come and go: addUsersToChat, joinChatFromInvite,       *)
(* addBotToChat, removeUserFromChat and leaveChat, transferGroupOwnership, *)
(* deleteGroup; and the bare permission check of every other operation.    *)
(***************************************************************************)
EXTENDS ChatRankRequests

Unseated(u) == \A a \in live : UserOf[a] # u

\* Association ids are handed out with the request that will use them.
Reserve(as) ==
  /\ as \cap born = {}
  /\ born' = born \cup as
  /\ UNCHANGED <<alive, owner, live, ranks, drawn, index, grants, rows, invites>>

------------------------------------------------------------------------------
(* addUsersToChat: friends of the caller, one after the other. *)

CallAdd(j, by, as) ==
  /\ Reserve(as)
  /\ Admit(j, [Ask("add", by, "ADD_USERS") EXCEPT !.todo = as])

AddRead(j) ==
  LET q == job[j] IN
  /\ At(j, "add", "read")
  /\ Goto(j, IF Seated(q.by) /\ Managed \in ranks /\ \A a \in q.todo : Unseated(UserOf[a])
             THEN "seat" ELSE "done")
  /\ UNCHANGED <<tables, cache, perms, fill, history>>

(* joinChatFromInvite: not for bots; the rank of the invite, or the managed one. *)

CallJoin(j, a, invite) ==
  /\ UserOf[a] \notin Bots
  /\ Reserve({a})
  /\ Admit(j, [NoRequest EXCEPT !.op = "join", !.pc = "read", !.by = a,
                                !.todo = {a}, !.invite = invite])

JoinRead(j) ==
  LET q == job[j]
      r == IF q.invite = NoRank THEN Managed ELSE q.invite
  IN
  /\ At(j, "join", "read")
  /\ IF q.invite \in invites /\ Unseated(UserOf[q.by]) /\ r \in ranks
     THEN Put(j, [q EXCEPT !.pc = "seat", !.rank = r])
     ELSE Goto(j, "done")
  /\ UNCHANGED <<tables, cache, perms, fill, history>>

(* addBotToChat: addUsersToChat by force, then a rank of the bot's own. *)

CallBot(j, by, a, rank, map) ==
  /\ UserOf[a] \in Bots
  /\ rank \notin drawn /\ a \notin born
  /\ born' = born \cup {a}
  /\ drawn' = drawn \cup {rank}
  /\ Admit(j, [Ask("bot", by, "MANAGE_INTEGRATIONS") EXCEPT
                 !.todo = {a}, !.fresh = rank, !.map = map])
  /\ UNCHANGED <<alive, owner, live, ranks, index, grants, rows, invites>>

BotRead(j) ==
  LET q == job[j] IN
  /\ At(j, "bot", "read")
  /\ Goto(j, IF Seated(q.by) /\ Managed \in ranks /\ \A a \in q.todo : Unseated(UserOf[a])
             THEN "seat" ELSE "done")
  /\ UNCHANGED <<tables, cache, perms, fill, history>>

------------------------------------------------------------------------------
(* The two inserts all three share.  ChatAssociations.identifier is        *)
(* unique; its chatId refers to nothing.  The join message, sent without   *)
(* awaiting it, checks the sender's permissions.                           *)

\* Slip: no unique identifier on the association.
SeatBlind(j) ==
  LET q == job[j] IN
  /\ q.pc = "seat"
  /\ \E a \in q.todo :
       /\ live' = live \cup {a}
       /\ Put(j, [q EXCEPT !.pc = "row", !.todo = @ \ {a}, !.target = a])
  /\ Wrote(j)
  /\ UNCHANGED <<alive, owner, born, ranks, drawn, index, grants, rows, invites,
                 cache, perms, fill>>

Seat(j) ==
  LET q == job[j] IN
  /\ q.pc = "seat"
  /\ \E a \in q.todo :
       IF Unseated(UserOf[a])
       THEN /\ live' = live \cup {a}
            /\ Put(j, [q EXCEPT !.pc = "row", !.todo = @ \ {a}, !.target = a])
       ELSE /\ UNCHANGED live
            /\ Goto(j, "done")
  /\ Wrote(j)
  /\ UNCHANGED <<alive, owner, born, ranks, drawn, index, grants, rows, invites,
                 cache, perms, fill>>

Late(j, a) == IF cache[a] # NoEntry \/ ~Unfilled(j, a) THEN {"late"} ELSE {}

Sends(j, a) ==
  fill' = [fill EXCEPT ![j][a] = IF @ = NoFill THEN Wanted ELSE @]

SeatRow(j) ==
  LET q == job[j] IN
  /\ q.pc = "row"
  /\ IF q.target \in live /\ q.rank \in ranks
     THEN /\ rows' = [rows EXCEPT ![q.target][q.rank] = @ + 1]
          /\ Sends(j, IF q.op = "join" THEN q.target ELSE q.by)
          /\ Goto(j, CASE q.todo # {} -> "seat"
                       [] q.todo = {} /\ q.op = "bot" -> "rank"
                       [] OTHER -> "done")
     ELSE /\ UNCHANGED <<rows, fill>>
          /\ Goto(j, "done")
  /\ Excuse(OverlapExcuse(j) \cup Late(j, q.target))
  /\ UNCHANGED <<alive, owner, live, born, ranks, drawn, index, grants, invites,
                 cache, perms, granted, owners>>

(* The rest of addBotToChat: the rank at index 0, a normalisation that is  *)
(* not awaited, the bot's row, and those of the asked permissions that the *)
(* caller's own set contains.                                              *)

\* Slip: the normalisation is forgotten.
BotRankBare(j) ==
  LET q == job[j] IN
  /\ At(j, "bot", "rank")
  /\ IF q.target \in live
     THEN /\ ranks' = ranks \cup {q.fresh}
          /\ index' = [index EXCEPT ![q.fresh] = 0]
          /\ Goto(j, "botrow")
     ELSE /\ UNCHANGED <<ranks, index>>
          /\ Goto(j, "done")
  /\ Wrote(j)
  /\ UNCHANGED <<alive, owner, live, born, drawn, grants, rows, invites, cache, perms, fill>>

BotRank(j) ==
  LET q == job[j] IN
  /\ At(j, "bot", "rank")
  /\ IF q.target \in live
     THEN /\ ranks' = ranks \cup {q.fresh}
          /\ index' = [index EXCEPT ![q.fresh] = 0]
          /\ Put(j, [q EXCEPT !.pc = "botrow", !.norm = "read"])
     ELSE /\ UNCHANGED <<ranks, index>>
          /\ Goto(j, "done")
  /\ Wrote(j)
  /\ UNCHANGED <<alive, owner, live, born, drawn, grants, rows, invites, cache, perms, fill>>

BotRow(j) ==
  LET q == job[j] IN
  /\ At(j, "bot", "botrow")
  /\ IF q.target \in live /\ q.fresh \in ranks
     THEN /\ rows' = [rows EXCEPT ![q.target][q.fresh] = @ + 1]
          /\ Goto(j, "grants")
     ELSE /\ UNCHANGED rows
          /\ Goto(j, "done")
  /\ Wrote(j)
  /\ UNCHANGED <<alive, owner, live, born, ranks, drawn, index, grants, invites,
                 cache, perms, fill>>

\* Slip: whatever is asked for is granted.
BotGrantsAll(j) ==
  LET q     == job[j]
      given == IF q.fresh \in ranks THEN q.map ELSE {}
  IN
  /\ At(j, "bot", "grants")
  /\ grants' = [grants EXCEPT ![q.fresh] = @ \cup given]
  /\ Goto(j, "done")
  /\ Excuse(OverlapExcuse(j) \cup (IF given = {} THEN {} ELSE Late(j, q.target)))
  /\ UNCHANGED <<alive, owner, live, born, ranks, drawn, index, rows, invites,
                 cache, perms, fill, granted, owners>>

BotGrants(j) ==
  LET q     == job[j]
      given == IF q.fresh \in ranks THEN q.map \cap perms[j] ELSE {}
  IN
  /\ At(j, "bot", "grants")
  /\ grants' = [grants EXCEPT ![q.fresh] = @ \cup given]
  /\ Goto(j, "done")
  /\ Excuse(OverlapExcuse(j) \cup (IF given = {} THEN {} ELSE Late(j, q.target)))
  /\ UNCHANGED <<alive, owner, live, born, ranks, drawn, index, rows, invites,
                 cache, perms, fill, granted, owners>>

------------------------------------------------------------------------------
(* removeUserFromChat: the entries go first, each followed by a message    *)
(* that the caller must be allowed to send and by the user's unread        *)
(* document; the associations go last, in one statement.                   *)

CallKick(j, by, us) ==
  /\ Admit(j, [Ask("kick", by, "REMOVE_USERS") EXCEPT !.users = us])
  /\ UNCHANGED tables

\* Slip: the owner is as removable as anybody.
RemovableOwner(j) ==
  {a \in live :
     /\ UserOf[a] \in job[j].users
     /\ UserOf[job[j].by] = owner \/ HighestIndex(a) < HighestIndex(job[j].by)}

Removable(j) ==
  LET q    == job[j]
      mine == HighestIndex(q.by)
  IN {a \in live :
        /\ UserOf[a] \in q.users
        /\ UserOf[a] # owner
        /\ \/ UserOf[q.by] = owner
           \/ HighestIndex(a) < mine
           \/ HighestIndex(a) = mine /\ "TRUSTED" \in perms[j]}

KickRead(j) ==
  LET q == job[j] IN
  /\ At(j, "kick", "read")
  /\ IF Seated(q.by) /\ Removable(j) # {}
     THEN Put(j, [q EXCEPT !.pc = "purge", !.todo = Removable(j), !.folk = Removable(j)])
     ELSE Goto(j, "done")
  /\ UNCHANGED <<tables, cache, perms, fill, history>>

\* leaveChat in a group: not for the owner, and no permission is asked for.
CallLeave(j, by) ==
  /\ Admit(j, [NoRequest EXCEPT !.op = "leave", !.pc = "read", !.by = by])
  /\ UNCHANGED tables

LeaveRead(j) ==
  LET q == job[j] IN
  /\ At(j, "leave", "read")
  /\ IF Seated(q.by) /\ UserOf[q.by] # owner
     THEN Put(j, [q EXCEPT !.pc = "purge", !.todo = {q.by}, !.folk = {q.by}])
     ELSE Goto(j, "done")
  /\ UNCHANGED <<tables, cache, perms, fill, history>>

Purge(j) ==
  LET q == job[j] IN
  /\ q.pc = "purge"
  /\ \E a \in q.todo :
       /\ cache' = [cache EXCEPT ![a] = NoEntry]
       /\ Put(j, [q EXCEPT !.pc = "authorize", !.target = a,
                           !.need = "SEND_MESSAGES", !.next = "unread"])
  /\ UNCHANGED <<tables, perms, fill, history>>

\* delete on a missing unread document throws.
Unread(j) ==
  LET q    == job[j]
      rest == q.todo \ {q.target}
  IN
  /\ q.pc = "unread"
  /\ IF Seated(q.by) /\ UserOf[q.target] \in HasUnread
     THEN Put(j, [q EXCEPT !.pc = IF rest = {} THEN "destroy" ELSE "purge", !.todo = rest])
     ELSE Goto(j, "done")
  /\ UNCHANGED <<tables, cache, perms, fill, history>>

Unseat(as) ==
  /\ live' = live \ as
  /\ rows' = [a \in Assocs |-> IF a \in as THEN [r \in Ranks |-> 0] ELSE rows[a]]

KickWrite(j) ==
  /\ job[j].pc = "destroy"
  /\ Unseat(job[j].folk)
  /\ Goto(j, "done")
  /\ Wrote(j)
  /\ UNCHANGED <<alive, owner, born, ranks, drawn, index, grants, invites, cache, perms, fill>>

------------------------------------------------------------------------------
(* transferGroupOwnership: Chat.userId, then the entry of the old owner,   *)
(* then that of the new one.                                               *)

CallTransfer(j, by, target) ==
  /\ Admit(j, [Ask("transfer", by, "OWNER") EXCEPT !.target = target])
  /\ UNCHANGED tables

TransferRead(j) ==
  LET q == job[j] IN
  /\ At(j, "transfer", "read")
  /\ IF Seated(q.by) /\ q.target \in live
     THEN Put(j, [q EXCEPT !.pc = "write", !.chatOwner = owner])
     ELSE Goto(j, "done")
  /\ UNCHANGED <<tables, cache, perms, fill, history>>

TransferWrite(j) ==
  LET q == job[j] IN
  /\ At(j, "transfer", "write")
  /\ owner' = IF alive /\ UserOf[q.target] # q.chatOwner THEN UserOf[q.target] ELSE owner
  /\ owners' = owners \cup {owner'}
  /\ OweAll(j, {q.by})
  /\ Goto(j, "other")
  /\ Excuse(OverlapExcuse(j))
  /\ UNCHANGED <<alive, live, born, ranks, drawn, index, grants, rows, invites,
                 cache, perms, granted>>

\* Slip: the new owner's entry is left as it was.
TransferOtherNot(j) ==
  /\ At(j, "transfer", "other")
  /\ fill[j][job[j].by] = NoFill
  /\ Goto(j, "done")
  /\ UNCHANGED <<tables, cache, perms, fill, history>>

TransferOther(j) ==
  LET q == job[j] IN
  /\ At(j, "transfer", "other")
  /\ fill[j][q.by] = NoFill
  /\ OweAll(j, {q.target})
  /\ Goto(j, "done")
  /\ UNCHANGED <<tables, cache, perms, history>>

------------------------------------------------------------------------------
(* deleteGroup: association by association, then the grants, the ranks     *)
(* (which an invite conferring one of them prevents) and the chat.         *)

CallDestroy(j, by) ==
  /\ Admit(j, Ask("destroy", by, "OWNER"))
  /\ UNCHANGED tables

DestroyRead(j) ==
  LET q == job[j] IN
  /\ At(j, "destroy", "read")
  /\ IF Seated(q.by)
     THEN Put(j, [q EXCEPT !.pc = "disband", !.todo = live])
     ELSE Goto(j, "done")
  /\ UNCHANGED <<tables, cache, perms, fill, history>>

Disband(j) ==
  LET q == job[j] IN
  /\ At(j, "destroy", "disband")
  /\ \E a \in q.todo :
       /\ Unseat({a})
       /\ IF UserOf[a] \in HasUnread
          THEN Put(j, [q EXCEPT !.todo = @ \ {a}]) /\ Excuse(OverlapExcuse(j))
          ELSE Goto(j, "done") /\ Excuse(OverlapExcuse(j) \cup {"ruin"})
  /\ UNCHANGED <<alive, owner, born, ranks, drawn, index, grants, invites,
                 cache, perms, fill, granted, owners>>

DestroyWrite(j) ==
  LET q == job[j] IN
  /\ At(j, "destroy", "disband") /\ q.todo = {}
  /\ grants' = [r \in Ranks |-> {}]
  /\ IF invites \cap ranks # {}
     THEN /\ Excuse(OverlapExcuse(j) \cup {"ruin"})
          /\ UNCHANGED <<alive, ranks, rows, invites>>
     ELSE /\ alive' = FALSE
          /\ Excuse(OverlapExcuse(j))
          /\ ranks' = {}
          /\ rows' = [a \in Assocs |-> [r \in Ranks |-> 0]]
          /\ invites' = {}
  /\ Goto(j, "done")
  /\ UNCHANGED <<owner, live, born, drawn, index, cache, perms, fill, granted, owners>>

------------------------------------------------------------------------------
(* Every other operation on the group asks checkPermissions and goes its   *)
(* own way: for the permission store it is the check alone.                *)

CallCheck(j, by, need) ==
  /\ Admit(j, [Ask("check", by, need) EXCEPT !.next = "done"])
  /\ UNCHANGED tables
==============================================================================
