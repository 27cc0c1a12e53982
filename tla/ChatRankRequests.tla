-------------------------- MODULE ChatRankRequests --------------------------
(***************************************************************************)
(* The mutations of chatRank.resolver.ts, toggleUserRank and the invite    *)
(* mutations, from the read that follows checkPermissions to the last      *)
(* write.  Each step ends at an await another request can run in; the      *)
(* reads of one handler that follow each other are one step.               *)
(***************************************************************************)
EXTENDS ChatGroup

Ask(op, by, need) ==
  [NoRequest EXCEPT !.op = op, !.by = by, !.need = need,
                    !.pc = "authorize", !.next = "read"]

Admit(j, q) ==
  /\ job[j].op = "none"
  /\ Put(j, [q EXCEPT !.clash = Overlap(j)])
  /\ UNCHANGED <<cache, perms, fill, history>>

------------------------------------------------------------------------------
(* toggleUserRank: give the target the rank, or take it away if held. *)

CallToggle(j, by, target, rank) ==
  /\ Admit(j, [Ask("toggle", by, "MANAGE_RANKS") EXCEPT !.target = target, !.rank = rank])
  /\ UNCHANGED tables

ToggleRead(j) ==
  LET q == job[j] IN
  /\ At(j, "toggle", "read")
  /\ IF /\ Seated(q.by) /\ q.target \in live
        /\ q.rank \in ranks /\ q.rank # Managed
        /\ ~TooHigh(q.rank, perms[j], HighestIndex(q.by))
     THEN Put(j, [q EXCEPT !.pc = "write", !.seen = rows[q.target][q.rank]])
     ELSE Goto(j, "done")
  /\ UNCHANGED <<tables, cache, perms, fill, history>>

ToggleAdd(j) ==
  LET q == job[j] IN
  /\ At(j, "toggle", "write") /\ q.seen = 0
  /\ IF q.target \in live /\ q.rank \in ranks
     THEN /\ rows' = [rows EXCEPT ![q.target][q.rank] = @ + 1]
          /\ OweAll(j, {q.target})
     ELSE UNCHANGED <<rows, fill>>
  /\ Goto(j, "done")
  /\ Wrote(j)
  /\ UNCHANGED <<alive, owner, live, born, ranks, drawn, index, grants, invites, cache, perms>>

\* Slip: the row counted is destroyed whether it is still there or not.
ToggleTakeBlind(j) ==
  LET q == job[j] IN
  /\ At(j, "toggle", "write") /\ q.seen > 0
  /\ rows' = [rows EXCEPT ![q.target][q.rank] = @ - 1]
  /\ OweAll(j, {q.target})
  /\ Goto(j, "done")
  /\ Wrote(j)
  /\ UNCHANGED <<alive, owner, live, born, ranks, drawn, index, grants, invites, cache, perms>>

\* The row found is destroyed by its id: nothing happens to the others, nor if
\* a concurrent toggle has destroyed this very row.
ToggleTake(j) ==
  LET q == job[j]
      n == rows[q.target][q.rank]
  IN
  /\ At(j, "toggle", "write") /\ q.seen > 0
  /\ \/ n > 0 /\ rows' = [rows EXCEPT ![q.target][q.rank] = n - 1]
     \/ n < q.seen /\ UNCHANGED rows
  /\ OweAll(j, {q.target})
  /\ Goto(j, "done")
  /\ Wrote(j)
  /\ UNCHANGED <<alive, owner, live, born, ranks, drawn, index, grants, invites, cache, perms>>

------------------------------------------------------------------------------
(* updateChatRank: make the rank's permissions those of the input map.     *)
(* The additions run in one Promise.all, the removals in another: a throw  *)
(* in one of them does not stop its siblings, and skips what follows.      *)

CallUpdate(j, by, rank, map) ==
  /\ Admit(j, [Ask("update", by, "MANAGE_RANKS") EXCEPT !.rank = rank, !.map = map])
  /\ UNCHANGED tables

UpdateRead(j) ==
  LET q == job[j] IN
  /\ At(j, "update", "read")
  /\ IF /\ Seated(q.by) /\ q.rank \in ranks
        /\ ~TooHigh(q.rank, perms[j], HighestIndex(q.by))
     THEN Put(j, [q EXCEPT !.pc = "write", !.have = grants[q.rank], !.chatOwner = owner,
                           !.todo = Holders(q.rank)])
     ELSE Goto(j, "done")
  /\ UNCHANGED <<tables, cache, perms, fill, history>>

MayTouchTrusted(j) == UserOf[job[j].by] = job[j].chatOwner

MayGrantAll(j) == {"OWNER", "ADMIN"} \subseteq perms[j]

\* Slip: only TRUSTED is looked at.
GrantableAny(j) == {p \in Permissions : p = "TRUSTED" => MayTouchTrusted(j)}

Grantable(j) ==
  {p \in Permissions :
     /\ p = "TRUSTED" => MayTouchTrusted(j)
     /\ p \in perms[j] \/ MayGrantAll(j)}

UpdateAdd(j) ==
  LET q     == job[j]
      add   == q.map \ q.have
      given == IF q.rank \in ranks THEN add \cap Grantable(j) ELSE {}
  IN
  /\ At(j, "update", "write")
  /\ grants' = [grants EXCEPT ![q.rank] = @ \cup given]
  /\ Goto(j, IF given = add THEN "remove" ELSE "done")
  /\ Excuse(OverlapExcuse(j) \cup (IF given \notin {{}, add} THEN {"half"} ELSE {}))
  /\ granted' = granted \cup (IF MayGrantAll(j) THEN given ELSE {})
  /\ UNCHANGED <<alive, owner, live, born, ranks, drawn, index, rows, invites,
                 cache, perms, fill, owners>>

UpdateRemove(j) ==
  LET q       == job[j]
      drop    == q.have \ q.map
      dropped == IF MayTouchTrusted(j) THEN drop ELSE drop \ {"TRUSTED"}
      changed == dropped # {} \/ q.map \ q.have # {}
  IN
  /\ At(j, "update", "remove")
  /\ grants' = [grants EXCEPT ![q.rank] = @ \ dropped]
  /\ IF dropped = drop THEN OweAll(j, q.todo) ELSE UNCHANGED fill
  /\ Goto(j, "done")
  /\ Excuse(OverlapExcuse(j) \cup (IF dropped # drop /\ changed THEN {"half"} ELSE {}))
  /\ UNCHANGED <<alive, owner, live, born, ranks, drawn, index, rows, invites,
                 cache, perms, granted, owners>>

------------------------------------------------------------------------------
(* addChatRank: a new rank at index 1 with the member permissions, then a  *)
(* normalisation nobody awaits.                                            *)

CallCreate(j, by, rank) ==
  /\ rank \notin drawn
  /\ drawn' = drawn \cup {rank}
  /\ Admit(j, [Ask("create", by, "MANAGE_RANKS") EXCEPT !.fresh = rank])
  /\ UNCHANGED <<alive, owner, live, born, ranks, index, grants, rows, invites>>

CreateRank(j) ==
  LET q == job[j] IN
  /\ At(j, "create", "read")
  /\ IF Seated(q.by)
     THEN /\ ranks' = ranks \cup {q.fresh}
          /\ index' = [index EXCEPT ![q.fresh] = 1]
          /\ Goto(j, "grant")
          /\ Wrote(j)
     ELSE /\ Goto(j, "done")
          /\ UNCHANGED <<ranks, index, history>>
  /\ UNCHANGED <<alive, owner, live, born, drawn, grants, rows, invites, cache, perms, fill>>

CreateGrants(j) ==
  LET q == job[j] IN
  /\ At(j, "create", "grant")
  /\ IF q.fresh \in ranks
     THEN /\ grants' = [grants EXCEPT ![q.fresh] = MemberPermissions]
          /\ Put(j, [q EXCEPT !.pc = "done", !.norm = "read"])
     ELSE /\ Goto(j, "done")
          /\ UNCHANGED grants
  /\ Wrote(j)
  /\ UNCHANGED <<alive, owner, live, born, ranks, drawn, index, rows, invites, cache, perms, fill>>

------------------------------------------------------------------------------
(* updateChatRankOrder: the input lists the ranks from the highest down.   *)
(* Every rank of the group gets its place from the end of that list, -1 if *)
(* it is not there; the first one the caller may not move ends the loop.   *)

CallOrder(j, by, order) ==
  /\ Admit(j, [Ask("order", by, "MANAGE_RANKS") EXCEPT !.order = order])
  /\ UNCHANGED tables

PlaceIn(order, r) ==
  IF \E i \in DOMAIN order : order[i] = r
  THEN Len(order) - (CHOOSE i \in DOMAIN order : order[i] = r)
  ELSE -1

\* findAll without an order.
Enumerations ==
  {s \in [1..Cardinality(ranks) -> ranks] : \A i, k \in DOMAIN s : i # k => s[i] # s[k]}

OrderRead(j) ==
  LET q == job[j] IN
  /\ At(j, "order", "read")
  /\ IF Seated(q.by) /\ \A i \in DOMAIN q.order : q.order[i] \in ranks
     THEN \E s \in Enumerations :
            Put(j, [q EXCEPT !.pc = "write", !.queue = s, !.snap = index,
                             !.highest = HighestIndex(q.by), !.chatOwner = owner])
     ELSE Goto(j, "done")
  /\ UNCHANGED <<tables, cache, perms, fill, history>>

\* Slip: only the new place is compared with the caller's highest rank.
MayMoveDown(q, r) ==
  \/ PlaceIn(q.order, r) < q.highest
  \/ UserOf[q.by] = q.chatOwner

MayMove(q, r) ==
  \/ q.snap[r] = PlaceIn(q.order, r)
  \/ PlaceIn(q.order, r) < q.highest /\ q.snap[r] < q.highest
  \/ UserOf[q.by] = q.chatOwner

OrderMove(j) ==
  LET q == job[j]
      r == Head(q.queue)
  IN
  /\ At(j, "order", "write") /\ q.queue # <<>>
  /\ MayMove(q, r)
  /\ index' = IF r \in ranks /\ q.snap[r] # PlaceIn(q.order, r)
              THEN [index EXCEPT ![r] = PlaceIn(q.order, r)] ELSE index
  /\ Put(j, [q EXCEPT !.queue = Tail(@)])
  /\ Wrote(j)
  /\ UNCHANGED <<alive, owner, live, born, ranks, drawn, grants, rows, invites,
                 cache, perms, fill>>

\* The loop is over, or RANK_TOO_HIGH leaves it: either way the normalisation
\* is started and not awaited.
OrderEnd(j) ==
  LET q == job[j] IN
  /\ At(j, "order", "write")
  /\ q.queue # <<>> => ~MayMove(q, Head(q.queue))
  /\ Put(j, [q EXCEPT !.pc = "done", !.norm = "read", !.queue = <<>>])
  /\ UNCHANGED <<tables, cache, perms, fill, history>>

------------------------------------------------------------------------------
(* deleteChatRank: the rank's rows and grants go with it; an invite that   *)
(* confers the rank makes the database refuse.                             *)

CallRemove(j, by, rank) ==
  /\ Admit(j, [Ask("remove", by, "MANAGE_RANKS") EXCEPT !.rank = rank])
  /\ UNCHANGED tables

RemoveRead(j) ==
  LET q == job[j] IN
  /\ At(j, "remove", "read")
  /\ IF /\ Seated(q.by)
        /\ q.rank \in ranks /\ q.rank # Managed
        /\ ~TooHigh(q.rank, perms[j], HighestIndex(q.by))
     THEN Put(j, [q EXCEPT !.pc = "write", !.todo = live])
     ELSE Goto(j, "done")
  /\ UNCHANGED <<tables, cache, perms, fill, history>>

RemoveWrite(j) ==
  LET q == job[j] IN
  /\ At(j, "remove", "write")
  /\ IF q.rank \in invites
     THEN UNCHANGED <<ranks, grants, rows, fill>>
     ELSE /\ ranks' = ranks \ {q.rank}
          /\ grants' = [grants EXCEPT ![q.rank] = {}]
          /\ rows' = [a \in Assocs |-> [rows[a] EXCEPT ![q.rank] = 0]]
          /\ OweAll(j, q.todo)
  /\ Goto(j, "done")
  /\ Wrote(j)
  /\ UNCHANGED <<alive, owner, live, born, drawn, index, invites, cache, perms>>

------------------------------------------------------------------------------
(* createChatInvite and invalidateChatInvite. *)

CallInvite(j, by, rank) ==
  /\ Admit(j, [Ask("invite", by, "INVITE_USERS") EXCEPT !.invite = rank])
  /\ UNCHANGED tables

InviteRead(j) ==
  LET q == job[j] IN
  /\ At(j, "invite", "read")
  /\ IF /\ Seated(q.by)
        /\ \/ q.invite = NoRank
           \/ /\ q.invite \in ranks
              /\ index[q.invite] <= HighestIndex(q.by) \/ "OWNER" \in perms[j]
     THEN Goto(j, "write") ELSE Goto(j, "done")
  /\ UNCHANGED <<tables, cache, perms, fill, history>>

InviteWrite(j) ==
  /\ At(j, "invite", "write")
  /\ invites' = IF alive /\ job[j].invite \in ranks \cup {NoRank}
                THEN invites \cup {job[j].invite} ELSE invites
  /\ Goto(j, "done")
  /\ Wrote(j)
  /\ UNCHANGED <<alive, owner, live, born, ranks, drawn, index, grants, rows, cache, perms, fill>>

CallUninvite(j, by, rank) ==
  /\ Admit(j, [Ask("uninvite", by, "REMOVE_USERS") EXCEPT !.invite = rank])
  /\ UNCHANGED tables

UninviteRead(j) ==
  /\ At(j, "uninvite", "read")
  /\ Goto(j, IF Seated(job[j].by) /\ job[j].invite \in invites THEN "write" ELSE "done")
  /\ UNCHANGED <<tables, cache, perms, fill, history>>

UninviteWrite(j) ==
  /\ At(j, "uninvite", "write")
  /\ invites' = invites \ {job[j].invite}
  /\ Goto(j, "done")
  /\ Wrote(j)
  /\ UNCHANGED <<alive, owner, live, born, ranks, drawn, index, grants, rows, cache, perms, fill>>
==============================================================================
