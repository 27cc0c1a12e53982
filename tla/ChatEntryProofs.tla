-------------------------- MODULE ChatEntryProofs --------------------------
(***************************************************************************)
(* What the Redis entries of a group say, for every number of users,       *)
(* ranks, associations and requests.                                       *)
(*                                                                         *)
(* First, under every interleaving and every crash: no privilege out of    *)
(* nothing (PrivilegeConserved, OwnerEntryEarned).  Permission sets sit in *)
(* four places: on a rank, in a Redis entry, in the hands of a request, in *)
(* a regeneration.  Most steps are tame: they only take permissions away   *)
(* from a place.  The invariant Bounded says what each place holds; the    *)
(* few steps that are not tame move a set from one place to another        *)
(* (checks, regenerations) or pass a grant check (updateChatRank,          *)
(* addBotToChat) or hand out the member permissions.                       *)
(*                                                                         *)
(* Then, of requests that do not overlap: at rest, the entry of a member   *)
(* is what its ranks and the ownership give it (EntriesTellTheTables).     *)
(* The invariant Told says that an entry is right or somebody still owes   *)
(* its regeneration; Untouched, that nothing anywhere speaks of an         *)
(* association or a rank before it is inserted.                            *)
(***************************************************************************)
EXTENDS ChatRestProofs

Allowed == MemberPermissions \cup {"ADMIN", "OWNER"} \cup granted

Bounded ==
  /\ \A r \in Ranks : grants[r] \subseteq Allowed
  /\ \A a \in Assocs : cache[a] # NoEntry => cache[a] \subseteq Allowed
  /\ \A k \in Jobs : perms[k] \subseteq Allowed
  /\ \A k \in Jobs, a \in Assocs : ~Unfilled(k, a) => fill[k][a] \subseteq Allowed

\* OwnerEntryIsEarned is not inductive by itself: the current owner must be among
\* the owners, and a free slot must hold no permissions for its next request.
Earned ==
  /\ OwnerEntryIsEarned
  /\ owner \in owners
  /\ \A k \in Jobs : job[k].op = "none" => perms[k] = {}

Keeps ==
  /\ granted \subseteq granted' /\ owners \subseteq owners'
  /\ \A r \in Ranks : grants'[r] \subseteq grants[r]
  /\ \A a \in Assocs : cache'[a] \in {cache[a], NoEntry}
  /\ \A k \in Jobs : perms'[k] \in {perms[k], {}}
  /\ \A k \in Jobs, a \in Assocs : fill'[k][a] \in {fill[k][a], NoFill, Owed, Wanted}

SameRequests == \A k \in Jobs : job'[k].by = job[k].by /\ job'[k].op = job[k].op

Tame == Keeps /\ SameRequests /\ (owner \in owners => owner' \in owners')

------------------------------------------------------------------------------
(* What tame steps preserve. *)

LEMMA Markers ==
  /\ NoEntry \notin SUBSET AllPermissions /\ NoFill \notin SUBSET AllPermissions
  /\ Owed \notin SUBSET AllPermissions /\ Wanted \notin SUBSET AllPermissions
BY DEF NoEntry, NoFill, Owed, Wanted, AllPermissions, Permissions, MemberPermissions

LEMMA KeepsBounded ==
  ASSUME Bounded, Keeps
  PROVE  Bounded'
<1>1. Allowed \subseteq Allowed'  BY DEF Keeps, Allowed
<1>2. \A r \in Ranks : grants'[r] \subseteq Allowed'  BY <1>1 DEF Keeps, Bounded
<1>3. \A a \in Assocs : cache'[a] # NoEntry => cache'[a] \subseteq Allowed'
  BY <1>1 DEF Keeps, Bounded
<1>4. \A k \in Jobs : perms'[k] \subseteq Allowed'  BY <1>1 DEF Keeps, Bounded
<1>5. \A k \in Jobs, a \in Assocs : ~Unfilled(k, a)' => fill'[k][a] \subseteq Allowed'
  BY <1>1 DEF Keeps, Bounded, Unfilled
<1>6. QED  BY <1>2, <1>3, <1>4, <1>5 DEF Bounded

LEMMA TameEarned ==
  ASSUME Earned, Tame
  PROVE  Earned'
<1>1. \A a \in Assocs : cache'[a] # NoEntry /\ "OWNER" \in cache'[a] => UserOf[a] \in owners'
  BY DEF Earned, OwnerEntryIsEarned, Tame, Keeps
<1>2. \A k \in Jobs : "OWNER" \in perms'[k] => UserOf[job'[k].by] \in owners'
  BY DEF Earned, OwnerEntryIsEarned, Tame, Keeps, SameRequests
<1>3. \A k \in Jobs, a \in Assocs :
        ~Unfilled(k, a)' /\ "OWNER" \in fill'[k][a] => UserOf[a] \in owners'
  BY DEF Earned, OwnerEntryIsEarned, Tame, Keeps, Unfilled
<1>4. owner' \in owners'  BY DEF Earned, Tame
<1>5. \A k \in Jobs : job'[k].op = "none" => perms'[k] = {}
  BY DEF Earned, Tame, Keeps, SameRequests
<1>6. QED  BY <1>1, <1>2, <1>3, <1>4, <1>5 DEF Earned, OwnerEntryIsEarned

------------------------------------------------------------------------------
(* The bookkeeping is tame. *)

LEMMA PutSame ==
  ASSUME TypeOK, NEW j \in Jobs, NEW q, Put(j, q), q.by = job[j].by, q.op = job[j].op
  PROVE  SameRequests
BY DEF TypeOK, Put, SameRequests

LEMMA GotoSame ==
  ASSUME TypeOK, NEW j \in Jobs, NEW pc, Goto(j, pc)
  PROVE  SameRequests
<1>1. job[j] \in Request  BY JobType
<1>2. [job[j] EXCEPT !.pc = pc].by = job[j].by /\ [job[j] EXCEPT !.pc = pc].op = job[j].op
  BY <1>1 DEF Request
<1>3. QED  BY <1>2, PutSame DEF Goto

LEMMA QuietKeeps ==
  ASSUME UNCHANGED <<tables, cache, perms, fill, history>>
  PROVE  Keeps /\ (owner \in owners => owner' \in owners')
BY DEF tables, history, Keeps

LEMMA WroteKeeps ==
  ASSUME NEW j, Wrote(j)
  PROVE  granted' = granted /\ owners' = owners
BY DEF Wrote

LEMMA OweAllKeeps ==
  ASSUME TypeOK, NEW j \in Jobs, NEW as, OweAll(j, as)
  PROVE  \A k \in Jobs, a \in Assocs : fill'[k][a] \in {fill[k][a], NoFill, Owed, Wanted}
BY DEF OweAll, TypeOK, EntriesOK

LEMMA SendsKeeps ==
  ASSUME TypeOK, NEW j \in Jobs, NEW b \in Assocs, Sends(j, b)
  PROVE  \A k \in Jobs, a \in Assocs : fill'[k][a] \in {fill[k][a], NoFill, Owed, Wanted}
<1>1. fill \in [Jobs -> [Assocs -> FillValues]]  BY DEF TypeOK, EntriesOK, FillValues
<1>2. QED  BY <1>1 DEF Sends

------------------------------------------------------------------------------
(* The tame steps. *)

LEMMA NormReadTame ==
  ASSUME TypeOK, NEW j \in Jobs, NormRead(j)
  PROVE  Tame
<1>1. job[j] \in Request  BY JobType
<1>2. \A s \in Listings :
       LET q == [job[j] EXCEPT !.norm = "write", !.queue = s, !.pos = 0, !.loaded = index]
       IN q.by = job[j].by /\ q.op = job[j].op
  BY <1>1 DEF Request
<1>3. SameRequests  BY <1>2, PutSame, GotoSame DEF NormRead
<1>4. QED  BY <1>3, QuietKeeps DEF NormRead, Tame

LEMMA NormWriteTame ==
  ASSUME TypeOK, NEW j \in Jobs, NormWrite(j)
  PROVE  Tame
<1>1. job[j] \in Request  BY JobType
<1>2. LET q == [job[j] EXCEPT !.queue = Tail(@), !.pos = @ + 1]
       IN q.by = job[j].by /\ q.op = job[j].op
  BY <1>1 DEF Request
<1>3. SameRequests  BY <1>2, PutSame, GotoSame DEF NormWrite
<1>4. \A k \in Jobs, a \in Assocs : fill'[k][a] \in {fill[k][a], NoFill, Owed, Wanted}
  BY DEF NormWrite
<1>5. Keeps
  BY <1>4, WroteKeeps DEF NormWrite, Keeps, TypeOK, TablesOK, EntriesOK
<1>6. QED  BY <1>3, <1>5, WroteKeeps DEF NormWrite, Tame

LEMMA NormUsersTame ==
  ASSUME TypeOK, NEW j \in Jobs, NormUsers(j)
  PROVE  Tame
<1>1. job[j] \in Request  BY JobType
<1>2. LET q == [job[j] EXCEPT !.norm = "users"]
       IN q.by = job[j].by /\ q.op = job[j].op
  BY <1>1 DEF Request
<1>3. SameRequests  BY <1>2, PutSame, GotoSame DEF NormUsers
<1>4. \A k \in Jobs, a \in Assocs : fill'[k][a] \in {fill[k][a], NoFill, Owed, Wanted}
  BY OweAllKeeps DEF NormUsers
<1>5. Keeps
  BY <1>4 DEF NormUsers, Keeps, TypeOK, TablesOK, EntriesOK, tables, history
<1>6. QED  BY <1>3, <1>5 DEF NormUsers, Tame, tables, history

LEMMA ToggleReadTame ==
  ASSUME TypeOK, NEW j \in Jobs, ToggleRead(j)
  PROVE  Tame
<1>1. job[j] \in Request  BY JobType
<1>2. LET q == [job[j] EXCEPT !.pc = "write", !.seen = rows[job[j].target][job[j].rank]]
       IN q.by = job[j].by /\ q.op = job[j].op
  BY <1>1 DEF Request
<1>3. SameRequests  BY <1>2, PutSame, GotoSame DEF ToggleRead
<1>4. QED  BY <1>3, QuietKeeps DEF ToggleRead, Tame

LEMMA ToggleAddTame ==
  ASSUME TypeOK, NEW j \in Jobs, ToggleAdd(j)
  PROVE  Tame
<1>1. job[j] \in Request  BY JobType
<1>2. SameRequests  BY PutSame, GotoSame DEF ToggleAdd
<1>3. \A k \in Jobs, a \in Assocs : fill'[k][a] \in {fill[k][a], NoFill, Owed, Wanted}
  BY OweAllKeeps DEF ToggleAdd
<1>4. Keeps
  BY <1>3, WroteKeeps DEF ToggleAdd, Keeps, TypeOK, TablesOK, EntriesOK
<1>5. QED  BY <1>2, <1>4, WroteKeeps DEF ToggleAdd, Tame

LEMMA ToggleTakeTame ==
  ASSUME TypeOK, NEW j \in Jobs, ToggleTake(j)
  PROVE  Tame
<1>1. job[j] \in Request  BY JobType
<1>2. SameRequests  BY PutSame, GotoSame DEF ToggleTake
<1>3. \A k \in Jobs, a \in Assocs : fill'[k][a] \in {fill[k][a], NoFill, Owed, Wanted}
  BY OweAllKeeps DEF ToggleTake
<1>4. Keeps
  BY <1>3, WroteKeeps DEF ToggleTake, Keeps, TypeOK, TablesOK, EntriesOK
<1>5. QED  BY <1>2, <1>4, WroteKeeps DEF ToggleTake, Tame

LEMMA UpdateReadTame ==
  ASSUME TypeOK, NEW j \in Jobs, UpdateRead(j)
  PROVE  Tame
<1>1. job[j] \in Request  BY JobType
<1>2. LET q == [job[j] EXCEPT !.pc = "write", !.have = grants[job[j].rank], !.chatOwner = owner,
                                 !.todo = Holders(job[j].rank)]
       IN q.by = job[j].by /\ q.op = job[j].op
  BY <1>1 DEF Request
<1>3. SameRequests  BY <1>2, PutSame, GotoSame DEF UpdateRead
<1>4. QED  BY <1>3, QuietKeeps DEF UpdateRead, Tame

LEMMA UpdateRemoveTame ==
  ASSUME TypeOK, NEW j \in Jobs, UpdateRemove(j)
  PROVE  Tame
<1>1. job[j] \in Request  BY JobType
<1>2. SameRequests  BY PutSame, GotoSame DEF UpdateRemove
<1>3. \A k \in Jobs, a \in Assocs : fill'[k][a] \in {fill[k][a], NoFill, Owed, Wanted}
  BY OweAllKeeps DEF UpdateRemove
<1>4. Keeps
  BY <1>3 DEF UpdateRemove, Keeps, TypeOK, TablesOK, EntriesOK
<1>5. QED  BY <1>2, <1>4 DEF UpdateRemove, Tame

LEMMA CreateRankTame ==
  ASSUME TypeOK, NEW j \in Jobs, CreateRank(j)
  PROVE  Tame
<1>1. job[j] \in Request  BY JobType
<1>2. SameRequests  BY PutSame, GotoSame DEF CreateRank
<1>3. \A k \in Jobs, a \in Assocs : fill'[k][a] \in {fill[k][a], NoFill, Owed, Wanted}
  BY DEF CreateRank
<1>4. Keeps
  BY <1>3, WroteKeeps DEF CreateRank, Keeps, TypeOK, TablesOK, EntriesOK, history
<1>5. QED  BY <1>2, <1>4, WroteKeeps DEF CreateRank, Tame, history

LEMMA OrderReadTame ==
  ASSUME TypeOK, NEW j \in Jobs, OrderRead(j)
  PROVE  Tame
<1>1. job[j] \in Request  BY JobType
<1>2. \A s \in Enumerations :
       LET q == [job[j] EXCEPT !.pc = "write", !.queue = s, !.snap = index,
                     !.highest = HighestIndex(job[j].by), !.chatOwner = owner]
       IN q.by = job[j].by /\ q.op = job[j].op
  BY <1>1 DEF Request
<1>3. SameRequests  BY <1>2, PutSame, GotoSame DEF OrderRead
<1>4. QED  BY <1>3, QuietKeeps DEF OrderRead, Tame

LEMMA OrderMoveTame ==
  ASSUME TypeOK, NEW j \in Jobs, OrderMove(j)
  PROVE  Tame
<1>1. job[j] \in Request  BY JobType
<1>2. LET q == [job[j] EXCEPT !.queue = Tail(@)]
       IN q.by = job[j].by /\ q.op = job[j].op
  BY <1>1 DEF Request
<1>3. SameRequests  BY <1>2, PutSame, GotoSame DEF OrderMove
<1>4. \A k \in Jobs, a \in Assocs : fill'[k][a] \in {fill[k][a], NoFill, Owed, Wanted}
  BY DEF OrderMove
<1>5. Keeps
  BY <1>4, WroteKeeps DEF OrderMove, Keeps, TypeOK, TablesOK, EntriesOK
<1>6. QED  BY <1>3, <1>5, WroteKeeps DEF OrderMove, Tame

LEMMA OrderEndTame ==
  ASSUME TypeOK, NEW j \in Jobs, OrderEnd(j)
  PROVE  Tame
<1>1. job[j] \in Request  BY JobType
<1>2. LET q == [job[j] EXCEPT !.pc = "done", !.norm = "read", !.queue = <<>>]
       IN q.by = job[j].by /\ q.op = job[j].op
  BY <1>1 DEF Request
<1>3. SameRequests  BY <1>2, PutSame, GotoSame DEF OrderEnd
<1>4. QED  BY <1>3, QuietKeeps DEF OrderEnd, Tame

LEMMA RemoveReadTame ==
  ASSUME TypeOK, NEW j \in Jobs, RemoveRead(j)
  PROVE  Tame
<1>1. job[j] \in Request  BY JobType
<1>2. LET q == [job[j] EXCEPT !.pc = "write", !.todo = live]
       IN q.by = job[j].by /\ q.op = job[j].op
  BY <1>1 DEF Request
<1>3. SameRequests  BY <1>2, PutSame, GotoSame DEF RemoveRead
<1>4. QED  BY <1>3, QuietKeeps DEF RemoveRead, Tame

LEMMA RemoveWriteTame ==
  ASSUME TypeOK, NEW j \in Jobs, RemoveWrite(j)
  PROVE  Tame
<1>1. job[j] \in Request  BY JobType
<1>2. SameRequests  BY PutSame, GotoSame DEF RemoveWrite
<1>3. \A k \in Jobs, a \in Assocs : fill'[k][a] \in {fill[k][a], NoFill, Owed, Wanted}
  BY OweAllKeeps DEF RemoveWrite
<1>4. Keeps
  BY <1>3, WroteKeeps DEF RemoveWrite, Keeps, TypeOK, TablesOK, EntriesOK
<1>5. QED  BY <1>2, <1>4, WroteKeeps DEF RemoveWrite, Tame

LEMMA InviteReadTame ==
  ASSUME TypeOK, NEW j \in Jobs, InviteRead(j)
  PROVE  Tame
<1>1. SameRequests  BY GotoSame DEF InviteRead
<1>2. QED  BY <1>1, QuietKeeps DEF InviteRead, Tame

LEMMA InviteWriteTame ==
  ASSUME TypeOK, NEW j \in Jobs, InviteWrite(j)
  PROVE  Tame
<1>1. job[j] \in Request  BY JobType
<1>2. SameRequests  BY PutSame, GotoSame DEF InviteWrite
<1>3. \A k \in Jobs, a \in Assocs : fill'[k][a] \in {fill[k][a], NoFill, Owed, Wanted}
  BY DEF InviteWrite
<1>4. Keeps
  BY <1>3, WroteKeeps DEF InviteWrite, Keeps, TypeOK, TablesOK, EntriesOK
<1>5. QED  BY <1>2, <1>4, WroteKeeps DEF InviteWrite, Tame

LEMMA UninviteReadTame ==
  ASSUME TypeOK, NEW j \in Jobs, UninviteRead(j)
  PROVE  Tame
<1>1. SameRequests  BY GotoSame DEF UninviteRead
<1>2. QED  BY <1>1, QuietKeeps DEF UninviteRead, Tame

LEMMA UninviteWriteTame ==
  ASSUME TypeOK, NEW j \in Jobs, UninviteWrite(j)
  PROVE  Tame
<1>1. job[j] \in Request  BY JobType
<1>2. SameRequests  BY PutSame, GotoSame DEF UninviteWrite
<1>3. \A k \in Jobs, a \in Assocs : fill'[k][a] \in {fill[k][a], NoFill, Owed, Wanted}
  BY DEF UninviteWrite
<1>4. Keeps
  BY <1>3, WroteKeeps DEF UninviteWrite, Keeps, TypeOK, TablesOK, EntriesOK
<1>5. QED  BY <1>2, <1>4, WroteKeeps DEF UninviteWrite, Tame

LEMMA AddReadTame ==
  ASSUME TypeOK, NEW j \in Jobs, AddRead(j)
  PROVE  Tame
<1>1. SameRequests  BY GotoSame DEF AddRead
<1>2. QED  BY <1>1, QuietKeeps DEF AddRead, Tame

LEMMA JoinReadTame ==
  ASSUME TypeOK, NEW j \in Jobs, JoinRead(j)
  PROVE  Tame
<1>1. job[j] \in Request  BY JobType
<1>2. \A r :
       LET q == [job[j] EXCEPT !.pc = "seat", !.rank = r]
       IN q.by = job[j].by /\ q.op = job[j].op
  BY <1>1 DEF Request
<1>3. SameRequests  BY <1>2, PutSame, GotoSame DEF JoinRead
<1>4. QED  BY <1>3, QuietKeeps DEF JoinRead, Tame

LEMMA BotReadTame ==
  ASSUME TypeOK, NEW j \in Jobs, BotRead(j)
  PROVE  Tame
<1>1. SameRequests  BY GotoSame DEF BotRead
<1>2. QED  BY <1>1, QuietKeeps DEF BotRead, Tame

LEMMA SeatTame ==
  ASSUME TypeOK, NEW j \in Jobs, Seat(j)
  PROVE  Tame
<1>1. job[j] \in Request  BY JobType
<1>2. \A a :
       LET q == [job[j] EXCEPT !.pc = "row", !.todo = @ \ {a}, !.target = a]
       IN q.by = job[j].by /\ q.op = job[j].op
  BY <1>1 DEF Request
<1>3. SameRequests  BY <1>2, PutSame, GotoSame DEF Seat
<1>4. \A k \in Jobs, a \in Assocs : fill'[k][a] \in {fill[k][a], NoFill, Owed, Wanted}
  BY DEF Seat
<1>5. Keeps
  BY <1>4, WroteKeeps DEF Seat, Keeps, TypeOK, TablesOK, EntriesOK
<1>6. QED  BY <1>3, <1>5, WroteKeeps DEF Seat, Tame

LEMMA SeatRowTame ==
  ASSUME TypeOK, NEW j \in Jobs, SeatRow(j)
  PROVE  Tame
<1>1. job[j] \in Request  BY JobType
<1>2. (IF job[j].op = "join" THEN job[j].target ELSE job[j].by) \in Assocs
  BY <1>1 DEF Request
<1>3. SameRequests  BY GotoSame DEF SeatRow
<1>4. \A k \in Jobs, a \in Assocs : fill'[k][a] \in {fill[k][a], NoFill, Owed, Wanted}
  BY <1>2, SendsKeeps DEF SeatRow
<1>5. Keeps  BY <1>4 DEF SeatRow, Keeps
<1>6. QED  BY <1>3, <1>5 DEF SeatRow, Tame

LEMMA BotRankTame ==
  ASSUME TypeOK, NEW j \in Jobs, BotRank(j)
  PROVE  Tame
<1>1. job[j] \in Request  BY JobType
<1>2. LET q == [job[j] EXCEPT !.pc = "botrow", !.norm = "read"]
       IN q.by = job[j].by /\ q.op = job[j].op
  BY <1>1 DEF Request
<1>3. SameRequests  BY <1>2, PutSame, GotoSame DEF BotRank
<1>4. \A k \in Jobs, a \in Assocs : fill'[k][a] \in {fill[k][a], NoFill, Owed, Wanted}
  BY DEF BotRank
<1>5. Keeps
  BY <1>4, WroteKeeps DEF BotRank, Keeps, TypeOK, TablesOK, EntriesOK
<1>6. QED  BY <1>3, <1>5, WroteKeeps DEF BotRank, Tame

LEMMA BotRowTame ==
  ASSUME TypeOK, NEW j \in Jobs, BotRow(j)
  PROVE  Tame
<1>1. job[j] \in Request  BY JobType
<1>2. SameRequests  BY PutSame, GotoSame DEF BotRow
<1>3. \A k \in Jobs, a \in Assocs : fill'[k][a] \in {fill[k][a], NoFill, Owed, Wanted}
  BY DEF BotRow
<1>4. Keeps
  BY <1>3, WroteKeeps DEF BotRow, Keeps, TypeOK, TablesOK, EntriesOK
<1>5. QED  BY <1>2, <1>4, WroteKeeps DEF BotRow, Tame

LEMMA KickReadTame ==
  ASSUME TypeOK, NEW j \in Jobs, KickRead(j)
  PROVE  Tame
<1>1. job[j] \in Request  BY JobType
<1>2. LET q == [job[j] EXCEPT !.pc = "purge", !.todo = Removable(j), !.folk = Removable(j)]
       IN q.by = job[j].by /\ q.op = job[j].op
  BY <1>1 DEF Request
<1>3. SameRequests  BY <1>2, PutSame, GotoSame DEF KickRead
<1>4. QED  BY <1>3, QuietKeeps DEF KickRead, Tame

LEMMA LeaveReadTame ==
  ASSUME TypeOK, NEW j \in Jobs, LeaveRead(j)
  PROVE  Tame
<1>1. job[j] \in Request  BY JobType
<1>2. LET q == [job[j] EXCEPT !.pc = "purge", !.todo = {job[j].by}, !.folk = {job[j].by}]
       IN q.by = job[j].by /\ q.op = job[j].op
  BY <1>1 DEF Request
<1>3. SameRequests  BY <1>2, PutSame, GotoSame DEF LeaveRead
<1>4. QED  BY <1>3, QuietKeeps DEF LeaveRead, Tame

LEMMA PurgeTame ==
  ASSUME TypeOK, NEW j \in Jobs, Purge(j)
  PROVE  Tame
<1>1. job[j] \in Request  BY JobType
<1>2. \A a :
       LET q == [job[j] EXCEPT !.pc = "authorize", !.target = a,
                              !.need = "SEND_MESSAGES", !.next = "unread"]
       IN q.by = job[j].by /\ q.op = job[j].op
  BY <1>1 DEF Request
<1>3. SameRequests  BY <1>2, PutSame, GotoSame DEF Purge
<1>4. \A k \in Jobs, a \in Assocs : fill'[k][a] \in {fill[k][a], NoFill, Owed, Wanted}
  BY DEF Purge
<1>5. Keeps
  BY <1>4 DEF Purge, Keeps, TypeOK, TablesOK, EntriesOK, tables, history
<1>6. QED  BY <1>3, <1>5 DEF Purge, Tame, tables, history

LEMMA UnreadTame ==
  ASSUME TypeOK, NEW j \in Jobs, Unread(j)
  PROVE  Tame
<1>1. job[j] \in Request  BY JobType
<1>2. \A pc, rest :
       LET q == [job[j] EXCEPT !.pc = pc, !.todo = rest]
       IN q.by = job[j].by /\ q.op = job[j].op
  BY <1>1 DEF Request
<1>3. SameRequests  BY <1>2, PutSame, GotoSame DEF Unread
<1>4. QED  BY <1>3, QuietKeeps DEF Unread, Tame

LEMMA KickWriteTame ==
  ASSUME TypeOK, NEW j \in Jobs, KickWrite(j)
  PROVE  Tame
<1>1. job[j] \in Request  BY JobType
<1>2. SameRequests  BY PutSame, GotoSame DEF KickWrite
<1>3. \A k \in Jobs, a \in Assocs : fill'[k][a] \in {fill[k][a], NoFill, Owed, Wanted}
  BY DEF KickWrite
<1>4. Keeps
  BY <1>3, WroteKeeps DEF KickWrite, Keeps, TypeOK, TablesOK, EntriesOK
<1>5. QED  BY <1>2, <1>4, WroteKeeps DEF KickWrite, Tame

LEMMA TransferReadTame ==
  ASSUME TypeOK, NEW j \in Jobs, TransferRead(j)
  PROVE  Tame
<1>1. job[j] \in Request  BY JobType
<1>2. LET q == [job[j] EXCEPT !.pc = "write", !.chatOwner = owner]
       IN q.by = job[j].by /\ q.op = job[j].op
  BY <1>1 DEF Request
<1>3. SameRequests  BY <1>2, PutSame, GotoSame DEF TransferRead
<1>4. QED  BY <1>3, QuietKeeps DEF TransferRead, Tame

LEMMA TransferWriteTame ==
  ASSUME TypeOK, NEW j \in Jobs, TransferWrite(j)
  PROVE  Tame
<1>1. job[j] \in Request  BY JobType
<1>2. SameRequests  BY PutSame, GotoSame DEF TransferWrite
<1>3. \A k \in Jobs, a \in Assocs : fill'[k][a] \in {fill[k][a], NoFill, Owed, Wanted}
  BY OweAllKeeps DEF TransferWrite
<1>4. Keeps
  BY <1>3 DEF TransferWrite, Keeps, TypeOK, TablesOK, EntriesOK
<1>5. QED  BY <1>2, <1>4 DEF TransferWrite, Tame

LEMMA TransferOtherTame ==
  ASSUME TypeOK, NEW j \in Jobs, TransferOther(j)
  PROVE  Tame
<1>1. job[j] \in Request  BY JobType
<1>2. SameRequests  BY PutSame, GotoSame DEF TransferOther
<1>3. \A k \in Jobs, a \in Assocs : fill'[k][a] \in {fill[k][a], NoFill, Owed, Wanted}
  BY OweAllKeeps DEF TransferOther
<1>4. Keeps
  BY <1>3 DEF TransferOther, Keeps, TypeOK, TablesOK, EntriesOK, tables, history
<1>5. QED  BY <1>2, <1>4 DEF TransferOther, Tame, tables, history

LEMMA DestroyReadTame ==
  ASSUME TypeOK, NEW j \in Jobs, DestroyRead(j)
  PROVE  Tame
<1>1. job[j] \in Request  BY JobType
<1>2. LET q == [job[j] EXCEPT !.pc = "disband", !.todo = live]
       IN q.by = job[j].by /\ q.op = job[j].op
  BY <1>1 DEF Request
<1>3. SameRequests  BY <1>2, PutSame, GotoSame DEF DestroyRead
<1>4. QED  BY <1>3, QuietKeeps DEF DestroyRead, Tame

LEMMA DisbandTame ==
  ASSUME TypeOK, NEW j \in Jobs, Disband(j)
  PROVE  Tame
<1>1. job[j] \in Request  BY JobType
<1>2. \A a :
       LET q == [job[j] EXCEPT !.todo = @ \ {a}]
       IN q.by = job[j].by /\ q.op = job[j].op
  BY <1>1 DEF Request
<1>3. SameRequests  BY <1>2, PutSame, GotoSame DEF Disband
<1>4. \A k \in Jobs, a \in Assocs : fill'[k][a] \in {fill[k][a], NoFill, Owed, Wanted}
  BY DEF Disband
<1>5. Keeps
  BY <1>4 DEF Disband, Keeps, TypeOK, TablesOK, EntriesOK
<1>6. QED  BY <1>3, <1>5 DEF Disband, Tame

LEMMA DestroyWriteTame ==
  ASSUME TypeOK, NEW j \in Jobs, DestroyWrite(j)
  PROVE  Tame
<1>1. job[j] \in Request  BY JobType
<1>2. SameRequests  BY PutSame, GotoSame DEF DestroyWrite
<1>3. \A k \in Jobs, a \in Assocs : fill'[k][a] \in {fill[k][a], NoFill, Owed, Wanted}
  BY DEF DestroyWrite
<1>4. Keeps
  BY <1>3 DEF DestroyWrite, Keeps, TypeOK, TablesOK, EntriesOK
<1>5. QED  BY <1>2, <1>4 DEF DestroyWrite, Tame

LEMMA FillHitTame ==
  ASSUME TypeOK, NEW j \in Jobs, NEW b \in Assocs, FillHit(j, b)
  PROVE  Tame
BY DEF FillHit, Tame, Keeps, SameRequests, tables, history, TypeOK, EntriesOK

LEMMA StutterTame ==
  ASSUME UNCHANGED vars
  PROVE  Tame
BY DEF vars, Tame, Keeps, SameRequests, tables, history

------------------------------------------------------------------------------
(* Where sets move. *)

LEMMA EffectiveBounded ==
  ASSUME TypeOK, Bounded, NEW a \in Assocs
  PROVE  Effective(a) \subseteq Allowed
<1> DEFINE byRank  == UNION {grants[r] : r \in Held(a)}
           byOwner == IF UserOf[a] = owner THEN {"OWNER"} ELSE {}
<1>1. \A r \in Held(a) : grants[r] \subseteq Allowed
  BY DEF TypeOK, TablesOK, Held, Bounded
<1>2. byRank \subseteq Allowed  BY <1>1
<1>3. byOwner \subseteq Allowed  BY DEF Allowed
<1>4. Effective(a) = byRank \cup byOwner  BY DEF Effective, byRank, byOwner
<1> HIDE DEF byRank, byOwner
<1>5. QED  BY <1>2, <1>3, <1>4

\* Ranks cannot carry OWNER: only the user of Chat.userId computes it.
LEMMA EffectiveEarned ==
  ASSUME TypeOK, Earned, NEW a \in Assocs, "OWNER" \in Effective(a)
  PROVE  UserOf[a] \in owners
<1> DEFINE byRank  == UNION {grants[r] : r \in Held(a)}
           byOwner == IF UserOf[a] = owner THEN {"OWNER"} ELSE {}
<1>1. \A r \in Held(a) : "OWNER" \notin grants[r]
  BY DEF TypeOK, TablesOK, Held, Permissions, MemberPermissions
<1>2. "OWNER" \notin byRank  BY <1>1
<1>3. Effective(a) = byRank \cup byOwner  BY DEF Effective, byRank, byOwner
<1>4. "OWNER" \in byOwner  BY <1>2, <1>3
<1>5. UserOf[a] = owner  BY <1>4
<1>6. QED  BY <1>5 DEF Earned

\* checkPermissions hands a set to the request that asked for it.
LEMMA DecideSteps ==
  ASSUME TypeOK, Bounded, Earned, NEW j \in Jobs, NEW have \in SUBSET Allowed,
         job[j].op # "none", "OWNER" \in have => UserOf[job[j].by] \in owners,
         Decide(j, have), UNCHANGED <<tables, cache, fill, history>>
  PROVE  Bounded' /\ Earned'
<1>1. SameRequests  BY GotoSame DEF Decide
<1>2. perms' = [perms EXCEPT ![j] = have]  BY DEF Decide
<1>3. \A k \in Jobs : perms'[k] = IF k = j THEN have ELSE perms[k]
  BY <1>2 DEF TypeOK, EntriesOK
<1>4. Bounded'
  BY <1>3 DEF Bounded, Allowed, tables, history, Unfilled
<1>5. Earned'
  BY <1>1, <1>3 DEF Earned, OwnerEntryIsEarned, SameRequests, tables, history, Unfilled
<1>6. QED  BY <1>4, <1>5

LEMMA CheckHitSteps ==
  ASSUME TypeOK, Bounded, Earned, NEW j \in Jobs, CheckHit(j)
  PROVE  Bounded' /\ Earned'
<1>1. job[j].by \in Assocs  BY JobType DEF Request
<1>2. cache[job[j].by] \in SUBSET Allowed  BY <1>1 DEF CheckHit, Checking, Bounded
<1>3. "OWNER" \in cache[job[j].by] => UserOf[job[j].by] \in owners
  BY <1>1 DEF CheckHit, Checking, Earned, OwnerEntryIsEarned
<1>4. QED  BY <1>2, <1>3, DecideSteps DEF CheckHit, Checking

LEMMA CheckReadSteps ==
  ASSUME TypeOK, Bounded, Earned, NEW j \in Jobs, CheckRead(j)
  PROVE  Bounded' /\ Earned'
<1>1. job[j].by \in Assocs  BY JobType DEF Request
<1>2. CASE job[j].by \in live
  <2>1. Effective(job[j].by) \subseteq Allowed  BY <1>1, EffectiveBounded
  <2>2. \A k \in Jobs : perms'[k] = IF k = j THEN Effective(job[j].by) ELSE perms[k]
    BY <1>2 DEF CheckRead, Checking, TypeOK, EntriesOK
  <2>3. SameRequests  BY <1>2, GotoSame DEF CheckRead, Checking
  <2>4. Bounded'  BY <2>1, <2>2 DEF CheckRead, Checking, Bounded, Allowed, tables, history, Unfilled
  <2>5. "OWNER" \in Effective(job[j].by) => UserOf[job[j].by] \in owners
    BY <1>1, EffectiveEarned
  <2>6. Earned'
    BY <2>2, <2>3, <2>5
    DEF CheckRead, Checking, Checking, Earned, OwnerEntryIsEarned, SameRequests, tables, history, Unfilled
  <2>7. QED  BY <2>4, <2>6
<1>3. CASE job[j].by \notin live  BY <1>3, DecideSteps DEF CheckRead, Checking
<1>4. QED  BY <1>2, <1>3

LEMMA CheckWriteSteps ==
  ASSUME TypeOK, Bounded, Earned, NEW j \in Jobs, CheckWrite(j)
  PROVE  Bounded' /\ Earned'
<1>1. job[j].by \in Assocs  BY JobType DEF Request
<1>2. \A a \in Assocs : cache'[a] = IF a = job[j].by THEN perms[j] ELSE cache[a]
  BY DEF CheckWrite, Checking, TypeOK, EntriesOK
<1>3. perms' = perms /\ SameRequests
  BY GotoSame DEF CheckWrite, Checking, Decide, TypeOK, EntriesOK
<1>4. Bounded'  BY <1>2, <1>3 DEF CheckWrite, Checking, Bounded, Allowed, tables, history, Unfilled
<1>5. Earned'
  BY <1>2, <1>3
  DEF CheckWrite, Checking, Earned, OwnerEntryIsEarned, SameRequests, tables, history, Unfilled
<1>6. QED  BY <1>4, <1>5

LEMMA FillReadSteps ==
  ASSUME TypeOK, Bounded, Earned, NEW j \in Jobs, NEW b \in Assocs, FillRead(j, b)
  PROVE  Bounded' /\ Earned'
<1>1. \A k \in Jobs, a \in Assocs :
        \/ fill'[k][a] \in {fill[k][a], NoFill}
        \/ (a = b /\ fill'[k][a] = Effective(b))
  BY DEF FillRead, TypeOK, EntriesOK
<1>2. Effective(b) \subseteq Allowed  BY EffectiveBounded
<1>3. Bounded'  BY <1>1, <1>2 DEF FillRead, Bounded, Allowed, tables, history, Unfilled
<1>4. Earned'
  BY <1>1, EffectiveEarned
  DEF FillRead, Earned, OwnerEntryIsEarned, tables, history, Unfilled
<1>5. QED  BY <1>3, <1>4

LEMMA FillWriteSteps ==
  ASSUME TypeOK, Bounded, Earned, NEW j \in Jobs, NEW b \in Assocs, FillWrite(j, b)
  PROVE  Bounded' /\ Earned'
<1>1. \A k \in Jobs, a \in Assocs : fill'[k][a] \in {fill[k][a], NoFill}
  BY DEF FillWrite, TypeOK, EntriesOK
<1>2. \A a \in Assocs : cache'[a] = IF a = b THEN fill[j][b] ELSE cache[a]
  BY DEF FillWrite, TypeOK, EntriesOK
<1>3. Bounded'  BY <1>1, <1>2 DEF FillWrite, Bounded, Allowed, tables, history, Unfilled
<1>4. Earned'
  BY <1>1, <1>2 DEF FillWrite, Earned, OwnerEntryIsEarned, tables, history, Unfilled
<1>5. QED  BY <1>3, <1>4

------------------------------------------------------------------------------
(* Where permissions are granted. *)

\* A step that only grants, within what is allowed after it.
LEMMA GrantSteps ==
  ASSUME TypeOK, Bounded, Earned, SameRequests,
         UNCHANGED <<owner, cache, perms, fill, owners>>, granted \subseteq granted',
         \A r \in Ranks : grants'[r] \subseteq Allowed'
  PROVE  Bounded' /\ Earned'
<1>1. Allowed \subseteq Allowed'  BY DEF Allowed
<1>2. Bounded'  BY <1>1 DEF Bounded, Unfilled
<1>3. Earned'  BY DEF Earned, OwnerEntryIsEarned, SameRequests, Unfilled
<1>4. QED  BY <1>2, <1>3

\* updateChatRank adds a permission the request holds itself, or any permission if
\* the request holds both OWNER and ADMIN.
LEMMA UpdateAddSteps ==
  ASSUME TypeOK, Bounded, Earned, NEW j \in Jobs, UpdateAdd(j)
  PROVE  Bounded' /\ Earned'
<1> DEFINE add   == job[j].map \ job[j].have
           given == IF job[j].rank \in ranks THEN add \cap Grantable(j) ELSE {}
<1>1. granted' = granted \cup (IF MayGrantAll(j) THEN given ELSE {})
  BY DEF UpdateAdd, given, add
<1>2. given \subseteq Allowed'
  <2>1. CASE MayGrantAll(j)  BY <2>1, <1>1 DEF Allowed
  <2>2. CASE ~MayGrantAll(j)
    <3>1. given \subseteq perms[j]  BY <2>2 DEF Grantable
    <3>2. perms[j] \subseteq Allowed'  BY <1>1 DEF Bounded, Allowed
    <3>3. QED  BY <3>1, <3>2
  <2>3. QED  BY <2>1, <2>2
<1>3. \A r \in Ranks : grants'[r] \subseteq grants[r] \cup given
  BY DEF UpdateAdd, TypeOK, TablesOK
<1> HIDE DEF given
<1>4. \A r \in Ranks : grants'[r] \subseteq Allowed'
  BY <1>1, <1>2, <1>3 DEF Bounded, Allowed
<1>5. SameRequests  BY GotoSame DEF UpdateAdd
<1>6. QED  BY <1>1, <1>4, <1>5, GrantSteps DEF UpdateAdd

LEMMA CreateGrantsSteps ==
  ASSUME TypeOK, Bounded, Earned, NEW j \in Jobs, CreateGrants(j)
  PROVE  Bounded' /\ Earned'
<1>1. job[j] \in Request  BY JobType
<1>2. LET q == [job[j] EXCEPT !.pc = "done", !.norm = "read"]
      IN q.by = job[j].by /\ q.op = job[j].op
  BY <1>1 DEF Request
<1>3. SameRequests  BY <1>2, PutSame, GotoSame DEF CreateGrants
<1>4. granted' = granted /\ owners' = owners  BY WroteKeeps DEF CreateGrants
<1>5. \A r \in Ranks : grants'[r] \subseteq Allowed'
  BY <1>4 DEF CreateGrants, Bounded, Allowed, TypeOK, TablesOK
<1>6. QED  BY <1>3, <1>4, <1>5, GrantSteps DEF CreateGrants

\* addBotToChat grants what the caller's own set contains.
LEMMA BotGrantsSteps ==
  ASSUME TypeOK, Bounded, Earned, NEW j \in Jobs, BotGrants(j)
  PROVE  Bounded' /\ Earned'
<1>1. \A r \in Ranks : grants'[r] \subseteq grants[r] \cup perms[j]
  BY DEF BotGrants, TypeOK, TablesOK
<1>2. granted' = granted /\ owners' = owners  BY DEF BotGrants
<1>3. \A r \in Ranks : grants'[r] \subseteq Allowed'
  BY <1>1, <1>2 DEF Bounded, Allowed
<1>4. SameRequests  BY GotoSame DEF BotGrants
<1>5. QED  BY <1>2, <1>3, <1>4, GrantSteps DEF BotGrants

------------------------------------------------------------------------------
(* Requests come and go. *)

\* A free slot holds no permissions, so the next request cannot find any there.
LEMMA AdmitSteps ==
  ASSUME TypeOK, Bounded, Earned, NEW j \in Jobs, NEW q, Admit(j, q),
         UNCHANGED <<owner, grants>>
  PROVE  Bounded' /\ Earned'
<1>1. perms[j] = {}  BY DEF Admit, Earned
<1>2. \A k \in Jobs \ {j} : job'[k] = job[k]  BY DEF Admit, Put, TypeOK
<1>3. Bounded'  BY DEF Admit, Bounded, Allowed, history, Unfilled
<1>4. Earned'
  BY <1>1, <1>2 DEF Admit, Earned, OwnerEntryIsEarned, history, Unfilled
<1>5. QED  BY <1>3, <1>4

LEMMA ArriveSteps ==
  ASSUME TypeOK, Bounded, Earned, NEW j \in Jobs, Arrive(j)
  PROVE  Bounded' /\ Earned'
BY AdmitSteps
DEF Arrive, CallToggle, CallUpdate, CallCreate, CallOrder, CallRemove, CallInvite,
    CallUninvite, CallAdd, CallJoin, CallBot, CallKick, CallLeave, CallTransfer,
    CallDestroy, CallCheck, Reserve, tables

LEMMA EndSteps ==
  ASSUME TypeOK, Bounded, Earned, NEW j \in Jobs, Finish(j) \/ Crash(j)
  PROVE  Bounded' /\ Earned'
<1>1. \A k \in Jobs : perms'[k] = IF k = j THEN {} ELSE perms[k]
  BY DEF Finish, Crash, TypeOK, EntriesOK
<1>2. \A k \in Jobs \ {j} : job'[k] = job[k]  BY DEF Finish, Crash, Put, TypeOK
<1>3. \A k \in Jobs, a \in Assocs : fill'[k][a] \in {fill[k][a], NoFill}
  BY DEF Finish, Crash, TypeOK, EntriesOK
<1>4. UNCHANGED <<tables, cache, granted, owners>>
  BY DEF Finish, Crash, history
<1>5. Bounded'  BY <1>1, <1>3, <1>4 DEF Bounded, Allowed, tables, Unfilled
<1>6. Earned'
  BY <1>1, <1>2, <1>3, <1>4 DEF Earned, OwnerEntryIsEarned, tables, Unfilled
<1>7. QED  BY <1>5, <1>6

------------------------------------------------------------------------------
(* The theorems. *)

LEMMA InitialSteps == Initial => Bounded /\ Earned
<1> SUFFICES ASSUME Initial PROVE Bounded /\ Earned  OBVIOUS
<1>1. TypeOK  BY InitialType
<1>2. \A r \in Ranks : grants[r] \subseteq Allowed
  BY DEF Initial, Init, Allowed
<1>3. \A a \in Assocs : Effective(a) \subseteq Allowed
  <2> TAKE a \in Assocs
  <2> DEFINE byRank  == UNION {grants[r] : r \in Held(a)}
             byOwner == IF UserOf[a] = owner THEN {"OWNER"} ELSE {}
  <2>1. byRank \subseteq Allowed  BY <1>1, <1>2 DEF TypeOK, TablesOK, Held
  <2>2. byOwner \subseteq Allowed  BY DEF Allowed
  <2>3. Effective(a) = byRank \cup byOwner  BY DEF Effective, byRank, byOwner
  <2> HIDE DEF byRank, byOwner
  <2>4. QED  BY <2>1, <2>2, <2>3
<1>4. \A a \in Assocs : "OWNER" \in Effective(a) => UserOf[a] = owner
  <2> TAKE a \in Assocs
  <2> DEFINE byRank  == UNION {grants[r] : r \in Held(a)}
             byOwner == IF UserOf[a] = owner THEN {"OWNER"} ELSE {}
  <2>1. \A r \in Held(a) : "OWNER" \notin grants[r]
    BY <1>1 DEF TypeOK, TablesOK, Held, Permissions, MemberPermissions
  <2>2. Effective(a) = byRank \cup byOwner  BY DEF Effective, byRank, byOwner
  <2>3. QED  BY <2>1, <2>2
<1>5. Bounded  BY <1>2, <1>3 DEF Initial, Init, Bounded, Unfilled
<1>6. Earned
  BY <1>4 DEF Initial, Init, Earned, OwnerEntryIsEarned, Unfilled
<1>7. QED  BY <1>5, <1>6

LEMMA TameSteps ==
  ASSUME Bounded, Earned, Tame
  PROVE  Bounded' /\ Earned'
BY KeepsBounded, TameEarned DEF Tame

LEMMA RunSteps ==
  ASSUME TypeOK, Bounded, Earned, NEW j \in Jobs, Run(j)
  PROVE  Bounded' /\ Earned'
<1>1. CASE RankStep(j)
  <2>1. Tame \/ UpdateAdd(j) \/ CreateGrants(j)
    BY <1>1, ToggleReadTame, ToggleAddTame, ToggleTakeTame, UpdateReadTame,
       UpdateRemoveTame, CreateRankTame, OrderReadTame, OrderMoveTame, OrderEndTame,
       RemoveReadTame, RemoveWriteTame, InviteReadTame, InviteWriteTame,
       UninviteReadTame, UninviteWriteTame
    DEF RankStep
  <2>2. QED  BY <2>1, TameSteps, UpdateAddSteps, CreateGrantsSteps
<1>2. CASE MemberStep(j)
  <2>1. Tame \/ BotGrants(j)
    BY <1>2, AddReadTame, JoinReadTame, BotReadTame, SeatTame, SeatRowTame, BotRankTame,
       BotRowTame, KickReadTame, LeaveReadTame, PurgeTame, UnreadTame, KickWriteTame,
       TransferReadTame, TransferWriteTame, TransferOtherTame, DestroyReadTame,
       DisbandTame, DestroyWriteTame
    DEF MemberStep
  <2>2. QED  BY <2>1, TameSteps, BotGrantsSteps
<1>3. CASE CacheStep(j)
  <2>1. CASE CheckHit(j)    BY <2>1, CheckHitSteps
  <2>2. CASE CheckRead(j)   BY <2>2, CheckReadSteps
  <2>3. CASE CheckWrite(j)  BY <2>3, CheckWriteSteps
  <2>4. ASSUME NEW a \in Assocs, FillRead(j, a) \/ FillHit(j, a) \/ FillWrite(j, a)
        PROVE  Bounded' /\ Earned'
    BY <2>4, FillReadSteps, FillHitTame, TameSteps, FillWriteSteps
  <2>5. QED  BY <1>3, <2>1, <2>2, <2>3, <2>4 DEF CacheStep
<1>4. CASE NormStep(j)
  BY <1>4, NormReadTame, NormWriteTame, NormUsersTame, TameSteps DEF NormStep
<1>5. CASE Finish(j)  BY <1>5, EndSteps
<1>6. QED  BY <1>1, <1>2, <1>3, <1>4, <1>5 DEF Run

LEMMA Invariance == Spec => [](TypeOK /\ Bounded /\ Earned)
<1>1. TypeOK /\ Bounded /\ Earned /\ [Next]_vars => (TypeOK /\ Bounded /\ Earned)'
  <2> SUFFICES ASSUME TypeOK, Bounded, Earned, [Next]_vars
               PROVE  (TypeOK /\ Bounded /\ Earned)'
    OBVIOUS
  <2>1. CASE Next
    BY <2>1, ArriveType, RunType, EndType, ArriveSteps, RunSteps, EndSteps DEF Next
  <2>2. CASE UNCHANGED vars  BY <2>2, StutterType, StutterTame, TameSteps
  <2>3. QED  BY <2>1, <2>2
<1>2. QED  BY InitialType, InitialSteps, <1>1, PTL DEF Spec

LEMMA BoundedConserves ==
  ASSUME Bounded
  PROVE  PrivilegeIsConserved
<1>1. \A p \in Circulating : p \in Allowed
  <2> TAKE p \in Circulating
  <2>1. \/ \E r \in Ranks : p \in grants[r]
        \/ \E a \in Assocs : cache[a] # NoEntry /\ p \in cache[a]
        \/ \E k \in Jobs : p \in perms[k]
        \/ \E k \in Jobs, a \in Assocs : ~Unfilled(k, a) /\ p \in fill[k][a]
    BY DEF Circulating
  <2>2. QED  BY <2>1 DEF Bounded
<1>2. QED  BY <1>1 DEF Allowed, PrivilegeIsConserved

\* updateChatRank, addBotToChat and every path a permission set takes through Redis:
\* whatever requests interleave and wherever they crash, no permission beyond those
\* of a plain member circulates that the group was not created with and no holder of
\* both OWNER and ADMIN granted.
THEOREM PrivilegeConserved == Spec => []PrivilegeIsConserved
<1>1. Bounded => PrivilegeIsConserved  BY BoundedConserves
<1>2. QED  BY Invariance, <1>1, PTL

\* getPermissions and transferGroupOwnership: the computed permission OWNER is never
\* in an entry of, or in the hands of a request by, anyone who was never Chat.userId.
THEOREM OwnerEntryEarned == Spec => []OwnerEntryIsEarned
<1>1. Earned => OwnerEntryIsEarned  BY DEF Earned
<1>2. QED  BY Invariance, <1>1, PTL

------------------------------------------------------------------------------
(* Newcomers. *)

\* The associations and the rank a request is still to insert.
Coming(k) == IF job[k].op \in {"add", "join", "bot"} THEN job[k].todo ELSE {}

Awaited(a) == a \notin born \/ \E k \in Jobs : a \in Coming(k)

Coins(k) ==
  IF \/ job[k].op = "create" /\ job[k].pc \in {"authorize", "miss", "read"}
     \/ job[k].op = "bot" /\ job[k].pc \in {"authorize", "miss", "read", "seat", "row", "rank"}
  THEN {job[k].fresh} ELSE {}

Unmade(r) == r \notin drawn \/ \E k \in Jobs : r \in Coins(k)

\* Nothing is known of an id before its insert, so the insert makes no entry wrong.
Untouched ==
  /\ live \subseteq born /\ ranks \subseteq drawn
  /\ \A k \in Jobs : Coming(k) \subseteq born /\ Coins(k) \subseteq drawn
  /\ \A k, l \in Jobs : k # l => Coming(k) \cap Coming(l) = {} /\ Coins(k) \cap Coins(l) = {}
  /\ \A a \in Assocs : Awaited(a) =>
       /\ a \notin live
       /\ cache[a] = NoEntry
       /\ \A r \in Ranks : rows[a][r] = 0
       /\ \A k \in Jobs : Unfilled(k, a) /\ (job[k].pc = "miss" => job[k].by # a)
  /\ \A r \in Ranks : Unmade(r) =>
       r \notin ranks /\ grants[r] = {} /\ \A a \in Assocs : rows[a][r] = 0

\* A step that inserts only what its request announced, and writes nothing for others.
Modest(j) ==
  /\ born' = born /\ drawn' = drawn
  /\ Coming(j)' \subseteq Coming(j) /\ Coins(j)' \subseteq Coins(j)
  /\ live' \subseteq live \cup (Coming(j) \ Coming(j)')
  /\ ranks' \subseteq ranks \cup (Coins(j) \ Coins(j)')
  /\ \A a \in Assocs, r \in Ranks :
       rows[a][r] = 0 /\ (a \notin live \/ r \notin ranks) => rows'[a][r] = 0
  /\ \A r \in Ranks : grants[r] = {} /\ r \notin ranks => grants'[r] = {}
  /\ \A a \in Assocs :
       /\ cache[a] = NoEntry /\ Unfilled(j, a) /\ (job[j].pc = "miss" => job[j].by # a) =>
            cache'[a] = NoEntry
       /\ a \notin live /\ Unfilled(j, a) => Unfilled(j, a)'
  /\ job'[j].pc = "miss" =>
       job'[j].by = job[j].by /\ (job[j].pc = "miss" \/ job[j].by \in live)

LEMMA ModestStep ==
  ASSUME Untouched, NEW j \in Jobs, Modest(j),
         \A k \in Jobs \ {j} : job'[k] = job[k] /\ fill'[k] = fill[k]
  PROVE  Untouched'
<1>1. \A k \in Jobs : Coming(k)' \subseteq Coming(k) /\ Coins(k)' \subseteq Coins(k)
  BY DEF Modest, Coming, Coins
<1>2. \A k \in Jobs \ {j} : Coming(k)' = Coming(k) /\ Coins(k)' = Coins(k)
  BY DEF Coming, Coins
<1>3. \A a : Awaited(a)' => Awaited(a)
  BY <1>1 DEF Awaited, Modest
<1>4. \A r : Unmade(r)' => Unmade(r)
  BY <1>1 DEF Unmade, Modest
<1>5. \A a \in Assocs : Awaited(a)' => a \notin live'
  <2> SUFFICES ASSUME NEW a \in Assocs, Awaited(a)', a \in Coming(j) \ Coming(j)'
               PROVE  FALSE
    BY <1>3 DEF Untouched, Modest
  <2>1. a \in born'  BY DEF Untouched, Modest
  <2>2. PICK k \in Jobs : a \in Coming(k)'  BY <2>1 DEF Awaited
  <2>3. QED  BY <1>2, <2>2 DEF Untouched
<1>6. \A r \in Ranks : Unmade(r)' => r \notin ranks'
  <2> SUFFICES ASSUME NEW r \in Ranks, Unmade(r)', r \in Coins(j) \ Coins(j)'
               PROVE  FALSE
    BY <1>4 DEF Untouched, Modest
  <2>1. r \in drawn'  BY DEF Untouched, Modest
  <2>2. PICK k \in Jobs : r \in Coins(k)'  BY <2>1 DEF Unmade
  <2>3. QED  BY <1>2, <2>2 DEF Untouched
<1>7. live' \subseteq born' /\ ranks' \subseteq drawn'
  BY DEF Untouched, Modest
<1>8. /\ \A k \in Jobs : Coming(k)' \subseteq born' /\ Coins(k)' \subseteq drawn'
      /\ \A k, l \in Jobs : k # l =>
           Coming(k)' \cap Coming(l)' = {} /\ Coins(k)' \cap Coins(l)' = {}
  BY <1>1 DEF Untouched, Modest
<1>9. ASSUME NEW a \in Assocs, Awaited(a)'
      PROVE  /\ cache'[a] = NoEntry
             /\ \A r \in Ranks : rows'[a][r] = 0
             /\ \A k \in Jobs : Unfilled(k, a)' /\ (job'[k].pc = "miss" => job'[k].by # a)
  <2>1. /\ a \notin live /\ cache[a] = NoEntry
        /\ \A r \in Ranks : rows[a][r] = 0
        /\ \A k \in Jobs : Unfilled(k, a) /\ (job[k].pc = "miss" => job[k].by # a)
    BY <1>3, <1>9 DEF Untouched
  <2>2. cache'[a] = NoEntry /\ \A r \in Ranks : rows'[a][r] = 0
    BY <2>1 DEF Modest
  <2>3. Unfilled(j, a)' /\ (job'[j].pc = "miss" => job'[j].by # a)
    BY <2>1 DEF Modest
  <2>4. \A k \in Jobs \ {j} : Unfilled(k, a)' /\ (job'[k].pc = "miss" => job'[k].by # a)
    BY <2>1 DEF Unfilled
  <2>5. QED  BY <2>2, <2>3, <2>4
<1>10. ASSUME NEW r \in Ranks, Unmade(r)'
       PROVE  grants'[r] = {} /\ \A a \in Assocs : rows'[a][r] = 0
  BY <1>4, <1>10 DEF Untouched, Modest
<1>11. QED  BY <1>5, <1>6, <1>7, <1>8, <1>9, <1>10 DEF Untouched

LEMMA RankModest ==
  ASSUME TypeOK, NEW j \in Jobs, RankStep(j), Shape(j)
  PROVE  Modest(j)
<1>0. /\ rows \in [Assocs -> [Ranks -> Nat]] /\ grants \in [Ranks -> SUBSET Permissions]
      /\ cache \in [Assocs -> {NoEntry} \cup SUBSET AllPermissions]
      /\ fill \in [Jobs -> [Assocs -> FillValues]] /\ job[j] \in Request
  BY JobType DEF TypeOK, TablesOK, EntriesOK, FillValues
<1> USE DEF At, Modest, Same, Kept, SameAim, tables, Shape, PointsOf, Authorizes, Coming, Coins, Unfilled
<1>1. CASE ToggleRead(j)  BY <1>0, <1>1, ToggleReadFields DEF ToggleRead
<1>2. CASE ToggleAdd(j)  BY <1>0, <1>2, GotoFields DEF ToggleAdd, OweAll
<1>3. CASE ToggleTake(j)
  <2> DEFINE q == job[j]
  <2>1. q.target \in Assocs /\ q.rank \in Ranks  BY <1>0 DEF Request
  <2>2. \A a \in Assocs, r \in Ranks : rows[a][r] = 0 => rows'[a][r] = 0
    <3>1. CASE rows' = rows  BY <3>1
    <3>2. CASE /\ rows[q.target][q.rank] > 0
               /\ rows' = [rows EXCEPT ![q.target][q.rank] = rows[q.target][q.rank] - 1]
      <4> DEFINE n == rows[q.target][q.rank] - 1
      <4>1. rows' = [rows EXCEPT ![q.target][q.rank] = n] /\ rows[q.target][q.rank] # 0
        BY <1>0, <2>1, <3>2
      <4> HIDE DEF n
      <4>2. QED  BY <1>0, <2>1, <4>1
    <3>3. QED  BY <1>3, <3>1, <3>2 DEF ToggleTake
  <2>3. \A a \in Assocs : Unfilled(j, a) => Unfilled(j, a)'
    BY <1>3, OweAllFields DEF ToggleTake
  <2>4. job'[j].pc = "done" /\ Same(job'[j], job[j])  BY <1>3, GotoFields DEF ToggleTake
  <2>5. UNCHANGED <<live, born, ranks, drawn, grants, cache>>  BY <1>3 DEF ToggleTake
  <2> HIDE DEF Unfilled
  <2>6. QED  BY <2>2, <2>3, <2>4, <2>5
<1>4. CASE UpdateRead(j)  BY <1>0, <1>4, UpdateReadFields DEF UpdateRead
<1>5. CASE UpdateAdd(j)  BY <1>0, <1>5, GotoFields DEF UpdateAdd
<1>6. CASE UpdateRemove(j)  BY <1>0, <1>6, GotoFields DEF UpdateRemove, OweAll
<1>7. CASE CreateRank(j)  BY <1>0, <1>7, GotoFields DEF CreateRank
<1>8. CASE CreateGrants(j)  BY <1>0, <1>8, CreateGrantsFields DEF CreateGrants
<1>9. CASE OrderRead(j)  BY <1>0, <1>9, OrderReadFields DEF OrderRead
<1>10. CASE OrderMove(j)  BY <1>0, <1>10, OrderMoveFields DEF OrderMove
<1>11. CASE OrderEnd(j)  BY <1>0, <1>11, OrderEndFields DEF OrderEnd
<1>12. CASE RemoveRead(j)  BY <1>0, <1>12, RemoveReadFields DEF RemoveRead
<1>13. CASE RemoveWrite(j)
  <2>1. job[j].rank \in Ranks  BY <1>0 DEF Request
  <2>2. /\ \A a \in Assocs, r \in Ranks : rows[a][r] = 0 => rows'[a][r] = 0
        /\ \A r \in Ranks : grants[r] = {} => grants'[r] = {}
        /\ ranks' \subseteq ranks
    BY <1>0, <1>13, <2>1 DEF RemoveWrite
  <2>3. \A a \in Assocs : Unfilled(j, a) => Unfilled(j, a)'
    BY <1>13, OweAllFields DEF RemoveWrite
  <2>4. job'[j].pc = "done" /\ Same(job'[j], job[j])  BY <1>13, GotoFields DEF RemoveWrite
  <2>5. UNCHANGED <<live, born, drawn, cache>>  BY <1>13 DEF RemoveWrite
  <2> HIDE DEF Unfilled
  <2>6. QED  BY <2>2, <2>3, <2>4, <2>5
<1>14. CASE InviteRead(j)  BY <1>0, <1>14, GotoFields DEF InviteRead
<1>15. CASE InviteWrite(j)  BY <1>0, <1>15, GotoFields DEF InviteWrite
<1>16. CASE UninviteRead(j)  BY <1>0, <1>16, GotoFields DEF UninviteRead
<1>17. CASE UninviteWrite(j)  BY <1>0, <1>17, GotoFields DEF UninviteWrite
<1>18. QED
  BY <1>1, <1>2, <1>3, <1>4, <1>5, <1>6, <1>7, <1>8, <1>9, <1>10, <1>11, <1>12, <1>13,
     <1>14, <1>15, <1>16, <1>17 DEF RankStep

LEMMA MemberModest ==
  ASSUME TypeOK, NEW j \in Jobs, MemberStep(j), Shape(j)
  PROVE  Modest(j)
<1>0. /\ rows \in [Assocs -> [Ranks -> Nat]] /\ grants \in [Ranks -> SUBSET Permissions]
      /\ cache \in [Assocs -> {NoEntry} \cup SUBSET AllPermissions]
      /\ fill \in [Jobs -> [Assocs -> FillValues]] /\ job[j] \in Request
  BY JobType DEF TypeOK, TablesOK, EntriesOK, FillValues
<1> USE DEF At, Modest, Same, Kept, SameAim, tables, Shape, PointsOf, Authorizes, Coming, Coins, Unfilled
<1>1. CASE AddRead(j)  BY <1>0, <1>1, GotoFields DEF AddRead
<1>2. CASE JoinRead(j)  BY <1>0, <1>2, JoinReadFields DEF JoinRead
<1>3. CASE BotRead(j)  BY <1>0, <1>3, GotoFields DEF BotRead
<1>4. CASE Seat(j)
  <2>1. job[j].pc = "seat" /\ job[j].op \in {"add", "join", "bot"}  BY <1>4 DEF Seat
  <2>2. UNCHANGED <<born, drawn, ranks, rows, grants, cache, fill>>  BY <1>4 DEF Seat
  <2>3. CASE Goto(j, "done") /\ UNCHANGED live
    <3>1. job'[j].pc = "done" /\ Same(job'[j], job[j])  BY <2>3, GotoFields
    <3>2. QED  BY <2>1, <2>2, <2>3, <3>1
  <2>4. ASSUME NEW a \in job[j].todo, live' = live \cup {a},
               Put(j, [job[j] EXCEPT !.pc = "row", !.todo = job[j].todo \ {a}, !.target = a])
        PROVE  Modest(j)
    <3>1. job'[j] = [job[j] EXCEPT !.pc = "row", !.todo = job[j].todo \ {a}, !.target = a]
      BY <2>4, PutFrame
    <3>2. /\ job'[j].pc = "row" /\ job'[j].todo = job[j].todo \ {a}
          /\ job'[j].op = job[j].op /\ job'[j].fresh = job[j].fresh
      BY <1>0, <3>1 DEF Request
    <3>3. QED  BY <2>1, <2>2, <2>4, <3>2
  <2>5. QED  BY <1>4, <2>3, <2>4 DEF Seat
<1>5. CASE SeatRow(j)
  <2>1. job[j].pc = "row" /\ job[j].op \in {"add", "join", "bot"}  BY <1>5 DEF SeatRow
  <2>2. UNCHANGED <<live, born, drawn, ranks, grants, cache>>  BY <1>5 DEF SeatRow
  <2>3. /\ job[j].target \in Assocs /\ job[j].rank \in Ranks /\ job[j].by \in Assocs
    BY <1>0 DEF Request
  <2>4. \A a \in Assocs, r \in Ranks :
          rows[a][r] = 0 /\ (a \notin live \/ r \notin ranks) => rows'[a][r] = 0
    BY <1>0, <1>5, <2>3 DEF SeatRow
  <2>5. \A a \in Assocs : Unfilled(j, a) => Unfilled(j, a)'
    BY <1>0, <1>5, <2>3 DEF SeatRow, Sends
  <2>6. job'[j].pc \in {"seat", "rank", "done"} /\ Same(job'[j], job[j])
    BY <1>5, <2>1, GotoFields DEF SeatRow
  <2> HIDE DEF Unfilled
  <2>7. QED  BY <2>1, <2>2, <2>4, <2>5, <2>6
<1>6. CASE BotRank(j)  BY <1>0, <1>6, BotRankFields DEF BotRank
<1>7. CASE BotRow(j)  BY <1>0, <1>7, GotoFields DEF BotRow
<1>8. CASE BotGrants(j)  BY <1>0, <1>8, GotoFields DEF BotGrants
<1>9. CASE KickRead(j)  BY <1>0, <1>9, KickReadFields DEF KickRead
<1>10. CASE LeaveRead(j)  BY <1>0, <1>10, LeaveReadFields DEF LeaveRead
<1>11. CASE Purge(j)  BY <1>0, <1>11, PurgeFields DEF Purge
<1>12. CASE Unread(j)  BY <1>0, <1>12, UnreadFields DEF Unread
<1>13. CASE KickWrite(j)  BY <1>0, <1>13, GotoFields DEF KickWrite, Unseat
<1>14. CASE TransferRead(j)  BY <1>0, <1>14, TransferReadFields DEF TransferRead
<1>15. CASE TransferWrite(j)  BY <1>0, <1>15, GotoFields DEF TransferWrite, OweAll
<1>16. CASE TransferOther(j)  BY <1>0, <1>16, GotoFields DEF TransferOther, OweAll
<1>17. CASE DestroyRead(j)  BY <1>0, <1>17, DestroyReadFields DEF DestroyRead
<1>18. CASE Disband(j)
  <2>1. /\ live' \subseteq live /\ UNCHANGED <<born, drawn, ranks, grants, cache, fill>>
        /\ job[j].op = "destroy" /\ job[j].pc = "disband"
    BY <1>18 DEF Disband, Unseat
  <2>2. \A a \in Assocs, r \in Ranks : rows[a][r] = 0 => rows'[a][r] = 0
    BY <1>0, <1>18 DEF Disband, Unseat
  <2>3. job'[j].op = "destroy" /\ job'[j].pc \in {"disband", "done"}
    BY <1>18, <2>1, DisbandFields
  <2>4. QED  BY <2>1, <2>2, <2>3
<1>19. CASE DestroyWrite(j)  BY <1>0, <1>19, GotoFields DEF DestroyWrite
<1>20. QED
  BY <1>1, <1>2, <1>3, <1>4, <1>5, <1>6, <1>7, <1>8, <1>9, <1>10, <1>11, <1>12, <1>13,
     <1>14, <1>15, <1>16, <1>17, <1>18, <1>19 DEF MemberStep

LEMMA OtherModest ==
  ASSUME TypeOK, NEW j \in Jobs, CacheStep(j) \/ NormStep(j) \/ Finish(j) \/ Crash(j), Shape(j)
  PROVE  Modest(j)
<1>0. /\ cache \in [Assocs -> {NoEntry} \cup SUBSET AllPermissions]
      /\ fill \in [Jobs -> [Assocs -> FillValues]] /\ job[j] \in Request
  BY JobType DEF TypeOK, TablesOK, EntriesOK, FillValues
<1> USE DEF At, Modest, Same, Kept, SameAsk, SameAim, tables, Shape, PointsOf, Authorizes, Coming, Coins, Unfilled
<1>1. CASE CheckHit(j)
  BY <1>1, GotoFields DEF CheckHit, Checking, Decide
<1>2. CASE CheckRead(j)
  BY <1>2, GotoFields DEF CheckRead, Checking, Decide
<1>3. CASE CheckWrite(j)
  BY <1>0, <1>3, GotoFields DEF CheckWrite, Checking, Decide
<1>4. ASSUME NEW a \in Assocs, FillRead(j, a) \/ FillHit(j, a) \/ FillWrite(j, a)
      PROVE  Modest(j)
  BY <1>0, <1>4 DEF FillRead, FillHit, FillWrite
<1>5. CASE NormRead(j)  BY <1>5, NormReadFields DEF NormRead
<1>6. CASE NormWrite(j)  BY <1>6, NormWriteFields DEF NormWrite
<1>7. CASE NormUsers(j)
  <2>1. /\ UNCHANGED <<tables, cache>> /\ job'[j].pc = job[j].pc
        /\ Kept(job'[j], job[j]) /\ SameAim(job'[j], job[j])
    BY <1>7, NormUsersFields DEF NormUsers
  <2>2. \A a \in Assocs : fill'[j][a] \in {fill[j][a], Owed}
    BY <1>7, OweAllFields DEF NormUsers
  <2>3. \A a \in Assocs : Unfilled(j, a) => Unfilled(j, a)'  BY <2>2
  <2>4. Coming(j)' = Coming(j) /\ Coins(j)' = Coins(j)  BY <2>1
  <2>5. QED  BY <2>1, <2>3, <2>4
<1>8. CASE Finish(j) \/ Crash(j)
  <2>1. job'[j].op = "none" /\ job'[j].pc = "done"  BY <1>8, EndShape DEF NoRequest
  <2>2. Coming(j)' = {} /\ Coins(j)' = {}  BY <2>1
  <2>3. UNCHANGED <<tables, cache>> /\ \A a \in Assocs : Unfilled(j, a)'
    BY <1>8, EndShape
  <2>4. QED  BY <2>1, <2>2, <2>3
<1>9. QED
  BY <1>1, <1>2, <1>3, <1>4, <1>5, <1>6, <1>7, <1>8 DEF CacheStep, NormStep

LEMMA UntouchedStep ==
  ASSUME TypeOK, Shapes, Untouched, [Next]_vars
  PROVE  Untouched'
<1>1. ASSUME NEW j \in Jobs, Arrive(j) PROVE Untouched'
  <2>1. Newborn(j) /\ job[j] = NoRequest
    BY <1>1, ArriveNewborn DEF Newborn, Shapes, Shape
  <2>2. \A k \in Jobs \ {j} : Coming(k)' = Coming(k) /\ Coins(k)' = Coins(k)
    BY <2>1 DEF Newborn, Coming, Coins
  <2>3. Coming(j) = {} /\ Coins(j) = {}  BY <2>1 DEF Coming, Coins, NoRequest
  <2>4. /\ Coming(j)' \cap born = {} /\ born' = born \cup Coming(j)'
        /\ Coins(j)' \cap drawn = {} /\ drawn' = drawn \cup Coins(j)'
    BY <2>1 DEF Newborn, Coming, Coins
  <2>5. \A a : Awaited(a)' => Awaited(a)  BY <2>2, <2>4 DEF Awaited
  <2>6. \A r : Unmade(r)' => Unmade(r)  BY <2>2, <2>4 DEF Unmade
  <2>7. /\ live' = live /\ ranks' = ranks /\ cache' = cache /\ rows' = rows /\ grants' = grants
        /\ fill' = fill /\ job'[j].pc # "miss"
        /\ \A k \in Jobs \ {j} : job'[k] = job[k]
    BY <2>1 DEF Newborn
  <2>8. /\ \A k \in Jobs : Coming(k)' \subseteq born' /\ Coins(k)' \subseteq drawn'
        /\ \A k, l \in Jobs : k # l =>
             Coming(k)' \cap Coming(l)' = {} /\ Coins(k)' \cap Coins(l)' = {}
    BY <2>2, <2>4 DEF Untouched
  <2>9. \A a \in Assocs : Awaited(a)' =>
          /\ a \notin live'
          /\ cache'[a] = NoEntry
          /\ \A r \in Ranks : rows'[a][r] = 0
          /\ \A k \in Jobs : Unfilled(k, a)' /\ (job'[k].pc = "miss" => job'[k].by # a)
    BY <2>5, <2>7 DEF Untouched, Unfilled
  <2>10. QED  BY <2>4, <2>6, <2>7, <2>8, <2>9 DEF Untouched
<1>2. ASSUME NEW j \in Jobs, Run(j) \/ Crash(j) PROVE Untouched'
  <2>1. Shape(j)  BY DEF Shapes
  <2>2. Modest(j)
    BY <1>2, <2>1, RankModest, MemberModest, OtherModest DEF Run
  <2>3. \A k \in Jobs \ {j} : job'[k] = job[k] /\ fill'[k] = fill[k]
    BY <1>2, <2>1, RunFrame, EndShape DEF Frame
  <2>4. QED  BY <2>2, <2>3, ModestStep
<1>3. CASE UNCHANGED vars
  BY <1>3 DEF vars, tables, Untouched, Awaited, Unmade, Coming, Coins, Unfilled
<1>4. QED  BY <1>1, <1>2, <1>3 DEF Next

LEMMA UntouchedInit ==
  ASSUME Initial
  PROVE  Untouched
<1> USE DEF Initial, Init
<1>1. \A k \in Jobs : Coming(k) = {} /\ Coins(k) = {}
  BY DEF Coming, Coins, NoRequest
<1>2. \A a \in Assocs : Awaited(a) => a \notin Founders  BY <1>1 DEF Awaited
<1>3. \A r \in Ranks : Unmade(r) => r # Managed /\ r # Administrators  BY <1>1 DEF Unmade
<1>4. \A a \in Assocs : a \notin Founders => \A r \in Ranks : rows[a][r] = 0
  BY AssocAssumption
<1>5. \A r \in Ranks : r # Managed /\ r # Administrators =>
        grants[r] = {} /\ \A a \in Assocs : rows[a][r] = 0
  OBVIOUS
<1>6. \A a \in Assocs, k \in Jobs : Unfilled(k, a) /\ job[k].pc # "miss"
  BY DEF Unfilled, NoRequest
<1>7. \A a \in Assocs : a \notin Founders => cache[a] = NoEntry  OBVIOUS
<1>8. QED  BY <1>1, <1>2, <1>3, <1>4, <1>5, <1>6, <1>7 DEF Untouched

------------------------------------------------------------------------------
(* The entries of a group at rest. *)

\* An entry is right if it is what a regeneration would write, or missing.
Right(a) == cache[a] \in {NoEntry, Effective(a)}

\* k will still regenerate the entry of a: it has started to, or it is at a point
\* from which it must.
Owes(k, a) ==
  \/ fill[k][a] = Owed
  \/ ~Unfilled(k, a)
  \/ At(k, "update", "remove") /\ a \in job[k].todo /\ ~(job[k].map \subseteq job[k].have)
  \/ At(k, "transfer", "other") /\ a = job[k].target

\* What k has read for an entry is not stale, and neither is what it has read of the
\* group where its next write relies on it.
Filled(k) == \A a \in live : ~Unfilled(k, a) => fill[k][a] = Effective(a)

Aware(k) ==
  LET q == job[k] IN
  /\ q.pc = "miss" => perms[k] = Effective(q.by)
  /\ q.op = "update" /\ q.pc \in {"write", "remove"} => Holders(q.rank) \subseteq q.todo
  /\ q.op = "transfer" /\ q.pc \in {"authorize", "miss", "read", "write"} /\ ~q.clash =>
       /\ \A a \in live : Right(a)
       /\ q.pc \in {"read", "write"} /\ q.by \in live => UserOf[q.by] = owner
  /\ At(k, "transfer", "write") => q.by \in live /\ q.target \in live
  /\ At(k, "create", "grant") => \A a \in Assocs : rows[a][q.fresh] = 0
  /\ At(k, "bot", "botrow") => grants[q.fresh] = {} /\ \A a \in Assocs : rows[a][q.fresh] = 0
  /\ At(k, "bot", "grants") => \A a \in Assocs : a # q.target => rows[a][q.fresh] = 0
  /\ At(k, "remove", "write") \/ At(k, "destroy", "disband") => live \subseteq q.todo

Fresh(k) == Filled(k) /\ Aware(k)

\* CacheTellsTheTables speaks of the group at rest; this is what holds in between.
Told ==
  excuses \subseteq {"ruin"} =>
    /\ \A k \in Jobs : Fresh(k)
    /\ \A a \in live : Right(a) \/ \E k \in Jobs : Owes(k, a)

\* The step leaves what entries are computed from.
SameGroup == UNCHANGED <<owner, live, ranks, grants, rows>>

\* After a write of a request that is alone, every entry it made wrong is owed by it.
Mended(j) == Fresh(j)' /\ \A a \in live' : Right(a)' \/ Owes(j, a)'

\* A step that writes no table only corrects entries, and forgets no debt that it has not paid.
Tells(j) ==
  /\ \A a \in live : cache'[a] \in {cache[a], NoEntry, Effective(a)}
  /\ Fresh(j)'
  /\ \A a \in live : Owes(j, a) => Right(a)' \/ Owes(j, a)'

LEMMA ToldStill ==
  ASSUME TypeOK, Told, NEW j \in Jobs, Frame(j), SameGroup,
         excuses \subseteq {"ruin"} /\ Fresh(j) => Tells(j)
  PROVE  Told'
<1> SUFFICES ASSUME excuses' \subseteq {"ruin"}
             PROVE  /\ \A k \in Jobs : Fresh(k)'
                    /\ \A a \in live' : Right(a)' \/ \E k \in Jobs : Owes(k, a)'
  BY DEF Told
<1>1. /\ excuses \subseteq {"ruin"} /\ \A k \in Jobs : Fresh(k)
      /\ \A a \in live : Right(a) \/ \E k \in Jobs : Owes(k, a)
  BY DEF Frame, Told
<1>2. Tells(j)  BY <1>1
<1>3. /\ live' = live
      /\ \A a : Effective(a)' = Effective(a)
      /\ \A r : Holders(r)' = Holders(r)
  BY DEF SameGroup, Effective, Holders, Held
<1>4. \A a \in live : Right(a) => Right(a)'
  BY <1>2, <1>3 DEF Tells, Right
<1>5. ASSUME NEW k \in Jobs \ {j}
      PROVE  Fresh(k)' /\ \A a \in Assocs : Owes(k, a) => Owes(k, a)'
  <2>1. job'[k] = job[k] /\ perms'[k] = perms[k] /\ fill'[k] = fill[k]  BY DEF Frame
  <2>2. \A a \in Assocs : Unfilled(k, a)' = Unfilled(k, a)  BY <2>1 DEF Unfilled
  <2>3. Filled(k)'
    BY <1>1, <1>3, <2>1, <2>2 DEF Fresh, Filled, TypeOK, TablesOK
  <2>4. Aware(k)'
    BY <1>1, <1>3, <1>4, <2>1 DEF Fresh, Aware, At, SameGroup
  <2>5. \A a \in Assocs : Owes(k, a) => Owes(k, a)'  BY <2>1, <2>2 DEF Owes, At
  <2>6. QED  BY <2>3, <2>4, <2>5 DEF Fresh
<1>6. \A a \in live : Right(a)' \/ \E k \in Jobs : Owes(k, a)'
  <2> SUFFICES ASSUME NEW a \in live PROVE Right(a)' \/ \E k \in Jobs : Owes(k, a)'
    OBVIOUS
  <2>1. CASE Right(a)  BY <1>4, <2>1
  <2>2. CASE Owes(j, a)  BY <1>2, <2>2 DEF Tells
  <2>3. CASE \E k \in Jobs \ {j} : Owes(k, a)
    <3>1. a \in Assocs  BY DEF TypeOK, TablesOK
    <3>2. QED  BY <1>5, <2>3, <3>1
  <2>4. QED  BY <1>1, <2>1, <2>2, <2>3
<1>7. QED  BY <1>2, <1>3, <1>5, <1>6 DEF Tells

LEMMA ToldAlone ==
  ASSUME TypeOK, TypeOK', Shapes, Told, NEW j \in Jobs, Frame(j), Alone(j) \/ "overlap" \in excuses',
         /\ excuses' \subseteq {"ruin"} /\ Alone(j) /\ Fresh(j)
         /\ \A a \in live : Right(a) \/ Owes(j, a)
         => Mended(j)
  PROVE  Told'
<1> SUFFICES ASSUME excuses' \subseteq {"ruin"}
             PROVE  /\ \A k \in Jobs : Fresh(k)'
                    /\ \A a \in live' : Right(a)' \/ \E k \in Jobs : Owes(k, a)'
  BY DEF Told
<1>1. /\ Alone(j) /\ \A k \in Jobs : Fresh(k)
      /\ \A a \in live : Right(a) \/ \E k \in Jobs : Owes(k, a)
  BY DEF Frame, Told
<1>2. ASSUME NEW k \in Jobs \ {j}
      PROVE  Fresh(k)' /\ \A a \in Assocs : ~Owes(k, a) /\ Unfilled(k, a)'
  <2>1. job'[k] = job[k] /\ perms'[k] = perms[k] /\ fill'[k] = fill[k]  BY DEF Frame
  <2>2. /\ job[k].op \in {"none", "check"} /\ job[k].pc # "miss"
        /\ \A a \in Assocs : fill[k][a] = NoFill
    BY <1>1 DEF Alone, Busy, Shapes, Shape, NoRequest
  <2>3. \A a \in Assocs : Unfilled(k, a) /\ Unfilled(k, a)'  BY <2>1, <2>2 DEF Unfilled
  <2>4. Filled(k)'  BY <2>3 DEF Filled, TypeOK, TablesOK
  <2>5. Aware(k)'  BY <2>1, <2>2 DEF Aware, At
  <2>6. \A a \in Assocs : ~Owes(k, a)
    BY <2>2, <2>3 DEF Owes, At, NoFill, Owed
  <2>7. QED  BY <2>3, <2>4, <2>5, <2>6 DEF Fresh
<1>3. Mended(j)
  <2>1. \A a \in live : Right(a) \/ Owes(j, a)
    <3>1. live \subseteq Assocs  BY DEF TypeOK, TablesOK
    <3>2. QED  BY <1>1, <1>2, <3>1
  <2>2. QED  BY <1>1, <2>1
<1>4. QED  BY <1>2, <1>3 DEF Mended

\* The points of a request at which it relies on nothing it has read.
Loose(p) ==
  /\ p.pc # "miss"
  /\ p.op = "update" => p.pc \notin {"write", "remove"}
  /\ p.op = "transfer" => p.pc \in {"other", "done"}
  /\ p.op = "create" => p.pc # "grant"
  /\ p.op = "bot" => p.pc \notin {"botrow", "grants"}
  /\ p.op = "remove" => p.pc # "write"
  /\ p.op = "destroy" => p.pc # "disband"

LEMMA LooseAware ==
  ASSUME NEW j \in Jobs, Loose(job'[j])
  PROVE  Aware(j)'
BY DEF Aware, At, Loose

LEMMA SameEffective ==
  ASSUME NEW a, UserOf[a] = owner' <=> UserOf[a] = owner,
         \A p : (\E r \in ranks' : rows'[a][r] > 0 /\ p \in grants'[r])
                  <=> (\E r \in ranks : rows[a][r] > 0 /\ p \in grants[r])
  PROVE  Effective(a)' = Effective(a)
<1>1. \A p : p \in UNION {grants[r] : r \in Held(a)}
               <=> \E r \in ranks : rows[a][r] > 0 /\ p \in grants[r]
  BY DEF Held
<1>2. \A p : p \in (UNION {grants[r] : r \in Held(a)})'
               <=> \E r \in ranks' : rows'[a][r] > 0 /\ p \in grants'[r]
  BY DEF Held
<1>3. (UNION {grants[r] : r \in Held(a)})' = UNION {grants[r] : r \in Held(a)}
  BY <1>1, <1>2
<1>4. QED  BY <1>3 DEF Effective

LEMMA Mends ==
  ASSUME TypeOK, TypeOK', NEW j \in Jobs, Aware(j)', Fresh(j), live' \subseteq live,
         ~At(j, "update", "remove"), ~At(j, "transfer", "other"),
         \A a \in live : Right(a) \/ Owes(j, a),
         \A a \in live' :
           \/ fill'[j][a] = Owed
           \/ fill'[j][a] = fill[j][a] /\ cache'[a] = cache[a] /\ Effective(a)' = Effective(a)
  PROVE  Mended(j)
<1>1. ASSUME NEW a \in live' PROVE Right(a)' \/ Owes(j, a)'
  <2>1. CASE fill'[j][a] = Owed  BY <2>1 DEF Owes
  <2>2. CASE fill'[j][a] = fill[j][a] /\ cache'[a] = cache[a] /\ Effective(a)' = Effective(a)
    <3>1. Right(a) \/ fill[j][a] = Owed \/ ~Unfilled(j, a)  BY DEF Owes
    <3>2. QED  BY <2>2, <3>1 DEF Right, Owes, Unfilled
  <2>3. QED  BY <2>1, <2>2
<1>2. ASSUME NEW a \in live', ~Unfilled(j, a)' PROVE fill'[j][a] = Effective(a)'
  <2>1. fill'[j][a] # Owed  BY <1>2 DEF Unfilled
  <2>2. QED  BY <1>2, <2>1 DEF Fresh, Filled, Unfilled
<1>3. QED  BY <1>1, <1>2 DEF Mended, Fresh, Filled

LEMMA ToggleTold ==
  ASSUME TypeOK, TypeOK', NEW j \in Jobs, Shape(j), Fresh(j),
         \A a \in live : Right(a) \/ Owes(j, a), ToggleAdd(j) \/ ToggleTake(j)
  PROVE  Mended(j)
<1> DEFINE q == job[j]
<1>1. /\ rows \in [Assocs -> [Ranks -> Nat]] /\ live \subseteq Assocs /\ ranks \subseteq Ranks
      /\ q.target \in Assocs /\ q.rank \in Ranks
  BY JobType DEF TypeOK, TablesOK, Request
<1>2. /\ At(j, "toggle", "write")
      /\ job'[j].pc = "done" /\ job'[j].op = "toggle"
      /\ UNCHANGED <<owner, live, ranks, grants, cache>>
  BY GotoFields DEF ToggleAdd, ToggleTake, At, Same, Kept
<1>3. /\ \A a \in Assocs \ {q.target} : rows'[a] = rows[a] /\ fill'[j][a] = fill[j][a]
      /\ \/ rows' = rows /\ fill' = fill
         \/ fill'[j][q.target] = Owed
  BY <1>1, OweAllFields DEF ToggleAdd, ToggleTake
<1>4. ASSUME NEW a \in live
      PROVE  \/ fill'[j][a] = Owed
             \/ fill'[j][a] = fill[j][a] /\ cache'[a] = cache[a] /\ Effective(a)' = Effective(a)
  <2>1. rows'[a] = rows[a] => Effective(a)' = Effective(a)  BY <1>2, SameEffective
  <2>2. QED  BY <1>1, <1>2, <1>3, <2>1
<1>5. Aware(j)'  BY <1>2, LooseAware DEF Loose
<1>6. ~At(j, "update", "remove") /\ ~At(j, "transfer", "other")  BY <1>2 DEF At
<1>7. QED  BY <1>2, <1>4, <1>5, <1>6, Mends

------------------------------------------------------------------------------
(* The writes of rank requests. *)

LEMMA Unowed ==
  ASSUME TypeOK, NEW j \in Jobs, \A a \in Assocs : fill[j][a] = NoFill,
         ~At(j, "update", "remove"), ~At(j, "transfer", "other"),
         \A a \in live : Right(a) \/ Owes(j, a)
  PROVE  \A a \in live : Right(a) /\ Unfilled(j, a)
<1>1. live \subseteq Assocs  BY DEF TypeOK, TablesOK
<1>2. NoFill # Owed  BY DEF NoFill, Owed
<1>3. QED  BY <1>1, <1>2 DEF Owes, Unfilled

LEMMA UpdateAddTold ==
  ASSUME TypeOK, TypeOK', NEW j \in Jobs, Shape(j), Fresh(j), excuses' \subseteq {"ruin"},
         \A a \in live : Right(a) \/ Owes(j, a), UpdateAdd(j)
  PROVE  Mended(j)
<1> DEFINE q     == job[j]
           add   == q.map \ q.have
           given == IF q.rank \in ranks THEN add \cap Grantable(j) ELSE {}
<1>1. /\ grants \in [Ranks -> SUBSET Permissions] /\ q.rank \in Ranks
      /\ live \subseteq Assocs /\ ranks \subseteq Ranks
  BY JobType DEF TypeOK, TablesOK, Request
<1>2. /\ At(j, "update", "write")
      /\ job'[j].pc = (IF given = add THEN "remove" ELSE "done")
      /\ job'[j].op = "update" /\ job'[j].rank = q.rank /\ job'[j].todo = q.todo
      /\ job'[j].map = q.map /\ job'[j].have = q.have
      /\ UNCHANGED <<owner, live, ranks, rows, cache, fill>>
      /\ grants' = [grants EXCEPT ![q.rank] = grants[q.rank] \cup given]
  BY GotoFields DEF UpdateAdd, At, Same, Kept, SameAim, SameSight
<1>3. given = {} \/ given = add  BY DEF UpdateAdd, Excuse
<1> HIDE DEF given
<1>4. \A a \in Assocs : fill[j][a] = NoFill  BY <1>2 DEF Shape, At
<1>5. \A a \in live : Right(a) /\ Unfilled(j, a)
  BY <1>2, <1>4, Unowed DEF At
<1>6. \A a \in live : a \notin Holders(q.rank) \/ given = {} => Effective(a)' = Effective(a)
  <2> SUFFICES ASSUME NEW a \in live, a \notin Holders(q.rank) \/ given = {}
               PROVE  Effective(a)' = Effective(a)
    OBVIOUS
  <2>1. \A r \in ranks : rows[a][r] > 0 => grants'[r] = grants[r]
    BY <1>1, <1>2 DEF Holders, Held
  <2>2. QED  BY <1>2, <2>1, SameEffective
<1>7. Holders(q.rank) \subseteq q.todo /\ Holders(q.rank)' = Holders(q.rank)
  BY <1>2 DEF Fresh, Aware, At, Holders, Held
<1>8. Aware(j)'  BY <1>2, <1>7 DEF Aware, At, Holders
<1>9. ASSUME NEW a \in live PROVE Right(a)' \/ Owes(j, a)'
  <2>1. CASE a \notin Holders(q.rank) \/ given = {}
    BY <1>2, <1>5, <1>6, <2>1 DEF Right
  <2>2. CASE a \in Holders(q.rank) /\ given # {}
    <3>1. given = add /\ ~(q.map \subseteq q.have)  BY <1>3, <2>2
    <3>2. QED  BY <1>2, <1>7, <2>2, <3>1 DEF Owes, At
  <2>3. QED  BY <2>1, <2>2
<1>10. \A a \in live' : Unfilled(j, a)'  BY <1>2, <1>5 DEF Unfilled
<1>11. QED  BY <1>2, <1>8, <1>9, <1>10 DEF Mended, Fresh, Filled

LEMMA UpdateRemoveTold ==
  ASSUME TypeOK, TypeOK', NEW j \in Jobs, Shape(j), Fresh(j), excuses' \subseteq {"ruin"},
         \A a \in live : Right(a) \/ Owes(j, a), UpdateRemove(j)
  PROVE  Mended(j)
<1> DEFINE q       == job[j]
           drop    == q.have \ q.map
           dropped == IF MayTouchTrusted(j) THEN drop ELSE drop \ {"TRUSTED"}
<1>1. /\ grants \in [Ranks -> SUBSET Permissions] /\ q.rank \in Ranks
      /\ live \subseteq Assocs /\ ranks \subseteq Ranks
  BY JobType DEF TypeOK, TablesOK, Request
<1>2. /\ At(j, "update", "remove")
      /\ job'[j].pc = "done" /\ job'[j].op = "update"
      /\ UNCHANGED <<owner, live, ranks, rows, cache>>
      /\ grants' = [grants EXCEPT ![q.rank] = grants[q.rank] \ dropped]
      /\ IF dropped = drop THEN OweAll(j, q.todo) ELSE fill' = fill
  BY GotoFields DEF UpdateRemove, At, Same, Kept
<1>3. dropped = drop \/ (dropped = {} /\ q.map \ q.have = {})
  BY DEF UpdateRemove, Excuse
<1> HIDE DEF dropped
<1>4. \A a \in Assocs : fill[j][a] = NoFill  BY <1>2 DEF Shape, At
<1>5. Holders(q.rank) \subseteq q.todo  BY <1>2 DEF Fresh, Aware, At
<1>6. \A a \in live : Right(a) \/ (a \in q.todo /\ ~(q.map \subseteq q.have))
  BY <1>1, <1>2, <1>4 DEF Owes, Unfilled, At, NoFill, Owed
<1>7. ASSUME NEW a \in live, a \notin Holders(q.rank) \/ dropped = {}
      PROVE  Effective(a)' = Effective(a)
  <2>1. \A r \in ranks : rows[a][r] > 0 => grants'[r] = grants[r]
    BY <1>1, <1>2, <1>7 DEF Holders, Held
  <2>2. QED  BY <1>2, <2>1, SameEffective
<1>8. Aware(j)'  BY <1>2, LooseAware DEF Loose
<1>9. CASE dropped = drop
  <2>1. \A a \in Assocs : fill'[j][a] = IF a \in q.todo THEN Owed ELSE NoFill
    BY <1>2, <1>4, <1>9, OweAllFields
  <2>2. ASSUME NEW a \in live PROVE Right(a)' \/ Owes(j, a)'
    <3>1. CASE a \in q.todo  BY <1>1, <2>1, <3>1 DEF Owes
    <3>2. CASE a \notin q.todo  BY <1>2, <1>5, <1>6, <1>7, <3>2 DEF Right
    <3>3. QED  BY <3>1, <3>2
  <2>3. \A a \in live : Unfilled(j, a)'  BY <1>1, <2>1 DEF Unfilled
  <2>4. QED  BY <1>2, <1>8, <2>2, <2>3 DEF Mended, Fresh, Filled
<1>10. CASE dropped # drop
  <2>1. \A a \in live : Right(a) /\ Effective(a)' = Effective(a)
    BY <1>3, <1>6, <1>7, <1>10
  <2>2. \A a \in live : Unfilled(j, a)'  BY <1>1, <1>2, <1>4, <1>10 DEF Unfilled
  <2>3. QED  BY <1>2, <1>8, <2>1, <2>2 DEF Mended, Fresh, Filled, Right
<1>11. QED  BY <1>9, <1>10

\* A rank nobody holds says nothing of anybody.
LEMMA NewRank ==
  ASSUME TypeOK, NEW f \in Ranks, NEW a \in Assocs,
         UNCHANGED <<owner, rows>>, rows[a][f] = 0,
         ranks' \ {f} = ranks \ {f}, \A r \in Ranks \ {f} : grants'[r] = grants[r],
         ranks' \subseteq Ranks
  PROVE  Effective(a)' = Effective(a)
<1>1. \A r : r \in ranks /\ rows[a][r] > 0 <=> r \in ranks' /\ rows'[a][r] > 0
  BY DEF TypeOK, TablesOK
<1>2. \A r \in ranks : rows[a][r] > 0 => grants'[r] = grants[r]
  BY DEF TypeOK, TablesOK
<1>3. QED  BY <1>1, <1>2, SameEffective

LEMMA CreateRankTold ==
  ASSUME TypeOK, TypeOK', NEW j \in Jobs, Shape(j), Fresh(j), Untouched,
         \A a \in live : Right(a) \/ Owes(j, a), CreateRank(j)
  PROVE  Mended(j)
<1> DEFINE f == job[j].fresh
<1>1. f \in Ranks /\ live \subseteq Assocs  BY JobType DEF TypeOK, TablesOK, Request
<1>2. /\ At(j, "create", "read")
      /\ UNCHANGED <<owner, live, rows, grants, cache, fill>>
      /\ \/ job'[j].pc = "grant" /\ ranks' = ranks \cup {f}
         \/ job'[j].pc = "done" /\ ranks' = ranks
      /\ job'[j].op = "create" /\ job'[j].fresh = f
  BY GotoFields DEF CreateRank, At, Same, Kept
<1>3. \A a \in Assocs : rows[a][f] = 0
  <2>1. Unmade(f)  BY <1>2 DEF Unmade, Coins, At
  <2>2. QED  BY <1>1, <2>1 DEF Untouched
<1>4. ranks' \ {f} = ranks \ {f} /\ ranks' \subseteq Ranks  BY <1>2 DEF TypeOK, TablesOK
<1>5. \A a \in live : Effective(a)' = Effective(a)
  BY <1>1, <1>2, <1>3, <1>4, NewRank
<1>6. Aware(j)'  BY <1>2, <1>3 DEF Aware, At
<1>7. ~At(j, "update", "remove") /\ ~At(j, "transfer", "other")  BY <1>2 DEF At
<1>8. QED  BY <1>2, <1>5, <1>6, <1>7, Mends

LEMMA CreateGrantsTold ==
  ASSUME TypeOK, TypeOK', NEW j \in Jobs, Shape(j), Fresh(j),
         \A a \in live : Right(a) \/ Owes(j, a), CreateGrants(j)
  PROVE  Mended(j)
<1> DEFINE f == job[j].fresh
<1>1. f \in Ranks /\ live \subseteq Assocs  BY JobType DEF TypeOK, TablesOK, Request
<1>2. /\ At(j, "create", "grant")
      /\ UNCHANGED <<owner, live, ranks, rows, cache, fill>>
      /\ job'[j].pc = "done" /\ job'[j].op = "create"
  BY CreateGrantsFields DEF CreateGrants, At, Kept
<1>3. \A a \in Assocs : rows[a][f] = 0  BY <1>2 DEF Fresh, Aware
<1>4. \A r \in Ranks \ {f} : grants'[r] = grants[r]
  BY DEF CreateGrants, TypeOK, TablesOK
<1>5. ranks' \ {f} = ranks \ {f} /\ ranks' \subseteq Ranks  BY <1>2 DEF TypeOK, TablesOK
<1>6. \A a \in live : Effective(a)' = Effective(a)
  BY <1>1, <1>2, <1>3, <1>4, <1>5, NewRank
<1>7. Aware(j)'  BY <1>2, LooseAware DEF Loose
<1>8. ~At(j, "update", "remove") /\ ~At(j, "transfer", "other")  BY <1>2 DEF At
<1>9. QED  BY <1>2, <1>6, <1>7, <1>8, Mends

LEMMA RemoveWriteTold ==
  ASSUME TypeOK, TypeOK', NEW j \in Jobs, Shape(j), Fresh(j),
         \A a \in live : Right(a) \/ Owes(j, a), RemoveWrite(j)
  PROVE  Mended(j)
<1>1. live \subseteq Assocs  BY DEF TypeOK, TablesOK
<1>2. /\ At(j, "remove", "write")
      /\ job'[j].pc = "done" /\ job'[j].op = "remove"
      /\ UNCHANGED <<owner, live, cache>>
      /\ \/ UNCHANGED <<ranks, grants, rows, fill>>
         \/ OweAll(j, job[j].todo)
  BY GotoFields DEF RemoveWrite, At, Same, Kept
<1>3. live \subseteq job[j].todo  BY <1>2 DEF Fresh, Aware
<1>4. CASE UNCHANGED <<ranks, grants, rows, fill>>
  <2>1. \A a : Effective(a)' = Effective(a)  BY <1>2, <1>4 DEF Effective, Held
  <2>2. Aware(j)'  BY <1>2, LooseAware DEF Loose
  <2>3. ~At(j, "update", "remove") /\ ~At(j, "transfer", "other")  BY <1>2 DEF At
  <2>4. QED  BY <1>2, <1>4, <2>1, <2>2, <2>3, Mends
<1>5. CASE OweAll(j, job[j].todo)
  <2>1. \A a \in live : fill'[j][a] = Owed  BY <1>1, <1>3, <1>5, OweAllFields
  <2>2. Aware(j)'  BY <1>2, LooseAware DEF Loose
  <2>3. ~At(j, "update", "remove") /\ ~At(j, "transfer", "other")  BY <1>2 DEF At
  <2>4. QED  BY <1>2, <2>1, <2>2, <2>3, Mends
<1>6. QED  BY <1>2, <1>4, <1>5

------------------------------------------------------------------------------
(* The writes of member requests. *)

LEMMA SeatTold ==
  ASSUME TypeOK, TypeOK', NEW j \in Jobs, Shape(j), Fresh(j), Untouched,
         \A a \in live : Right(a) \/ Owes(j, a), Seat(j)
  PROVE  Mended(j)
<1>1. /\ job[j].pc = "seat" /\ job[j].op \in {"add", "join", "bot"}
      /\ UNCHANGED <<owner, ranks, rows, grants, cache, fill>>
      /\ job'[j].pc \in {"row", "done"} /\ job'[j].op = job[j].op
  BY SeatFields DEF Seat, Shape, PointsOf, Authorizes, Kept
<1>2. \A a : Effective(a)' = Effective(a)  BY <1>1 DEF Effective, Held
<1>3. Aware(j)'  BY <1>1, LooseAware DEF Loose
<1>4. ASSUME NEW a \in live' \ live PROVE cache[a] = NoEntry /\ Unfilled(j, a)
  <2>1. a \in job[j].todo  BY <1>4 DEF Seat
  <2>2. Awaited(a) /\ a \in Assocs
    BY <1>1, <2>1, JobType DEF Awaited, Coming, Request
  <2>3. QED  BY <2>2 DEF Untouched
<1>5. ~At(j, "update", "remove") /\ ~At(j, "transfer", "other")  BY <1>1 DEF At
<1>6. ASSUME NEW a \in live' PROVE Right(a)' \/ Owes(j, a)'
  <2>1. CASE a \in live
    <3>1. Right(a) \/ fill[j][a] = Owed \/ ~Unfilled(j, a)  BY <1>5, <2>1 DEF Owes
    <3>2. QED  BY <1>1, <1>2, <3>1 DEF Right, Owes, Unfilled
  <2>2. CASE a \notin live  BY <1>1, <1>4, <2>2 DEF Right
  <2>3. QED  BY <2>1, <2>2
<1>7. Filled(j)'  BY <1>1, <1>2, <1>4 DEF Fresh, Filled, Unfilled
<1>8. QED  BY <1>3, <1>6, <1>7 DEF Mended, Fresh

LEMMA SeatRowTold ==
  ASSUME TypeOK, TypeOK', NEW j \in Jobs, Shape(j), Fresh(j), excuses' \subseteq {"ruin"},
         \A a \in live : Right(a) \/ Owes(j, a), SeatRow(j)
  PROVE  Mended(j)
<1> DEFINE q == job[j]
<1>1. /\ rows \in [Assocs -> [Ranks -> Nat]] /\ live \subseteq Assocs /\ ranks \subseteq Ranks
      /\ q.target \in Assocs /\ q.rank \in Ranks /\ q.by \in Assocs
      /\ fill \in [Jobs -> [Assocs -> FillValues]]
  BY JobType DEF TypeOK, TablesOK, EntriesOK, Request, FillValues
<1>2. /\ q.pc = "row" /\ q.op \in {"add", "join", "bot"}
      /\ UNCHANGED <<owner, live, ranks, grants, cache>>
      /\ job'[j].pc \in {"seat", "rank", "done"} /\ job'[j].op = q.op
  BY GotoFields DEF SeatRow, Shape, PointsOf, Authorizes, Same, Kept
<1>3. \A a \in Assocs \ {q.target} : rows'[a] = rows[a]
  BY <1>1 DEF SeatRow
<1>4. \A a \in Assocs : \/ fill'[j][a] = fill[j][a]
                        \/ fill[j][a] = NoFill /\ fill'[j][a] = Wanted
  <2>1. CASE fill' = fill  BY <2>1
  <2>2. ASSUME NEW b \in Assocs, Sends(j, b)
        PROVE  \A a \in Assocs : \/ fill'[j][a] = fill[j][a]
                                 \/ fill[j][a] = NoFill /\ fill'[j][a] = Wanted
    BY <1>1, <2>2 DEF Sends
  <2>3. QED  BY <1>1, <2>1, <2>2 DEF SeatRow
<1>5. cache[q.target] = NoEntry /\ Unfilled(j, q.target)
  BY DEF SeatRow, Excuse, Late
<1>6. ~At(j, "update", "remove") /\ ~At(j, "transfer", "other")  BY <1>2 DEF At
<1>7. \A a \in live \ {q.target} : Effective(a)' = Effective(a)
  BY <1>1, <1>2, <1>3, SameEffective
<1>8. \A a \in Assocs : Unfilled(j, a)' = Unfilled(j, a) /\ (fill[j][a] = Owed => fill'[j][a] = Owed)
  <2>1. NoFill # Owed  BY DEF NoFill, Owed
  <2>2. QED  BY <1>4, <2>1 DEF Unfilled
<1>9. ASSUME NEW a \in live PROVE Right(a)' \/ Owes(j, a)'
  <2>1. CASE a = q.target  BY <1>2, <1>5, <2>1 DEF Right
  <2>2. CASE a # q.target
    <3>1. Right(a) \/ fill[j][a] = Owed \/ ~Unfilled(j, a)  BY <1>6 DEF Owes
    <3>2. QED  BY <1>1, <1>2, <1>7, <1>8, <2>2, <3>1 DEF Right, Owes
  <2>3. QED  BY <2>1, <2>2
<1>10. ASSUME NEW a \in live, ~Unfilled(j, a)' PROVE fill'[j][a] = Effective(a)'
  <2>1. a # q.target /\ ~Unfilled(j, a) /\ fill[j][a] # NoFill
    BY <1>1, <1>5, <1>8, <1>10 DEF Unfilled
  <2>2. QED  BY <1>1, <1>4, <1>7, <2>1 DEF Fresh, Filled
<1>11. Aware(j)'  BY <1>2, LooseAware DEF Loose
<1>12. QED  BY <1>2, <1>9, <1>10, <1>11 DEF Mended, Fresh, Filled

LEMMA BotRankTold ==
  ASSUME TypeOK, TypeOK', NEW j \in Jobs, Shape(j), Fresh(j), Untouched,
         \A a \in live : Right(a) \/ Owes(j, a), BotRank(j)
  PROVE  Mended(j)
<1> DEFINE f == job[j].fresh
<1>1. f \in Ranks /\ live \subseteq Assocs  BY JobType DEF TypeOK, TablesOK, Request
<1>2. /\ At(j, "bot", "rank")
      /\ UNCHANGED <<owner, live, rows, grants, cache, fill>>
      /\ job'[j].pc \in {"botrow", "done"} /\ job'[j].op = "bot" /\ job'[j].fresh = f
      /\ ranks' = ranks \cup {f} \/ ranks' = ranks
  BY BotRankFields DEF BotRank, At, Kept
<1>3. grants[f] = {} /\ \A a \in Assocs : rows[a][f] = 0
  <2>1. Unmade(f)  BY <1>2 DEF Unmade, Coins, At
  <2>2. QED  BY <1>1, <2>1 DEF Untouched
<1>4. ranks' \ {f} = ranks \ {f} /\ ranks' \subseteq Ranks  BY <1>2 DEF TypeOK, TablesOK
<1>5. \A a \in live : Effective(a)' = Effective(a)
  BY <1>1, <1>2, <1>3, <1>4, NewRank
<1>6. Aware(j)'  BY <1>2, <1>3 DEF Aware, At
<1>7. ~At(j, "update", "remove") /\ ~At(j, "transfer", "other")  BY <1>2 DEF At
<1>8. QED  BY <1>2, <1>5, <1>6, <1>7, Mends

LEMMA BotRowTold ==
  ASSUME TypeOK, TypeOK', NEW j \in Jobs, Shape(j), Fresh(j),
         \A a \in live : Right(a) \/ Owes(j, a), BotRow(j)
  PROVE  Mended(j)
<1> DEFINE q == job[j]
           f == q.fresh
<1>1. /\ rows \in [Assocs -> [Ranks -> Nat]] /\ live \subseteq Assocs /\ ranks \subseteq Ranks
      /\ q.target \in Assocs /\ f \in Ranks
  BY JobType DEF TypeOK, TablesOK, Request
<1>2. /\ At(j, "bot", "botrow")
      /\ UNCHANGED <<owner, live, ranks, grants, cache, fill>>
      /\ job'[j].pc \in {"grants", "done"} /\ job'[j].op = "bot" /\ job'[j].fresh = f
      /\ job'[j].target = q.target
  BY GotoFields DEF BotRow, At, Same, Kept, SameAim
<1>3. grants[f] = {} /\ \A a \in Assocs : rows[a][f] = 0  BY <1>2 DEF Fresh, Aware
<1>4. \A a \in Assocs, r \in Ranks : rows'[a][r] # rows[a][r] => a = q.target /\ r = f
  BY <1>1 DEF BotRow
<1>5. ASSUME NEW a \in live PROVE Effective(a)' = Effective(a)
  <2>1. \A r \in ranks : rows'[a][r] # rows[a][r] => grants[r] = {}  BY <1>1, <1>3, <1>4
  <2>2. \A p : (\E r \in ranks : rows'[a][r] > 0 /\ p \in grants[r])
                 <=> (\E r \in ranks : rows[a][r] > 0 /\ p \in grants[r])
    BY <2>1
  <2>3. QED  BY <1>2, <2>2, SameEffective
<1>6. Aware(j)'  BY <1>1, <1>2, <1>3, <1>4 DEF Aware, At
<1>7. ~At(j, "update", "remove") /\ ~At(j, "transfer", "other")  BY <1>2 DEF At
<1>8. QED  BY <1>2, <1>5, <1>6, <1>7, Mends

LEMMA BotGrantsTold ==
  ASSUME TypeOK, TypeOK', NEW j \in Jobs, Shape(j), Fresh(j), excuses' \subseteq {"ruin"},
         \A a \in live : Right(a) \/ Owes(j, a), BotGrants(j)
  PROVE  Mended(j)
<1> DEFINE q     == job[j]
           f     == q.fresh
           given == IF f \in ranks THEN q.map \cap perms[j] ELSE {}
<1>1. /\ grants \in [Ranks -> SUBSET Permissions] /\ live \subseteq Assocs /\ ranks \subseteq Ranks
      /\ q.target \in Assocs /\ f \in Ranks
  BY JobType DEF TypeOK, TablesOK, Request
<1>2. /\ At(j, "bot", "grants")
      /\ UNCHANGED <<owner, live, ranks, rows, cache, fill>>
      /\ job'[j].pc = "done" /\ job'[j].op = "bot"
      /\ grants' = [grants EXCEPT ![f] = grants[f] \cup given]
  BY GotoFields DEF BotGrants, At, Same, Kept
<1>3. given = {} \/ (cache[q.target] = NoEntry /\ Unfilled(j, q.target))
  BY DEF BotGrants, Excuse, Late
<1> HIDE DEF given
<1>4. \A a \in Assocs : a # q.target => rows[a][f] = 0  BY <1>2 DEF Fresh, Aware
<1>5. \A r \in Ranks \ {f} : grants'[r] = grants[r]  BY <1>1, <1>2
<1>6. ranks' \ {f} = ranks \ {f} /\ ranks' \subseteq Ranks  BY <1>1, <1>2
<1>7. \A a \in live \ {q.target} : Effective(a)' = Effective(a)
  BY <1>1, <1>2, <1>4, <1>5, <1>6, NewRank
<1>8. Aware(j)'  BY <1>2, LooseAware DEF Loose
<1>9. ~At(j, "update", "remove") /\ ~At(j, "transfer", "other")  BY <1>2 DEF At
<1>10. CASE given = {}
  <2>1. grants' = grants  BY <1>1, <1>2, <1>10
  <2>2. \A a : Effective(a)' = Effective(a)  BY <1>2, <2>1 DEF Effective, Held
  <2>3. QED  BY <1>2, <1>8, <1>9, <2>2, Mends
<1>11. CASE cache[q.target] = NoEntry /\ Unfilled(j, q.target)
  <2>1. ASSUME NEW a \in live PROVE Right(a)' \/ Owes(j, a)'
    <3>1. CASE a = q.target  BY <1>2, <1>11, <3>1 DEF Right
    <3>2. CASE a # q.target
      <4>1. Right(a) \/ fill[j][a] = Owed \/ ~Unfilled(j, a)  BY <1>9 DEF Owes
      <4>2. QED  BY <1>2, <1>7, <3>2, <4>1 DEF Right, Owes, Unfilled
    <3>3. QED  BY <3>1, <3>2
  <2>2. Filled(j)'
    BY <1>2, <1>7, <1>11 DEF Fresh, Filled, Unfilled
  <2>3. QED  BY <1>8, <2>1, <2>2, <1>2 DEF Mended, Fresh
<1>12. QED  BY <1>3, <1>10, <1>11

LEMMA KickWriteTold ==
  ASSUME TypeOK, TypeOK', NEW j \in Jobs, Shape(j), Fresh(j),
         \A a \in live : Right(a) \/ Owes(j, a), KickWrite(j)
  PROVE  Mended(j)
<1>1. /\ job[j].pc = "destroy" /\ job[j].op \in {"kick", "leave"}
      /\ UNCHANGED <<owner, ranks, grants, cache, fill>>
      /\ live' \subseteq live /\ \A a \in live' : a \in Assocs => rows'[a] = rows[a]
      /\ job'[j].pc = "done" /\ job'[j].op = job[j].op
  BY GotoFields DEF KickWrite, Unseat, Shape, PointsOf, Authorizes, Same, Kept
<1>2. \A a \in live' : Effective(a)' = Effective(a)
  BY <1>1 DEF TypeOK, TablesOK, Effective, Held
<1>3. Aware(j)'  BY <1>1, LooseAware DEF Loose
<1>4. ~At(j, "update", "remove") /\ ~At(j, "transfer", "other")  BY <1>1 DEF At
<1>5. QED  BY <1>1, <1>2, <1>3, <1>4, Mends

LEMMA TransferWriteTold ==
  ASSUME TypeOK, TypeOK', NEW j \in Jobs, Shape(j), Fresh(j), excuses' \subseteq {"ruin"},
         OneSeatPerUser, TransferWrite(j)
  PROVE  Mended(j)
<1> DEFINE q == job[j]
<1>1. live \subseteq Assocs  BY DEF TypeOK, TablesOK
<1>2. /\ At(j, "transfer", "write") /\ ~q.clash
      /\ UNCHANGED <<live, ranks, grants, rows, cache>>
      /\ OweAll(j, {q.by})
      /\ owner' \in {owner, UserOf[q.target]}
      /\ job'[j].pc = "other" /\ job'[j].op = "transfer" /\ job'[j].target = q.target
  BY GotoFields DEF TransferWrite, At, Same, Kept, SameAim, Excuse, OverlapExcuse
<1>3. /\ \A a \in live : Right(a)
      /\ UserOf[q.by] = owner /\ q.by \in live /\ q.target \in live
  BY <1>2 DEF Fresh, Aware, At
<1>4. \A a \in live : fill'[j][a] = IF a = q.by THEN Owed ELSE NoFill
  BY <1>1, <1>2, OweAllFields DEF Shape, At
<1>5. ASSUME NEW a \in live, a # q.by, a # q.target
      PROVE  Effective(a)' = Effective(a)
  <2>1. UserOf[a] # owner /\ UserOf[a] # owner'
    BY <1>2, <1>3, <1>5 DEF OneSeatPerUser
  <2>2. QED  BY <1>2, <2>1, SameEffective
<1>6. ASSUME NEW a \in live PROVE Right(a)' \/ Owes(j, a)'
  <2>1. CASE a = q.by  BY <1>4, <2>1 DEF Owes
  <2>2. CASE a = q.target  BY <1>2, <2>2 DEF Owes, At
  <2>3. CASE a # q.by /\ a # q.target  BY <1>2, <1>3, <1>5, <2>3 DEF Right
  <2>4. QED  BY <2>1, <2>2, <2>3
<1>7. Aware(j)'  BY <1>2, LooseAware DEF Loose
<1>8. \A a \in live : Unfilled(j, a)'  BY <1>4 DEF Unfilled
<1>9. QED  BY <1>2, <1>6, <1>7, <1>8 DEF Mended, Fresh, Filled

LEMMA DestroyTold ==
  ASSUME TypeOK, TypeOK', NEW j \in Jobs, Shape(j), Fresh(j),
         \A a \in live : Right(a) \/ Owes(j, a), Disband(j) \/ DestroyWrite(j)
  PROVE  Mended(j)
<1>1. At(j, "destroy", "disband") /\ live \subseteq job[j].todo
  BY DEF Disband, DestroyWrite, Fresh, Aware, At
<1>2. ~At(j, "update", "remove") /\ ~At(j, "transfer", "other")  BY <1>1 DEF At
<1>3. CASE Disband(j)
  <2>1. PICK a \in job[j].todo :
          /\ Unseat({a})
          /\ \/ Put(j, [job[j] EXCEPT !.todo = job[j].todo \ {a}])
             \/ Goto(j, "done")
    BY <1>3 DEF Disband
  <2>2. UNCHANGED <<owner, ranks, grants, cache, fill>>  BY <1>3 DEF Disband
  <2>3. live' = live \ {a} /\ \A b \in live' : b \in Assocs => rows'[b] = rows[b]
    BY <2>1 DEF Unseat
  <2>4. \A b \in live' : Effective(b)' = Effective(b)
    BY <2>2, <2>3 DEF TypeOK, TablesOK, Effective, Held
  <2>5. Aware(j)'
    <3>1. CASE Goto(j, "done")
      <4>1. job'[j].pc = "done"  BY <3>1, GotoFields
      <4>2. QED  BY <4>1, LooseAware DEF Loose
    <3>2. CASE Put(j, [job[j] EXCEPT !.todo = job[j].todo \ {a}])
      <4>1. job'[j] = [job[j] EXCEPT !.todo = job[j].todo \ {a}]  BY <3>2, PutFrame
      <4>2. /\ job'[j].op = "destroy" /\ job'[j].pc = "disband"
            /\ job'[j].todo = job[j].todo \ {a}
        BY <1>1, <4>1, JobType DEF Request, At
      <4>3. QED  BY <1>1, <2>3, <4>2 DEF Aware, At
    <3>3. QED  BY <2>1, <3>1, <3>2
  <2>6. QED  BY <1>2, <2>2, <2>3, <2>4, <2>5, Mends
<1>4. CASE DestroyWrite(j)
  <2>1. live' = {}  BY <1>1, <1>4 DEF DestroyWrite
  <2>2. job'[j].pc = "done"  BY <1>4, GotoFields DEF DestroyWrite
  <2>3. Aware(j)'  BY <2>2, LooseAware DEF Loose
  <2>4. QED  BY <2>1, <2>3 DEF Mended, Fresh, Filled
<1>5. QED  BY <1>3, <1>4

------------------------------------------------------------------------------
(* Reads, checks and regenerations. *)

\* The step changes nothing the entries depend on, and relies on nothing new.
SameGrounds(p, q) ==
  /\ p.pc = q.pc /\ p.op = q.op /\ p.by = q.by /\ p.target = q.target /\ p.rank = q.rank
  /\ p.fresh = q.fresh /\ p.map = q.map /\ p.have = q.have /\ p.todo = q.todo
  /\ p.clash = q.clash

Calm(j) ==
  /\ SameGroup /\ UNCHANGED <<cache, perms, fill>>
  /\ \/ SameGrounds(job'[j], job[j])
     \/ /\ Loose(job'[j])
        /\ ~At(j, "update", "remove") /\ ~At(j, "transfer", "other")

LEMMA CalmTells ==
  ASSUME NEW j \in Jobs, Fresh(j), Calm(j)
  PROVE  Tells(j)
<1>1. /\ \A a : Effective(a)' = Effective(a)
      /\ \A r : Holders(r)' = Holders(r)
      /\ live' = live
      /\ \A a : Unfilled(j, a)' = Unfilled(j, a)
      /\ \A a : Right(a)' = Right(a)
  BY DEF Calm, SameGroup, Effective, Holders, Held, Unfilled, Right
<1>2. Filled(j)'  BY <1>1 DEF Calm, Fresh, Filled
<1>3. CASE Loose(job'[j]) /\ ~At(j, "update", "remove") /\ ~At(j, "transfer", "other")
  <2>1. Aware(j)'  BY <1>3, LooseAware
  <2>2. \A a \in live : Owes(j, a) => Owes(j, a)'
    BY <1>1, <1>3 DEF Calm, Owes
  <2>3. QED  BY <1>2, <2>1, <2>2 DEF Tells, Fresh, Calm
<1>4. CASE SameGrounds(job'[j], job[j])
  <2>1. Aware(j)'
    BY <1>1, <1>4 DEF SameGrounds, Calm, SameGroup, Fresh, Aware, At
  <2>2. \A a \in live : Owes(j, a) => Owes(j, a)'
    BY <1>1, <1>4 DEF SameGrounds, Calm, Owes, At
  <2>3. QED  BY <1>2, <2>1, <2>2 DEF Tells, Fresh, Calm
<1>5. QED  BY <1>3, <1>4 DEF Calm

LEMMA RankCalm ==
  ASSUME TypeOK, NEW j \in Jobs, Shape(j),
         \/ ToggleRead(j) \/ OrderRead(j) \/ OrderMove(j) \/ OrderEnd(j)
         \/ InviteRead(j) \/ InviteWrite(j) \/ UninviteRead(j) \/ UninviteWrite(j)
  PROVE  Calm(j)
<1> USE DEF At, Calm, SameGroup, Loose, Same, Kept, SameAim, SameSight, SameGrounds, tables
<1>1. CASE ToggleRead(j)  BY <1>1, ToggleReadFields DEF ToggleRead
<1>2. CASE OrderRead(j)  BY <1>2, OrderReadFields DEF OrderRead
<1>3. CASE OrderMove(j)  BY <1>3, OrderMoveFields DEF OrderMove
<1>4. CASE OrderEnd(j)  BY <1>4, OrderEndFields DEF OrderEnd
<1>5. CASE InviteRead(j)  BY <1>5, GotoFields DEF InviteRead
<1>6. CASE InviteWrite(j)  BY <1>6, GotoFields DEF InviteWrite
<1>7. CASE UninviteRead(j)  BY <1>7, GotoFields DEF UninviteRead
<1>8. CASE UninviteWrite(j)  BY <1>8, GotoFields DEF UninviteWrite
<1>9. QED  BY <1>1, <1>2, <1>3, <1>4, <1>5, <1>6, <1>7, <1>8

LEMMA MemberCalm ==
  ASSUME TypeOK, NEW j \in Jobs, Shape(j),
         \/ AddRead(j) \/ JoinRead(j) \/ BotRead(j) \/ KickRead(j) \/ LeaveRead(j)
         \/ Unread(j) \/ NormRead(j) \/ NormWrite(j)
  PROVE  Calm(j)
<1> USE DEF At, Calm, SameGroup, Loose, Same, Kept, SameAim, SameSight, SameGrounds, tables
<1>1. CASE AddRead(j)  BY <1>1, GotoFields DEF AddRead
<1>2. CASE JoinRead(j)  BY <1>2, JoinReadFields DEF JoinRead
<1>3. CASE BotRead(j)  BY <1>3, GotoFields DEF BotRead
<1>4. CASE KickRead(j)  BY <1>4, KickReadFields DEF KickRead
<1>5. CASE LeaveRead(j)  BY <1>5, LeaveReadFields DEF LeaveRead
<1>6. CASE Unread(j)
  <2>1. job[j].op \in {"kick", "leave"}  BY <1>6 DEF Unread, Shape, PointsOf, Authorizes
  <2>2. QED  BY <1>6, <2>1, UnreadFields DEF Unread
<1>7. CASE NormRead(j)  BY <1>7, NormReadFields DEF NormRead
<1>8. CASE NormWrite(j)  BY <1>8, NormWriteFields DEF NormWrite
<1>9. QED  BY <1>1, <1>2, <1>3, <1>4, <1>5, <1>6, <1>7, <1>8

LEMMA ReadTells ==
  ASSUME TypeOK, NEW j \in Jobs, Shape(j), Fresh(j),
         UpdateRead(j) \/ RemoveRead(j) \/ TransferRead(j) \/ DestroyRead(j)
  PROVE  Tells(j) /\ SameGroup
<1> DEFINE q == job[j]
<1>1. /\ SameGroup /\ UNCHANGED <<cache, perms, fill>> /\ q.pc = "read" /\ job'[j].op = q.op
      /\ q.op \in {"update", "remove", "transfer", "destroy"}
      /\ job'[j].clash = q.clash /\ job'[j].by = q.by
  BY UpdateReadFields, RemoveReadFields, TransferReadFields, DestroyReadFields
  DEF UpdateRead, RemoveRead, TransferRead, DestroyRead, At, tables, SameGroup, Same, Kept
<1>2. /\ \A a : Effective(a)' = Effective(a)
      /\ \A r : Holders(r)' = Holders(r)
      /\ \A a : Unfilled(j, a)' = Unfilled(j, a)
      /\ \A a : Right(a)' = Right(a)
  BY <1>1 DEF SameGroup, Effective, Holders, Held, Unfilled, Right
<1>3. Filled(j)'  BY <1>1, <1>2 DEF SameGroup, Fresh, Filled
<1>4. \A a \in live : Owes(j, a) => Owes(j, a)'
  BY <1>1, <1>2 DEF Owes, At
<1>5. Aware(j)'
  <2>1. CASE job'[j].pc = "done"  BY <2>1, LooseAware DEF Loose
  <2>2. CASE UpdateRead(j) /\ job'[j].pc # "done"
    <3>1. /\ job'[j].pc = "write" /\ job'[j].op = "update" /\ job'[j].rank = q.rank
          /\ job'[j].todo = Holders(q.rank)
      BY <2>2, UpdateReadFields DEF UpdateRead, At, Kept
    <3>2. QED  BY <1>2, <3>1 DEF Aware, At
  <2>3. CASE RemoveRead(j) /\ job'[j].pc # "done"
    <3>1. job'[j].pc = "write" /\ job'[j].op = "remove" /\ job'[j].todo = live
      BY <2>3, RemoveReadFields DEF RemoveRead, At, Kept
    <3>2. QED  BY <1>1, <3>1 DEF Aware, At, SameGroup
  <2>4. CASE TransferRead(j) /\ job'[j].pc # "done"
    <3>1. /\ job'[j].pc = "write" /\ job'[j].op = "transfer" /\ q.op = "transfer"
          /\ job'[j].target = q.target
      BY <2>4, TransferReadFields DEF TransferRead, At, Kept, SameAim
    <3>2. q.by \in live /\ q.target \in live
      BY <2>4, GotoFields DEF TransferRead, Seated
    <3>3. ~q.clash => (\A a \in live : Right(a)) /\ UserOf[q.by] = owner
      BY <1>1, <3>1, <3>2 DEF Fresh, Aware
    <3>4. QED  BY <1>1, <1>2, <3>1, <3>2, <3>3 DEF Aware, At, SameGroup
  <2>5. CASE DestroyRead(j) /\ job'[j].pc # "done"
    <3>1. job'[j].pc = "disband" /\ job'[j].op = "destroy" /\ job'[j].todo = live
      BY <2>5, DestroyReadFields DEF DestroyRead, At, Kept
    <3>2. QED  BY <1>1, <3>1 DEF Aware, At, SameGroup
  <2>6. QED  BY <2>1, <2>2, <2>3, <2>4, <2>5
<1>6. QED  BY <1>1, <1>3, <1>4, <1>5 DEF Tells, Fresh

\* OWNER in the hands of a member whose entry is right is the ownership.
LEMMA OwnerByRight ==
  ASSUME TypeOK, NEW a, "OWNER" \in Effective(a)
  PROVE  UserOf[a] = owner
<1>1. \A r \in Held(a) : "OWNER" \notin grants[r]
  BY DEF TypeOK, TablesOK, Held, Permissions, MemberPermissions
<1>2. "OWNER" \notin UNION {grants[r] : r \in Held(a)}  BY <1>1
<1>3. QED  BY <1>2 DEF Effective

\* Where a check leads, and what it has seen there.
LEMMA DecideAware ==
  ASSUME TypeOK, NEW j \in Jobs, Shape(j), NEW have, Decide(j, have), Fresh(j),
         job[j].pc \in {"authorize", "miss"}, job[j].op # "none",
         SameGroup, \A a \in live : Right(a) => Right(a)',
         job[j].by \in live /\ (\A a \in live : Right(a)) => have = Effective(job[j].by)
  PROVE  Aware(j)'
<1> DEFINE q == job[j]
<1>1. /\ job'[j].pc = (IF Allows(have, q.need) THEN q.next ELSE "done")
      /\ Same(job'[j], q)
  BY GotoFields DEF Decide
<1>2. CASE Loose(job'[j])  BY <1>2, LooseAware
<1>3. CASE ~Loose(job'[j])
  <2>1. /\ q.op = "transfer" /\ job'[j].pc = "read" /\ Allows(have, "OWNER")
    BY <1>1, <1>3 DEF Shape, Loose, Same, Kept
  <2>2. q.by \in live /\ (\A a \in live : Right(a)) => UserOf[q.by] = owner
    BY <2>1, OwnerByRight DEF Allows
  <2>3. ~q.clash => \A a \in live : Right(a)
    BY <2>1 DEF Fresh, Aware
  <2>4. QED
    BY <1>1, <2>1, <2>2, <2>3 DEF Aware, At, SameGroup, Same, Kept
<1>4. QED  BY <1>2, <1>3

LEMMA CheckTells ==
  ASSUME TypeOK, NEW j \in Jobs, Shape(j), Fresh(j),
         CheckHit(j) \/ CheckRead(j) \/ CheckWrite(j)
  PROVE  Tells(j) /\ SameGroup
<1> DEFINE q == job[j]
<1>1. /\ SameGroup /\ fill' = fill /\ q.op # "none" /\ q.by \in Assocs
      /\ q.pc \in {"authorize", "miss"}
  BY JobType DEF CheckHit, CheckRead, CheckWrite, Checking, tables, SameGroup, Request
<1>2. \A a : Effective(a)' = Effective(a) /\ Unfilled(j, a)' = Unfilled(j, a)
  BY <1>1 DEF SameGroup, Effective, Held, Unfilled
<1>3. Filled(j)'  BY <1>1, <1>2 DEF SameGroup, Fresh, Filled
<1>4. \A a \in live : Owes(j, a) => Owes(j, a)'  BY <1>1, <1>2 DEF Owes, At
<1>5. \A a \in live : cache'[a] \in {cache[a], Effective(a)}
  <2>1. CASE CheckHit(j) \/ CheckRead(j)  BY <2>1 DEF CheckHit, CheckRead
  <2>2. CASE CheckWrite(j)
    <3>1. perms[j] = Effective(q.by)  BY <2>2 DEF CheckWrite, Checking, Fresh, Aware
    <3>2. QED  BY <2>2, <3>1 DEF CheckWrite, TypeOK, TablesOK, EntriesOK
  <2>3. QED  BY <2>1, <2>2
<1>6. \A a \in live : Right(a) => Right(a)'  BY <1>2, <1>5 DEF Right
<1>7. Aware(j)'
  <2>1. CASE CheckHit(j)
    <3>1. Decide(j, cache[q.by]) /\ cache[q.by] # NoEntry  BY <2>1 DEF CheckHit
    <3>2. q.by \in live /\ (\A a \in live : Right(a)) => cache[q.by] = Effective(q.by)
      BY <3>1 DEF Right
    <3>3. QED  BY <1>1, <1>6, <3>1, <3>2, DecideAware
  <2>2. CASE CheckWrite(j)
    <3>1. Decide(j, perms[j]) /\ perms[j] = Effective(q.by)
      BY <2>2 DEF CheckWrite, Checking, Fresh, Aware
    <3>2. QED  BY <1>1, <1>6, <3>1, DecideAware
  <2>3. CASE CheckRead(j) /\ q.by \notin live
    <3>1. Decide(j, {})  BY <2>3 DEF CheckRead
    <3>2. QED  BY <1>1, <1>6, <2>3, <3>1, DecideAware
  <2>4. CASE CheckRead(j) /\ q.by \in live
    <3>1. /\ perms'[j] = Effective(q.by) /\ q.pc = "authorize"
      BY <2>4 DEF CheckRead, Checking, TypeOK, EntriesOK
    <3>2. job'[j].pc = "miss" /\ Same(job'[j], q)  BY <2>4, GotoFields DEF CheckRead
    <3>3. q.op = "transfer" /\ ~q.clash => \A a \in live : Right(a)
      BY <3>1 DEF Fresh, Aware
    <3>4. QED
      BY <1>1, <1>2, <1>6, <3>1, <3>2, <3>3 DEF Aware, At, SameGroup, Same, Kept
  <2>5. QED  BY <2>1, <2>2, <2>3, <2>4
<1>8. QED  BY <1>1, <1>3, <1>4, <1>5, <1>7 DEF Tells, Fresh

LEMMA AwareStays ==
  ASSUME NEW j \in Jobs, Aware(j), SameGroup, SameGrounds(job'[j], job[j]), perms' = perms,
         \A a \in live : Right(a) => Right(a)'
  PROVE  Aware(j)'
<1>1. /\ \A a : Effective(a)' = Effective(a)
      /\ \A r : Holders(r)' = Holders(r)
  BY DEF SameGroup, Effective, Holders, Held
<1>2. QED  BY <1>1 DEF SameGrounds, SameGroup, Aware, At

LEMMA FillTells ==
  ASSUME TypeOK, NEW j \in Jobs, Fresh(j), NEW a \in Assocs,
         FillRead(j, a) \/ FillHit(j, a) \/ FillWrite(j, a)
  PROVE  Tells(j) /\ SameGroup
<1>1. /\ SameGroup /\ perms' = perms /\ SameGrounds(job'[j], job[j])
      /\ live \subseteq Assocs /\ fill \in [Jobs -> [Assocs -> FillValues]]
      /\ \A b \in Assocs \ {a} : fill'[j][b] = fill[j][b] /\ cache'[b] = cache[b]
  BY DEF FillRead, FillHit, FillWrite, tables, SameGroup, SameGrounds, TypeOK, TablesOK,
         EntriesOK, FillValues
<1>2. \A b : Effective(b)' = Effective(b)  BY <1>1 DEF SameGroup, Effective, Held
<1>3. \A b \in Assocs : Effective(b) \notin {NoFill, Owed, Wanted}
  BY EffectiveType DEF TypeOK, AllPermissions, Permissions, MemberPermissions, NoFill,
     Owed, Wanted
<1>4. NoFill # Owed /\ NoFill # Wanted /\ Owed # Wanted  BY DEF NoFill, Owed, Wanted
<1>5. /\ a \in live => cache'[a] \in {cache[a], Effective(a)}
      /\ fill'[j][a] \in {NoFill, Effective(a)}
      /\ a \in live => \/ fill'[j][a] = Effective(a)
                       \/ cache'[a] = Effective(a)
                       \/ fill[j][a] = Wanted /\ cache'[a] = cache[a]
  <2>1. CASE FillRead(j, a)  BY <1>1, <2>1 DEF FillRead
  <2>2. CASE FillHit(j, a)  BY <1>1, <2>2 DEF FillHit
  <2>3. CASE FillWrite(j, a)
    <3>1. a \in live => fill[j][a] = Effective(a)  BY <2>3 DEF FillWrite, Fresh, Filled
    <3>2. cache'[a] = fill[j][a] /\ fill'[j][a] = NoFill
      BY <1>1, <2>3 DEF FillWrite, TypeOK, EntriesOK
    <3>3. QED  BY <3>1, <3>2
  <2>4. QED  BY <2>1, <2>2, <2>3
<1>6. \A b \in live : cache'[b] \in {cache[b], NoEntry, Effective(b)}  BY <1>1, <1>5
<1>7. \A b \in live : Right(b) => Right(b)'
  BY <1>1, <1>2, <1>5 DEF Right
<1>8. Aware(j)'  BY <1>1, <1>7, AwareStays DEF Fresh
<1>9. Filled(j)'
  <2> SUFFICES ASSUME NEW b \in live', ~Unfilled(j, b)' PROVE fill'[j][b] = Effective(b)'
    BY DEF Filled
  <2>1. b \in live /\ b \in Assocs  BY <1>1 DEF SameGroup
  <2>2. CASE b = a  BY <1>2, <1>5, <2>2 DEF Unfilled
  <2>3. CASE b # a  BY <1>1, <1>2, <2>1, <2>3 DEF Unfilled, Fresh, Filled
  <2>4. QED  BY <2>2, <2>3
<1>10. ASSUME NEW b \in live, Owes(j, b) PROVE Right(b)' \/ Owes(j, b)'
  <2>1. b \in Assocs  BY <1>1
  <2>2. CASE \/ At(j, "update", "remove") /\ b \in job[j].todo /\ ~(job[j].map \subseteq job[j].have)
             \/ At(j, "transfer", "other") /\ b = job[j].target
    BY <1>1, <2>2 DEF Owes, SameGrounds, At
  <2>3. CASE b # a  BY <1>1, <1>10, <2>1, <2>2, <2>3 DEF Owes, Unfilled
  <2>4. CASE b = a /\ (fill[j][a] = Owed \/ ~Unfilled(j, a))
    <3>1. fill[j][a] # Wanted  BY <1>4, <2>4 DEF Unfilled
    <3>2. CASE fill'[j][a] = Effective(a)  BY <1>3, <2>4, <3>2 DEF Owes, Unfilled
    <3>3. CASE cache'[a] = Effective(a)  BY <1>2, <2>4, <3>3 DEF Right
    <3>4. QED  BY <1>5, <2>4, <3>1, <3>2, <3>3
  <2>5. QED  BY <1>10, <2>2, <2>3, <2>4 DEF Owes
<1>11. QED  BY <1>1, <1>6, <1>8, <1>9, <1>10 DEF Tells, Fresh

LEMMA PurgeTells ==
  ASSUME TypeOK, NEW j \in Jobs, Shape(j), Fresh(j), Purge(j)
  PROVE  Tells(j) /\ SameGroup
<1>1. /\ SameGroup /\ fill' = fill /\ job[j].op \in {"kick", "leave"}
      /\ job'[j].op = job[j].op /\ job'[j].pc = "authorize"
  BY PurgeFields DEF Purge, Shape, PointsOf, Authorizes, tables, SameGroup, Kept
<1>2. \A a : Effective(a)' = Effective(a) /\ Unfilled(j, a)' = Unfilled(j, a)
  BY <1>1 DEF SameGroup, Effective, Held, Unfilled
<1>3. Filled(j)'  BY <1>1, <1>2 DEF SameGroup, Fresh, Filled
<1>4. \A a \in live : Owes(j, a) => Owes(j, a)'  BY <1>1, <1>2 DEF Owes, At
<1>5. \A a \in live : cache'[a] \in {cache[a], NoEntry}
  BY DEF Purge, TypeOK, TablesOK, EntriesOK
<1>6. Aware(j)'  BY <1>1, LooseAware DEF Loose
<1>7. QED  BY <1>1, <1>3, <1>4, <1>5, <1>6 DEF Tells, Fresh

LEMMA OweTells ==
  ASSUME TypeOK, NEW j \in Jobs, Shape(j), Fresh(j), NormUsers(j) \/ TransferOther(j)
  PROVE  Tells(j) /\ SameGroup
<1>1. /\ SameGroup /\ cache' = cache /\ perms' = perms /\ live \subseteq Assocs
  BY DEF NormUsers, TransferOther, tables, SameGroup, TypeOK, TablesOK
<1>2. \A a : Effective(a)' = Effective(a) /\ Right(a)' = Right(a)
  BY <1>1 DEF SameGroup, Effective, Held, Right
<1>3. \A a \in Assocs : fill'[j][a] \in {fill[j][a], Owed}
  BY OweAllFields DEF NormUsers, TransferOther
<1>4. Filled(j)'
  BY <1>1, <1>2, <1>3 DEF Fresh, Filled, Unfilled, SameGroup
<1>5. \A a \in Assocs : fill[j][a] = Owed \/ ~Unfilled(j, a) => Owes(j, a)'
  BY <1>3 DEF Owes, Unfilled
<1>6. CASE NormUsers(j)
  <2>1. SameGrounds(job'[j], job[j])
    BY <1>6, NormUsersFields DEF SameGrounds, Kept, SameAim, SameSight
  <2>2. Aware(j)'  BY <1>1, <1>2, <2>1, AwareStays DEF Fresh
  <2>3. \A a \in live : Owes(j, a) => Owes(j, a)'
    BY <1>1, <1>5, <2>1 DEF Owes, At, SameGrounds
  <2>4. QED  BY <1>1, <1>4, <2>2, <2>3 DEF Tells, Fresh
<1>7. CASE TransferOther(j)
  <2>1. At(j, "transfer", "other") /\ job'[j].pc = "done"
    BY <1>7, GotoFields DEF TransferOther
  <2>2. Aware(j)'  BY <2>1, LooseAware DEF Loose
  <2>3. job[j].target \in Assocs => fill'[j][job[j].target] = Owed
    BY <1>7, OweAllFields DEF TransferOther
  <2>4. ASSUME NEW a \in live, Owes(j, a) PROVE Owes(j, a)'
    <3>1. CASE a = job[j].target  BY <1>1, <2>3, <3>1 DEF Owes
    <3>2. CASE a # job[j].target  BY <1>1, <1>5, <2>1, <2>4, <3>2 DEF Owes, At
    <3>3. QED  BY <3>1, <3>2
  <2>5. QED  BY <1>1, <1>4, <2>2, <2>4 DEF Tells, Fresh
<1>8. QED  BY <1>6, <1>7

------------------------------------------------------------------------------
(* Every step. *)

LEMMA StillTold ==
  ASSUME TypeOK, Told, NEW j \in Jobs, Frame(j), Shape(j),
         \/ Fresh(j) => Tells(j) /\ SameGroup
         \/ Calm(j)
  PROVE  Told'
<1>1. CASE Calm(j)
  <2>1. SameGroup  BY <1>1 DEF Calm
  <2>2. Fresh(j) => Tells(j)  BY <1>1, CalmTells
  <2>3. QED  BY <2>1, <2>2, ToldStill
<1>2. CASE Fresh(j) => Tells(j) /\ SameGroup
  <2>1. CASE Fresh(j)  BY <1>2, <2>1, ToldStill
  <2>2. CASE ~Fresh(j)
    <3>1. ~(excuses \subseteq {"ruin"})  BY <2>2 DEF Told
    <3>2. QED  BY <3>1 DEF Told, Frame
  <2>3. QED  BY <2>1, <2>2
<1>3. QED  BY <1>1, <1>2

LEMMA RankTold ==
  ASSUME TypeOK, TypeOK', Shapes, Untouched, Told, NEW j \in Jobs, RankStep(j)
  PROVE  Told'
<1>1. Shape(j) /\ Frame(j)  BY RankFrame DEF Shapes
<1>2. CASE \/ ToggleRead(j) \/ OrderRead(j) \/ OrderMove(j) \/ OrderEnd(j)
           \/ InviteRead(j) \/ InviteWrite(j) \/ UninviteRead(j) \/ UninviteWrite(j)
  BY <1>1, <1>2, RankCalm, StillTold
<1>3. CASE UpdateRead(j) \/ RemoveRead(j)
  BY <1>1, <1>3, ReadTells, StillTold
<1>4. CASE ToggleAdd(j) \/ ToggleTake(j)
  <2>1. Wrote(j)  BY <1>4 DEF ToggleAdd, ToggleTake
  <2>2. QED  BY <1>1, <1>4, <2>1, AloneWrote, ToggleTold, ToldAlone
<1>5. CASE UpdateAdd(j)
  <2>1. \E S : Excuse(OverlapExcuse(j) \cup S)  BY <1>5 DEF UpdateAdd
  <2>2. QED  BY <1>1, <1>5, <2>1, AloneExcuse, UpdateAddTold, ToldAlone
<1>6. CASE UpdateRemove(j)
  <2>1. \E S : Excuse(OverlapExcuse(j) \cup S)  BY <1>6 DEF UpdateRemove
  <2>2. QED  BY <1>1, <1>6, <2>1, AloneExcuse, UpdateRemoveTold, ToldAlone
<1>7. CASE CreateRank(j)
  <2>1. CASE Wrote(j)  BY <1>1, <1>7, <2>1, AloneWrote, CreateRankTold, ToldAlone
  <2>2. CASE ~Wrote(j)
    <3>1. /\ At(j, "create", "read") /\ Goto(j, "done")
          /\ SameGroup /\ UNCHANGED <<cache, perms, fill>>
      BY <1>7, <2>2 DEF CreateRank, SameGroup
    <3>2. Calm(j)  BY <3>1, GotoFields DEF Calm, Loose, At
    <3>3. QED  BY <1>1, <3>2, StillTold
  <2>3. QED  BY <2>1, <2>2
<1>8. CASE CreateGrants(j)
  <2>1. Wrote(j)  BY <1>8 DEF CreateGrants
  <2>2. QED  BY <1>1, <1>8, <2>1, AloneWrote, CreateGrantsTold, ToldAlone
<1>9. CASE RemoveWrite(j)
  <2>1. Wrote(j)  BY <1>9 DEF RemoveWrite
  <2>2. QED  BY <1>1, <1>9, <2>1, AloneWrote, RemoveWriteTold, ToldAlone
<1>10. QED
  BY <1>2, <1>3, <1>4, <1>5, <1>6, <1>7, <1>8, <1>9 DEF RankStep

LEMMA MemberTold ==
  ASSUME TypeOK, TypeOK', Shapes, Untouched, OneSeatPerUser, Told,
         NEW j \in Jobs, MemberStep(j)
  PROVE  Told'
<1>1. Shape(j) /\ Frame(j)  BY MemberFrame DEF Shapes
<1>2. CASE AddRead(j) \/ JoinRead(j) \/ BotRead(j) \/ KickRead(j) \/ LeaveRead(j) \/ Unread(j)
  BY <1>1, <1>2, MemberCalm, StillTold
<1>3. CASE TransferRead(j) \/ DestroyRead(j)
  BY <1>1, <1>3, ReadTells, StillTold
<1>4. CASE Purge(j)  BY <1>1, <1>4, PurgeTells, StillTold
<1>5. CASE TransferOther(j)  BY <1>1, <1>5, OweTells, StillTold
<1>6. CASE Seat(j)
  <2>1. Wrote(j)  BY <1>6 DEF Seat
  <2>2. QED  BY <1>1, <1>6, <2>1, AloneWrote, SeatTold, ToldAlone
<1>7. CASE SeatRow(j)
  <2>1. \E S : Excuse(OverlapExcuse(j) \cup S)  BY <1>7 DEF SeatRow
  <2>2. QED  BY <1>1, <1>7, <2>1, AloneExcuse, SeatRowTold, ToldAlone
<1>8. CASE BotRank(j)
  <2>1. Wrote(j)  BY <1>8 DEF BotRank
  <2>2. QED  BY <1>1, <1>8, <2>1, AloneWrote, BotRankTold, ToldAlone
<1>9. CASE BotRow(j)
  <2>1. Wrote(j)  BY <1>9 DEF BotRow
  <2>2. QED  BY <1>1, <1>9, <2>1, AloneWrote, BotRowTold, ToldAlone
<1>10. CASE BotGrants(j)
  <2>1. \E S : Excuse(OverlapExcuse(j) \cup S)  BY <1>10 DEF BotGrants
  <2>2. QED  BY <1>1, <1>10, <2>1, AloneExcuse, BotGrantsTold, ToldAlone
<1>11. CASE KickWrite(j)
  <2>1. Wrote(j)  BY <1>11 DEF KickWrite
  <2>2. QED  BY <1>1, <1>11, <2>1, AloneWrote, KickWriteTold, ToldAlone
<1>12. CASE TransferWrite(j)
  <2>1. Excuse(OverlapExcuse(j))  BY <1>12 DEF TransferWrite
  <2>2. QED  BY <1>1, <1>12, <2>1, AloneBare, TransferWriteTold, ToldAlone
<1>13. CASE Disband(j) \/ DestroyWrite(j)
  <2>1. Excuse(OverlapExcuse(j)) \/ Excuse(OverlapExcuse(j) \cup {"ruin"})
    BY <1>13 DEF Disband, DestroyWrite
  <2>2. Alone(j) \/ "overlap" \in excuses'  BY <2>1, AloneBare, AloneExcuse
  <2>3. QED  BY <1>1, <1>13, <2>2, DestroyTold, ToldAlone
<1>14. QED
  BY <1>2, <1>3, <1>4, <1>5, <1>6, <1>7, <1>8, <1>9, <1>10, <1>11, <1>12, <1>13
  DEF MemberStep

LEMMA OtherTold ==
  ASSUME TypeOK, TypeOK', Shapes, Told, NEW j \in Jobs, CacheStep(j) \/ NormStep(j)
  PROVE  Told'
<1>1. Shape(j) /\ Frame(j)  BY CacheShape, NormShape DEF Shapes
<1>2. CASE CheckHit(j) \/ CheckRead(j) \/ CheckWrite(j)
  BY <1>1, <1>2, CheckTells, StillTold
<1>3. ASSUME NEW a \in Assocs, FillRead(j, a) \/ FillHit(j, a) \/ FillWrite(j, a)
      PROVE  Told'
  BY <1>1, <1>3, FillTells, StillTold
<1>4. CASE NormRead(j) \/ NormWrite(j)  BY <1>1, <1>4, MemberCalm, StillTold
<1>5. CASE NormUsers(j)  BY <1>1, <1>5, OweTells, StillTold
<1>6. QED  BY <1>2, <1>3, <1>4, <1>5 DEF CacheStep, NormStep

\* A request that has just arrived owes nothing and has seen nothing, except that
\* it knows whether it is alone.
LEMMA ArriveTold ==
  ASSUME TypeOK, Shapes, Told, NEW j \in Jobs, Newborn(j)
  PROVE  Told'
<1> SUFFICES ASSUME excuses \subseteq {"ruin"}
             PROVE  /\ \A k \in Jobs : Fresh(k)'
                    /\ \A a \in live' : Right(a)' \/ \E k \in Jobs : Owes(k, a)'
  BY DEF Told, Newborn, history
<1>1. /\ UNCHANGED <<owner, live, ranks, grants, rows, cache, perms, fill>>
      /\ \A k \in Jobs \ {j} : job'[k] = job[k]
      /\ live \subseteq Assocs
  BY DEF Newborn, TypeOK, TablesOK
<1>2. /\ \A a : Effective(a)' = Effective(a) /\ Right(a)' = Right(a)
      /\ \A r : Holders(r)' = Holders(r)
      /\ \A k \in Jobs : \A a : Unfilled(k, a)' = Unfilled(k, a)
  BY <1>1 DEF Effective, Holders, Held, Right, Unfilled
<1>3. /\ \A k \in Jobs : Fresh(k)
      /\ \A a \in live : Right(a) \/ \E k \in Jobs : Owes(k, a)
  BY DEF Told
<1>4. \A k \in Jobs \ {j} : Fresh(k)' /\ \A a : Owes(k, a)' = Owes(k, a)
  BY <1>1, <1>2, <1>3 DEF Fresh, Filled, Aware, At, Owes
<1>5. job[j].op = "none" /\ \A a \in Assocs : fill[j][a] = NoFill
  BY DEF Newborn, Shapes, Shape
<1>6. \A a \in live : ~Owes(j, a)
  BY <1>1, <1>5 DEF Owes, Unfilled, At, NoFill, Owed
<1>7. Filled(j)'  BY <1>1, <1>2, <1>3 DEF Fresh, Filled
<1>8. Aware(j)'
  <2>1. CASE Loose(job'[j])  BY <2>1, LooseAware
  <2>2. CASE ~Loose(job'[j])
    <3>1. job'[j].op = "transfer" /\ job'[j].pc = "authorize"
      BY <2>2 DEF Newborn, Loose
    <3>2. ~job'[j].clash => \A a \in live : Right(a)
      <4> SUFFICES ASSUME ~job'[j].clash, NEW a \in live PROVE Right(a)
        OBVIOUS
      <4>1. \A k \in Jobs \ {j} : job[k].op \in {"none", "check"}
        BY DEF Newborn, Overlap
      <4>2. \A k \in Jobs \ {j} : fill[k][a] = NoFill
        BY <1>1, <4>1 DEF Shapes, Shape
      <4>3. \A k \in Jobs \ {j} : ~Owes(k, a)
        BY <4>1, <4>2 DEF Owes, Unfilled, At, NoFill, Owed
      <4>4. QED  BY <1>3, <1>6, <4>3
    <3>3. QED  BY <1>1, <1>2, <3>1, <3>2 DEF Aware, At
  <2>3. QED  BY <2>1, <2>2
<1>9. ASSUME NEW a \in live PROVE Right(a)' \/ \E k \in Jobs : Owes(k, a)'
  BY <1>2, <1>3, <1>4, <1>6
<1>10. QED  BY <1>1, <1>4, <1>7, <1>8, <1>9 DEF Fresh

LEMMA FinishTold ==
  ASSUME TypeOK, Told, NEW j \in Jobs, Finish(j)
  PROVE  Told'
<1>1. /\ job'[j] = NoRequest /\ job[j].pc = "done"
      /\ \A k \in Jobs \ {j} : job'[k] = job[k] /\ perms'[k] = perms[k]
      /\ UNCHANGED <<owner, live, ranks, grants, rows, cache, fill, excuses>>
      /\ \A a \in Assocs : fill[j][a] = NoFill
      /\ live \subseteq Assocs
  BY PutFrame DEF Finish, Settled, tables, history, TypeOK, TablesOK, EntriesOK
<1>2. /\ \A a : Effective(a)' = Effective(a) /\ Right(a)' = Right(a)
      /\ \A r : Holders(r)' = Holders(r)
      /\ \A k \in Jobs : \A a : Unfilled(k, a)' = Unfilled(k, a)
  BY <1>1 DEF Effective, Holders, Held, Right, Unfilled
<1> SUFFICES ASSUME excuses \subseteq {"ruin"}
             PROVE  /\ \A k \in Jobs : Fresh(k)'
                    /\ \A a \in live' : Right(a)' \/ \E k \in Jobs : Owes(k, a)'
  BY <1>1 DEF Told
<1>3. /\ \A k \in Jobs : Fresh(k)
      /\ \A a \in live : Right(a) \/ \E k \in Jobs : Owes(k, a)
  BY DEF Told
<1>4. \A k \in Jobs \ {j} : Fresh(k)' /\ \A a : Owes(k, a)' = Owes(k, a)
  BY <1>1, <1>2, <1>3 DEF Fresh, Filled, Aware, At, Owes
<1>5. Fresh(j)'
  <2>1. Aware(j)'  BY <1>1, LooseAware DEF Loose, NoRequest
  <2>2. Filled(j)'  BY <1>1, <1>2, <1>3 DEF Fresh, Filled
  <2>3. QED  BY <2>1, <2>2 DEF Fresh
<1>6. \A a \in live : ~Owes(j, a)
  BY <1>1 DEF Owes, Unfilled, At, NoFill, Owed
<1>7. QED  BY <1>1, <1>2, <1>3, <1>4, <1>5, <1>6

LEMMA ToldStep ==
  ASSUME TypeOK, TypeOK', Shapes, Untouched, OneSeatPerUser, Told, [Next]_vars
  PROVE  Told'
<1>1. ASSUME NEW j \in Jobs, Arrive(j) PROVE Told'
  BY <1>1, ArriveNewborn, ArriveTold
<1>2. ASSUME NEW j \in Jobs, Run(j) PROVE Told'
  BY <1>2, RankTold, MemberTold, OtherTold, FinishTold DEF Run
<1>3. ASSUME NEW j \in Jobs, Crash(j) PROVE Told'
  BY <1>3 DEF Crash, Excuse, Told
<1>4. CASE UNCHANGED vars
  BY <1>4 DEF vars, tables, history, Told, Fresh, Filled, Aware, Right, Owes, Unfilled, At,
              Effective, Holders, Held
<1>5. QED  BY <1>1, <1>2, <1>3, <1>4 DEF Next

LEMMA ToldInit ==
  ASSUME Initial
  PROVE  Told
<1> USE DEF Initial, Init
<1>1. ASSUME NEW k \in Jobs PROVE Fresh(k)
  <2>1. job[k].op = "none" /\ job[k].pc = "done"  BY DEF NoRequest
  <2>2. \A a \in live : fill[k][a] = NoFill  BY AssocAssumption
  <2>3. Aware(k)  BY <2>1 DEF Aware, At
  <2>4. QED  BY <2>2, <2>3 DEF Fresh, Filled, Unfilled
<1>2. \A a \in live : Right(a)
  BY AssocAssumption DEF Right
<1>3. QED  BY <1>1, <1>2 DEF Told

\* At rest, the Redis entry of every member is the permissions of its ranks, and OWNER
\* for Chat.userId, or missing: every handler that changes a rank, a grant, a row or
\* the owner has every entry that depends on it regenerated before it is over
\* (syncPermissions, normalizeIndexes, transferGroupOwnership), as long as no request
\* that changes the group overlapped another, no worker died, updateChatRank did not
\* throw half-way and no newcomer's entry was filled early.  A deleteGroup that stops
\* half-way does not matter.
THEOREM EntriesTellTheTables == Spec => []CacheTellsTheTables
<1>1. Initial => TypeOK /\ Shapes /\ Untouched /\ Told
  BY InitialType, ShapesInit, UntouchedInit, ToldInit
<1>2. TypeOK /\ TypeOK' /\ Shapes /\ Untouched /\ OneSeatPerUser /\ Told /\ [Next]_vars
        => (Shapes /\ Untouched /\ Told)'
  BY ShapesStep, UntouchedStep, ToldStep
<1>3. TypeOK /\ Shapes /\ Told => CacheTellsTheTables
  <2> SUFFICES ASSUME TypeOK, Shapes, Told, Quiet, excuses \subseteq {"ruin"},
                      NEW a \in live, cache[a] # NoEntry
               PROVE  cache[a] = Effective(a)
    BY DEF CacheTellsTheTables
  <2>1. a \in Assocs  BY DEF TypeOK, TablesOK
  <2>2. ASSUME NEW k \in Jobs PROVE ~Owes(k, a)
    <3>1. job[k].op = "none" /\ fill[k][a] = NoFill
      BY <2>1 DEF Quiet, Shapes, Shape
    <3>2. QED  BY <3>1 DEF Owes, Unfilled, At, NoFill, Owed
  <2>3. QED  BY <2>2 DEF Told, Right
<1>4. QED  BY <1>1, <1>2, <1>3, TypeCorrect, OneSeat, PTL DEF Spec
=============================================================================
