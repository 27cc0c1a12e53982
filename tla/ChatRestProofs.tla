--------------------------- MODULE ChatRestProofs ---------------------------
(***************************************************************************)
(* What a group looks like at rest, for every number of users, ranks,      *)
(* associations and requests: one association a user (OneSeat), the owner  *)
(* among the members (OwnerStaysMember), distinct indexes with the managed *)
(* rank lowest (HierarchyStaysStrict); and what a reordering may do        *)
(* (OrderStopsBelow).                                                      *)
(*                                                                         *)
(* All but the first hold only of requests that do not overlap, and that   *)
(* is how the proofs go: a step that writes what the others rely on is     *)
(* taken alone or leaves "overlap" among the excuses (Frame).  Each        *)
(* invariant then says what the one request in flight owes at each of its  *)
(* points; the invariant of the group at rest is what is left when nobody  *)
(* owes anything.                                                          *)
(*                                                                         *)
(* First the types, under every interleaving (TypeCorrect): one lemma for  *)
(* each step of a request, on a few lemmas about the bookkeeping they      *)
(* share.                                                                  *)
(***************************************************************************)
EXTENDS ChatPermissions, FiniteSetTheorems, SequenceTheorems, TLAPS

FillValues == {NoFill, Owed, Wanted} \cup SUBSET AllPermissions

------------------------------------------------------------------------------
(* The bookkeeping. *)

LEMMA JobType ==
  ASSUME TypeOK, NEW j \in Jobs
  PROVE  job[j] \in Request
BY DEF TypeOK

LEMMA PutType ==
  ASSUME TypeOK, NEW j \in Jobs, NEW q \in Request, Put(j, q)
  PROVE  job' \in [Jobs -> Request]
BY DEF TypeOK, Put

LEMMA PcType ==
  ASSUME NEW q \in Request, NEW pc \in Points
  PROVE  [q EXCEPT !.pc = pc] \in Request
BY DEF Request

LEMMA GotoType ==
  ASSUME TypeOK, NEW j \in Jobs, NEW pc \in Points, Goto(j, pc)
  PROVE  job' \in [Jobs -> Request]
<1>1. [job[j] EXCEPT !.pc = pc] \in Request  BY JobType, PcType
<1>2. QED  BY <1>1, PutType DEF Goto

\* A step that changes nothing but its request.
LEMMA JobOnly ==
  ASSUME TypeOK, job' \in [Jobs -> Request],
         UNCHANGED <<tables, cache, perms, fill, history>>
  PROVE  TypeOK'
BY DEF TypeOK, TablesOK, EntriesOK, HistoryOK, tables, history

LEMMA OweAllType ==
  ASSUME EntriesOK, NEW j \in Jobs, NEW as, OweAll(j, as)
  PROVE  fill' \in [Jobs -> [Assocs -> FillValues]]
<1>1. fill \in [Jobs -> [Assocs -> FillValues]]  BY DEF EntriesOK, FillValues
<1>2. Owed \in FillValues  BY DEF FillValues
<1>3. [a \in Assocs |-> IF a \in as THEN Owed ELSE fill[j][a]] \in [Assocs -> FillValues]
  BY <1>1, <1>2
<1>4. QED  BY <1>1, <1>3 DEF OweAll

LEMMA SendsType ==
  ASSUME EntriesOK, NEW j \in Jobs, NEW a \in Assocs, Sends(j, a)
  PROVE  fill' \in [Jobs -> [Assocs -> FillValues]]
<1>1. fill \in [Jobs -> [Assocs -> FillValues]]  BY DEF EntriesOK, FillValues
<1>2. (IF fill[j][a] = NoFill THEN Wanted ELSE fill[j][a]) \in FillValues
  BY <1>1 DEF FillValues
<1>3. QED  BY <1>1, <1>2 DEF Sends

LEMMA ExcuseType ==
  ASSUME HistoryOK, NEW j \in Jobs, NEW S \in SUBSET Excuses,
         Excuse(OverlapExcuse(j) \cup S), UNCHANGED <<granted, owners>>
  PROVE  HistoryOK'
BY DEF HistoryOK, Excuse, OverlapExcuse, Excuses

LEMMA WroteType ==
  ASSUME HistoryOK, NEW j \in Jobs, Wrote(j)
  PROVE  HistoryOK'
BY DEF HistoryOK, Wrote, Excuse, OverlapExcuse, Excuses

LEMMA HighestIndexType ==
  ASSUME TypeOK, NEW a \in Assocs
  PROVE  HighestIndex(a) \in Int
<1>1. \A r \in Held(a) : index[r] \in Int  BY DEF TypeOK, TablesOK, Held
<1>2. QED  BY <1>1 DEF HighestIndex

\* What getPermissions computes is a set of permissions.
LEMMA EffectiveType ==
  ASSUME TablesOK, NEW a \in Assocs
  PROVE  Effective(a) \subseteq AllPermissions
<1> DEFINE byRank  == UNION {grants[r] : r \in Held(a)}
           byOwner == IF UserOf[a] = owner THEN {"OWNER"} ELSE {}
<1>1. \A r \in Held(a) : grants[r] \subseteq AllPermissions
  BY DEF TablesOK, Held, AllPermissions
<1>2. byRank \subseteq AllPermissions  BY <1>1
<1>3. byOwner \subseteq AllPermissions  BY DEF AllPermissions
<1>4. Effective(a) = byRank \cup byOwner  BY DEF Effective, byRank, byOwner
<1> HIDE DEF byRank, byOwner
<1>5. QED  BY <1>2, <1>3, <1>4

LEMMA RowsType ==
  ASSUME NEW f \in [Assocs -> [Ranks -> Nat]], NEW a \in Assocs, NEW r \in Ranks, NEW n \in Nat
  PROVE  [f EXCEPT ![a][r] = n] \in [Assocs -> [Ranks -> Nat]]
<1>1. [f[a] EXCEPT ![r] = n] \in [Ranks -> Nat]  OBVIOUS
<1>2. QED  BY <1>1

LEMMA RankListType ==
  ASSUME TypeOK, NEW s \in [1..Cardinality(ranks) -> ranks]
  PROVE  s \in Seq(Ranks)
<1>1. IsFiniteSet(ranks)  BY RankAssumption, FS_Subset DEF TypeOK, TablesOK
<1>2. Cardinality(ranks) \in Nat  BY <1>1, FS_CardinalityType
<1>3. s \in Seq(ranks)  BY <1>2
<1>4. QED  BY <1>3 DEF TypeOK, TablesOK

LEMMA QueueType ==
  ASSUME NEW q \in Request, q.queue # <<>>
  PROVE  Head(q.queue) \in Ranks /\ Tail(q.queue) \in Seq(Ranks)
<1>1. q.queue \in Seq(Ranks)  BY DEF Request
<1>2. QED  BY <1>1, HeadTailProperties

------------------------------------------------------------------------------
(* checkPermissions, regeneration, normalisation. *)

LEMMA DecideType ==
  ASSUME TypeOK, NEW j \in Jobs, NEW have \in SUBSET AllPermissions, Decide(j, have)
  PROVE  /\ job' \in [Jobs -> Request]
         /\ perms' \in [Jobs -> SUBSET AllPermissions]
<1>1. job[j] \in Request  BY JobType
<1>2. (IF Allows(have, job[j].need) THEN job[j].next ELSE "done") \in Points
  BY <1>1 DEF Request, Points
<1>3. job' \in [Jobs -> Request]  BY <1>2, GotoType DEF Decide
<1>4. perms' \in [Jobs -> SUBSET AllPermissions]  BY DEF Decide, TypeOK, EntriesOK
<1>5. QED  BY <1>3, <1>4

LEMMA CheckHitType ==
  ASSUME TypeOK, NEW j \in Jobs, CheckHit(j)
  PROVE  TypeOK'
<1>1. job[j] \in Request  BY JobType
<1>2. cache[job[j].by] \in SUBSET AllPermissions
  BY <1>1 DEF CheckHit, TypeOK, EntriesOK, Request
<1>3. job' \in [Jobs -> Request] /\ perms' \in [Jobs -> SUBSET AllPermissions]
  BY <1>2, DecideType DEF CheckHit
<1>4. QED  BY <1>3 DEF CheckHit, TypeOK, TablesOK, EntriesOK, HistoryOK, tables, history

LEMMA CheckReadType ==
  ASSUME TypeOK, NEW j \in Jobs, CheckRead(j)
  PROVE  TypeOK'
<1>1. job[j] \in Request  BY JobType
<1>2. Effective(job[j].by) \in SUBSET AllPermissions
  BY <1>1, EffectiveType DEF Request, TypeOK
<1>3. job' \in [Jobs -> Request]
  BY DecideType, GotoType DEF CheckRead, Points
<1>4. perms' \in [Jobs -> SUBSET AllPermissions]
  BY <1>2, DecideType DEF CheckRead, TypeOK, EntriesOK
<1>5. QED
  BY <1>3, <1>4 DEF CheckRead, TypeOK, TablesOK, EntriesOK, HistoryOK, tables, history

LEMMA CheckWriteType ==
  ASSUME TypeOK, NEW j \in Jobs, CheckWrite(j)
  PROVE  TypeOK'
<1>1. perms[j] \in SUBSET AllPermissions  BY DEF TypeOK, EntriesOK
<1>2. job' \in [Jobs -> Request] /\ perms' \in [Jobs -> SUBSET AllPermissions]
  BY <1>1, DecideType DEF CheckWrite
<1>3. cache' \in [Assocs -> {NoEntry} \cup SUBSET AllPermissions]
  BY <1>1 DEF CheckWrite, TypeOK, EntriesOK
<1>4. QED
  BY <1>2, <1>3 DEF CheckWrite, TypeOK, TablesOK, EntriesOK, HistoryOK, tables, history

\* A step that changes one fill, and possibly the entry it is for.
LEMMA FillType ==
  ASSUME TypeOK, NEW j \in Jobs, NEW a \in Assocs,
         FillRead(j, a) \/ FillHit(j, a) \/ FillWrite(j, a)
  PROVE  TypeOK'
<1>1. fill \in [Jobs -> [Assocs -> FillValues]]  BY DEF TypeOK, EntriesOK, FillValues
<1>2. fill' \in [Jobs -> [Assocs -> FillValues]]
  <2>1. NoFill \in FillValues /\ Effective(a) \in FillValues
    BY EffectiveType DEF FillValues, TypeOK
  <2>2. (IF a \in live THEN Effective(a) ELSE NoFill) \in FillValues  BY <2>1
  <2>3. CASE FillRead(j, a)   BY <1>1, <2>2, <2>3 DEF FillRead
  <2>4. CASE FillHit(j, a)    BY <1>1, <2>1, <2>4 DEF FillHit
  <2>5. CASE FillWrite(j, a)  BY <1>1, <2>1, <2>5 DEF FillWrite
  <2>6. QED  BY <2>3, <2>4, <2>5
<1>3. cache' \in [Assocs -> {NoEntry} \cup SUBSET AllPermissions]
  <2>1. CASE FillWrite(j, a)
    <3>1. fill[j][a] \in SUBSET AllPermissions
      BY <1>1, <2>1 DEF FillWrite, Unfilled, FillValues
    <3>2. QED  BY <2>1, <3>1 DEF FillWrite, TypeOK, EntriesOK
  <2>2. CASE ~FillWrite(j, a)  BY <2>2 DEF FillRead, FillHit, TypeOK, EntriesOK
  <2>3. QED  BY <2>1, <2>2
<1>4. QED
  BY <1>2, <1>3
  DEF FillRead, FillHit, FillWrite, TypeOK, TablesOK, EntriesOK, HistoryOK, FillValues,
      tables, history

LEMMA NormReadType ==
  ASSUME TypeOK, NEW j \in Jobs, NormRead(j)
  PROVE  TypeOK'
<1>1. job[j] \in Request  BY JobType
<1>2. \A s \in Listings : s \in Seq(Ranks)  BY RankListType DEF Listings
<1>3. \A s \in Listings :
        [job[j] EXCEPT !.norm = "write", !.queue = s, !.pos = 0, !.loaded = index] \in Request
  BY <1>1, <1>2 DEF TypeOK, TablesOK, Request
<1>4. job' \in [Jobs -> Request]  BY <1>3, PutType DEF NormRead
<1>5. QED  BY <1>4, JobOnly DEF NormRead

LEMMA NormWriteType ==
  ASSUME TypeOK, NEW j \in Jobs, NormWrite(j)
  PROVE  TypeOK'
<1>1. job[j] \in Request  BY JobType
<1>2. Head(job[j].queue) \in Ranks /\ Tail(job[j].queue) \in Seq(Ranks)
  BY <1>1, QueueType DEF NormWrite
<1>3. job[j].pos \in Nat
  BY <1>1, <1>2 DEF Request
<1>4. job[j].pos + 1 \in Nat
  BY <1>1, <1>2, <1>3
<1>5. [job[j] EXCEPT !.queue = Tail(@), !.pos = @ + 1] \in Request
  BY <1>1, <1>2, <1>3, <1>4 DEF TypeOK, TablesOK, Request, Points
<1>6. job' \in [Jobs -> Request]
  BY <1>1, <1>2, <1>3, <1>4, <1>5, PutType, GotoType DEF NormWrite, Points
<1>7. index' \in [Ranks -> Int]
  BY <1>1, <1>2, <1>3, <1>4, <1>5 DEF NormWrite, TypeOK, TablesOK
<1>8. TablesOK'
  BY <1>7 DEF NormWrite, TypeOK, TablesOK
<1>9. EntriesOK'
  BY <1>1, <1>2, <1>3, <1>4, <1>5 DEF NormWrite, TypeOK, EntriesOK
<1>10. HistoryOK'
  BY WroteType DEF NormWrite, TypeOK
<1>11. QED  BY <1>6, <1>8, <1>9, <1>10 DEF TypeOK

LEMMA NormUsersType ==
  ASSUME TypeOK, NEW j \in Jobs, NormUsers(j)
  PROVE  TypeOK'
<1>0. job[j] \in Request  BY JobType
<1>1. [job[j] EXCEPT !.norm = "users"] \in Request  BY <1>0 DEF Request
<1>2. job' \in [Jobs -> Request]  BY <1>1, PutType DEF NormUsers
<1>3. fill' \in [Jobs -> [Assocs -> FillValues]]
  BY OweAllType DEF NormUsers, TypeOK, EntriesOK, FillValues
<1>4. QED
  BY <1>2, <1>3
  DEF NormUsers, TypeOK, TablesOK, EntriesOK, HistoryOK, FillValues, tables, history

LEMMA NoRequestType == NoRequest \in Request
BY RankAssumption, AssocAssumption
DEF NoRequest, Request, Operations, Points, AllPermissions, Permissions, MemberPermissions

\* The end of a request, whether it has finished or its worker has died.
LEMMA EndType ==
  ASSUME TypeOK, NEW j \in Jobs, Finish(j) \/ Crash(j)
  PROVE  TypeOK'
<1>1. job' \in [Jobs -> Request]  BY NoRequestType, PutType DEF Finish, Crash
<1>2. perms' \in [Jobs -> SUBSET AllPermissions]  BY DEF Finish, Crash, TypeOK, EntriesOK
<1>3. fill' \in [Jobs -> [Assocs -> FillValues]]
  BY DEF Finish, Crash, TypeOK, EntriesOK, FillValues
<1>4. HistoryOK'  BY DEF Finish, Crash, Excuse, Excuses, TypeOK, HistoryOK, history
<1>5. QED
  BY <1>1, <1>2, <1>3, <1>4
  DEF Finish, Crash, TypeOK, TablesOK, EntriesOK, FillValues, tables

------------------------------------------------------------------------------
(* chatRank.resolver.ts, toggleUserRank and the invites. *)

LEMMA ToggleReadType ==
  ASSUME TypeOK, NEW j \in Jobs, ToggleRead(j)
  PROVE  TypeOK'
<1>1. job[j] \in Request  BY JobType
<1>2. rows[job[j].target][job[j].rank] \in Nat
  BY <1>1 DEF TypeOK, TablesOK, Request
<1>3. [job[j] EXCEPT !.pc = "write", !.seen = rows[job[j].target][job[j].rank]] \in Request
  BY <1>1, <1>2 DEF TypeOK, TablesOK, Request, Points
<1>4. job' \in [Jobs -> Request]
  BY <1>1, <1>2, <1>3, PutType, GotoType DEF ToggleRead, Points
<1>5. QED  BY <1>4, JobOnly DEF ToggleRead

LEMMA ToggleAddType ==
  ASSUME TypeOK, NEW j \in Jobs, ToggleAdd(j)
  PROVE  TypeOK'
<1>1. job[j] \in Request  BY JobType
<1>2. job[j].target \in Assocs /\ job[j].rank \in Ranks
  BY <1>1 DEF Request
<1>3. rows[job[j].target][job[j].rank] \in Nat
  BY <1>1, <1>2 DEF TypeOK, TablesOK
<1>4. rows[job[j].target][job[j].rank] + 1 \in Nat
  BY <1>1, <1>2, <1>3
<1>5. job' \in [Jobs -> Request]
  BY <1>1, <1>2, <1>3, <1>4, PutType, GotoType DEF ToggleAdd, Points
<1>6. rows' \in [Assocs -> [Ranks -> Nat]]
  <2>1. CASE job[j].target \in live /\ job[j].rank \in ranks
    <3>1. rows' = [rows EXCEPT ![job[j].target][job[j].rank] =
                     rows[job[j].target][job[j].rank] + 1]
      BY <2>1 DEF ToggleAdd
    <3>2. QED  BY <3>1, <1>2, <1>4, RowsType DEF TypeOK, TablesOK
  <2>2. CASE ~(job[j].target \in live /\ job[j].rank \in ranks)
    BY <2>2 DEF ToggleAdd, TypeOK, TablesOK
  <2>3. QED  BY <2>1, <2>2
<1>7. TablesOK'
  BY <1>6 DEF ToggleAdd, TypeOK, TablesOK
<1>8. EntriesOK'
  BY <1>1, <1>2, <1>3, <1>4, OweAllType DEF ToggleAdd, TypeOK, EntriesOK, FillValues
<1>9. HistoryOK'
  BY WroteType DEF ToggleAdd, TypeOK
<1>10. QED  BY <1>5, <1>7, <1>8, <1>9 DEF TypeOK

LEMMA ToggleTakeType ==
  ASSUME TypeOK, NEW j \in Jobs, ToggleTake(j)
  PROVE  TypeOK'
<1>1. job[j] \in Request  BY JobType
<1>2. job[j].target \in Assocs /\ job[j].rank \in Ranks
  BY <1>1 DEF Request
<1>3. rows[job[j].target][job[j].rank] \in Nat
  BY <1>1, <1>2 DEF TypeOK, TablesOK
<1>4. rows[job[j].target][job[j].rank] > 0 => rows[job[j].target][job[j].rank] - 1 \in Nat
  BY <1>1, <1>2, <1>3
<1>5. job' \in [Jobs -> Request]
  BY <1>1, <1>2, <1>3, <1>4, PutType, GotoType DEF ToggleTake, Points
<1>6. rows' \in [Assocs -> [Ranks -> Nat]]
  <2> DEFINE n == rows[job[j].target][job[j].rank]
  <2>1. \/ /\ n > 0
           /\ rows' = [rows EXCEPT ![job[j].target][job[j].rank] =
                         n - 1]
        \/ rows' = rows
    BY DEF ToggleTake
  <2>2. n > 0 => [rows EXCEPT ![job[j].target][job[j].rank] = n - 1]
                   \in [Assocs -> [Ranks -> Nat]]
    BY <1>2, <1>4, RowsType DEF TypeOK, TablesOK
  <2>3. rows \in [Assocs -> [Ranks -> Nat]]  BY DEF TypeOK, TablesOK
  <2>4. QED  BY <2>1, <2>2, <2>3
<1>7. TablesOK'
  BY <1>6 DEF ToggleTake, TypeOK, TablesOK
<1>8. EntriesOK'
  BY <1>1, <1>2, <1>3, <1>4, OweAllType DEF ToggleTake, TypeOK, EntriesOK, FillValues
<1>9. HistoryOK'
  BY WroteType DEF ToggleTake, TypeOK
<1>10. QED  BY <1>5, <1>7, <1>8, <1>9 DEF TypeOK

LEMMA UpdateReadType ==
  ASSUME TypeOK, NEW j \in Jobs, UpdateRead(j)
  PROVE  TypeOK'
<1>1. job[j] \in Request  BY JobType
<1>2. Holders(job[j].rank) \in SUBSET Assocs
  BY <1>1 DEF TypeOK, TablesOK, Holders
<1>3. [job[j] EXCEPT !.pc = "write", !.have = grants[job[j].rank], !.chatOwner = owner,
                       !.todo = Holders(job[j].rank)] \in Request
  BY <1>1, <1>2 DEF TypeOK, TablesOK, Request, Points
<1>4. job' \in [Jobs -> Request]
  BY <1>1, <1>2, <1>3, PutType, GotoType DEF UpdateRead, Points
<1>5. QED  BY <1>4, JobOnly DEF UpdateRead

LEMMA UpdateAddType ==
  ASSUME TypeOK, NEW j \in Jobs, UpdateAdd(j)
  PROVE  TypeOK'
<1> DEFINE add   == job[j].map \ job[j].have
           given == IF job[j].rank \in ranks THEN add \cap Grantable(j) ELSE {}
<1>1. job[j] \in Request  BY JobType
<1>2. given \in SUBSET Permissions  BY <1>1 DEF Request
<1>3. job' \in [Jobs -> Request]  BY GotoType DEF UpdateAdd, Points
<1>4. grants' \in [Ranks -> SUBSET Permissions]
  BY <1>2 DEF UpdateAdd, TypeOK, TablesOK
<1>5. granted' \subseteq Permissions
  BY <1>2 DEF UpdateAdd, TypeOK, HistoryOK
<1>6. excuses' \subseteq Excuses
  BY DEF UpdateAdd, Excuse, OverlapExcuse, Excuses, TypeOK, HistoryOK
<1>7. QED
  BY <1>3, <1>4, <1>5, <1>6 DEF UpdateAdd, TypeOK, TablesOK, EntriesOK, HistoryOK

LEMMA UpdateRemoveType ==
  ASSUME TypeOK, NEW j \in Jobs, UpdateRemove(j)
  PROVE  TypeOK'
<1>1. job' \in [Jobs -> Request]  BY GotoType DEF UpdateRemove, Points
<1>2. grants' \in [Ranks -> SUBSET Permissions]  BY DEF UpdateRemove, TypeOK, TablesOK
<1>3. fill' \in [Jobs -> [Assocs -> FillValues]]
  BY OweAllType DEF UpdateRemove, TypeOK, EntriesOK, FillValues
<1>4. excuses' \subseteq Excuses
  BY DEF UpdateRemove, Excuse, OverlapExcuse, Excuses, TypeOK, HistoryOK
<1>5. QED
  BY <1>1, <1>2, <1>3, <1>4
  DEF UpdateRemove, TypeOK, TablesOK, EntriesOK, HistoryOK, FillValues

LEMMA CreateRankType ==
  ASSUME TypeOK, NEW j \in Jobs, CreateRank(j)
  PROVE  TypeOK'
<1>1. job[j] \in Request  BY JobType
<1>2. job[j].fresh \in Ranks
  BY <1>1 DEF Request
<1>3. job' \in [Jobs -> Request]
  BY <1>1, <1>2, PutType, GotoType DEF CreateRank, Points
<1>4. ranks' \subseteq Ranks
  BY <1>1, <1>2 DEF CreateRank, TypeOK, TablesOK
<1>5. index' \in [Ranks -> Int]
  BY <1>1, <1>2 DEF CreateRank, TypeOK, TablesOK
<1>6. TablesOK'
  BY <1>4, <1>5 DEF CreateRank, TypeOK, TablesOK
<1>7. EntriesOK'
  BY <1>1, <1>2 DEF CreateRank, TypeOK, EntriesOK
<1>8. HistoryOK'
  BY WroteType DEF CreateRank, TypeOK, HistoryOK, history
<1>9. QED  BY <1>3, <1>6, <1>7, <1>8 DEF TypeOK

LEMMA CreateGrantsType ==
  ASSUME TypeOK, NEW j \in Jobs, CreateGrants(j)
  PROVE  TypeOK'
<1>1. job[j] \in Request  BY JobType
<1>2. job[j].fresh \in Ranks
  BY <1>1 DEF Request
<1>3. [job[j] EXCEPT !.pc = "done", !.norm = "read"] \in Request
  BY <1>1, <1>2 DEF TypeOK, TablesOK, Request, Points
<1>4. job' \in [Jobs -> Request]
  BY <1>1, <1>2, <1>3, PutType, GotoType DEF CreateGrants, Points
<1>5. grants' \in [Ranks -> SUBSET Permissions]
  BY <1>1, <1>2, <1>3 DEF CreateGrants, TypeOK, TablesOK, Permissions, MemberPermissions
<1>6. TablesOK'
  BY <1>5 DEF CreateGrants, TypeOK, TablesOK
<1>7. EntriesOK'
  BY <1>1, <1>2, <1>3 DEF CreateGrants, TypeOK, EntriesOK
<1>8. HistoryOK'
  BY WroteType DEF CreateGrants, TypeOK
<1>9. QED  BY <1>4, <1>6, <1>7, <1>8 DEF TypeOK

LEMMA OrderReadType ==
  ASSUME TypeOK, NEW j \in Jobs, OrderRead(j)
  PROVE  TypeOK'
<1>1. job[j] \in Request  BY JobType
<1>2. HighestIndex(job[j].by) \in Int  BY <1>1, HighestIndexType DEF Request
<1>3. \A s \in Enumerations : s \in Seq(Ranks)  BY RankListType DEF Enumerations
<1>4. \A s \in Enumerations :
        [job[j] EXCEPT !.pc = "write", !.queue = s, !.snap = index,
                       !.highest = HighestIndex(job[j].by), !.chatOwner = owner] \in Request
  <2>1. index \in [Ranks -> Int] /\ owner \in Users  BY DEF TypeOK, TablesOK
  <2>2. "write" \in Points  BY DEF Points
  <2>3. QED  BY <1>1, <1>2, <1>3, <2>1, <2>2 DEF Request
<1>5. job' \in [Jobs -> Request]  BY <1>4, PutType, GotoType DEF OrderRead, Points
<1>6. QED  BY <1>5, JobOnly DEF OrderRead

LEMMA PlaceInType ==
  ASSUME NEW order \in Seq(Ranks), NEW r
  PROVE  PlaceIn(order, r) \in Int
BY DEF PlaceIn

LEMMA OrderMoveType ==
  ASSUME TypeOK, NEW j \in Jobs, OrderMove(j)
  PROVE  TypeOK'
<1>1. job[j] \in Request  BY JobType
<1>2. Head(job[j].queue) \in Ranks /\ Tail(job[j].queue) \in Seq(Ranks)
  BY <1>1, QueueType DEF OrderMove
<1>3. PlaceIn(job[j].order, Head(job[j].queue)) \in Int
  BY <1>1, <1>2, PlaceInType DEF Request
<1>4. [job[j] EXCEPT !.queue = Tail(@)] \in Request
  BY <1>1, <1>2, <1>3 DEF TypeOK, TablesOK, Request, Points
<1>5. job' \in [Jobs -> Request]
  BY <1>1, <1>2, <1>3, <1>4, PutType, GotoType DEF OrderMove, Points
<1>6. TablesOK'
  BY <1>1, <1>2, <1>3, <1>4 DEF OrderMove, TypeOK, TablesOK, Request
<1>7. EntriesOK'
  BY <1>1, <1>2, <1>3, <1>4 DEF OrderMove, TypeOK, EntriesOK
<1>8. HistoryOK'
  BY WroteType DEF OrderMove, TypeOK
<1>9. QED  BY <1>5, <1>6, <1>7, <1>8 DEF TypeOK

LEMMA OrderEndType ==
  ASSUME TypeOK, NEW j \in Jobs, OrderEnd(j)
  PROVE  TypeOK'
<1>1. job[j] \in Request  BY JobType
<1>2. <<>> \in Seq(Ranks)
  BY <1>1
<1>3. [job[j] EXCEPT !.pc = "done", !.norm = "read", !.queue = <<>>] \in Request
  BY <1>1, <1>2 DEF TypeOK, TablesOK, Request, Points
<1>4. job' \in [Jobs -> Request]
  BY <1>1, <1>2, <1>3, PutType, GotoType DEF OrderEnd, Points
<1>5. QED  BY <1>4, JobOnly DEF OrderEnd

LEMMA RemoveReadType ==
  ASSUME TypeOK, NEW j \in Jobs, RemoveRead(j)
  PROVE  TypeOK'
<1>1. job[j] \in Request  BY JobType
<1>2. [job[j] EXCEPT !.pc = "write", !.todo = live] \in Request
  BY <1>1 DEF TypeOK, TablesOK, Request, Points
<1>3. job' \in [Jobs -> Request]
  BY <1>1, <1>2, PutType, GotoType DEF RemoveRead, Points
<1>4. QED  BY <1>3, JobOnly DEF RemoveRead

LEMMA RemoveWriteType ==
  ASSUME TypeOK, NEW j \in Jobs, RemoveWrite(j)
  PROVE  TypeOK'
<1>1. job[j] \in Request  BY JobType
<1>2. job[j].rank \in Ranks
  BY <1>1 DEF Request
<1>3. job' \in [Jobs -> Request]
  BY <1>1, <1>2, PutType, GotoType DEF RemoveWrite, Points
<1>4. rows' \in [Assocs -> [Ranks -> Nat]]
  BY <1>1, <1>2 DEF RemoveWrite, TypeOK, TablesOK
<1>5. grants' \in [Ranks -> SUBSET Permissions]
  BY <1>1, <1>2 DEF RemoveWrite, TypeOK, TablesOK
<1>6. TablesOK'
  BY <1>4, <1>5 DEF RemoveWrite, TypeOK, TablesOK
<1>7. EntriesOK'
  BY <1>1, <1>2, OweAllType DEF RemoveWrite, TypeOK, EntriesOK, FillValues
<1>8. HistoryOK'
  BY WroteType DEF RemoveWrite, TypeOK
<1>9. QED  BY <1>3, <1>6, <1>7, <1>8 DEF TypeOK

LEMMA InviteReadType ==
  ASSUME TypeOK, NEW j \in Jobs, InviteRead(j)
  PROVE  TypeOK'
<1>1. job[j] \in Request  BY JobType
<1>2. job' \in [Jobs -> Request]
  BY <1>1, PutType, GotoType DEF InviteRead, Points
<1>3. QED  BY <1>2, JobOnly DEF InviteRead

LEMMA InviteWriteType ==
  ASSUME TypeOK, NEW j \in Jobs, InviteWrite(j)
  PROVE  TypeOK'
<1>1. job[j] \in Request  BY JobType
<1>2. job' \in [Jobs -> Request]
  BY <1>1, PutType, GotoType DEF InviteWrite, Points
<1>3. TablesOK'
  BY <1>1 DEF InviteWrite, TypeOK, TablesOK, Request
<1>4. EntriesOK'
  BY <1>1 DEF InviteWrite, TypeOK, EntriesOK
<1>5. HistoryOK'
  BY WroteType DEF InviteWrite, TypeOK
<1>6. QED  BY <1>2, <1>3, <1>4, <1>5 DEF TypeOK

LEMMA UninviteReadType ==
  ASSUME TypeOK, NEW j \in Jobs, UninviteRead(j)
  PROVE  TypeOK'
<1>1. job[j] \in Request  BY JobType
<1>2. job' \in [Jobs -> Request]
  BY <1>1, PutType, GotoType DEF UninviteRead, Points
<1>3. QED  BY <1>2, JobOnly DEF UninviteRead

LEMMA UninviteWriteType ==
  ASSUME TypeOK, NEW j \in Jobs, UninviteWrite(j)
  PROVE  TypeOK'
<1>1. job[j] \in Request  BY JobType
<1>2. job' \in [Jobs -> Request]
  BY <1>1, PutType, GotoType DEF UninviteWrite, Points
<1>3. TablesOK'
  BY <1>1 DEF UninviteWrite, TypeOK, TablesOK, Request
<1>4. EntriesOK'
  BY <1>1 DEF UninviteWrite, TypeOK, EntriesOK
<1>5. HistoryOK'
  BY WroteType DEF UninviteWrite, TypeOK
<1>6. QED  BY <1>2, <1>3, <1>4, <1>5 DEF TypeOK

------------------------------------------------------------------------------
(* Associations, ownership, deletion. *)

LEMMA AddReadType ==
  ASSUME TypeOK, NEW j \in Jobs, AddRead(j)
  PROVE  TypeOK'
<1>1. job[j] \in Request  BY JobType
<1>2. job' \in [Jobs -> Request]
  BY <1>1, PutType, GotoType DEF AddRead, Points
<1>3. QED  BY <1>2, JobOnly DEF AddRead

LEMMA JoinReadType ==
  ASSUME TypeOK, NEW j \in Jobs, JoinRead(j)
  PROVE  TypeOK'
<1>1. job[j] \in Request  BY JobType
<1>2. \A r \in ranks : [job[j] EXCEPT !.pc = "seat", !.rank = r] \in Request
  BY <1>1 DEF TypeOK, TablesOK, Request, Points
<1>3. job' \in [Jobs -> Request]  BY <1>2, PutType, GotoType DEF JoinRead, Points
<1>4. QED  BY <1>3, JobOnly DEF JoinRead

LEMMA BotReadType ==
  ASSUME TypeOK, NEW j \in Jobs, BotRead(j)
  PROVE  TypeOK'
<1>1. job[j] \in Request  BY JobType
<1>2. job' \in [Jobs -> Request]
  BY <1>1, PutType, GotoType DEF BotRead, Points
<1>3. QED  BY <1>2, JobOnly DEF BotRead

LEMMA SeatType ==
  ASSUME TypeOK, NEW j \in Jobs, Seat(j)
  PROVE  TypeOK'
<1>1. job[j] \in Request  BY JobType
<1>2. PICK a \in job[j].todo :
        IF Unseated(UserOf[a])
        THEN /\ live' = live \cup {a}
             /\ Put(j, [job[j] EXCEPT !.pc = "row", !.todo = @ \ {a}, !.target = a])
        ELSE /\ UNCHANGED live
             /\ Goto(j, "done")
  BY DEF Seat
<1>3. a \in Assocs /\ job[j].todo \ {a} \in SUBSET Assocs  BY <1>1 DEF Request
<1>4. [job[j] EXCEPT !.pc = "row", !.todo = @ \ {a}, !.target = a] \in Request
  BY <1>1, <1>3 DEF Request, Points
<1>5. job' \in [Jobs -> Request]  BY <1>2, <1>4, PutType, GotoType DEF Points
<1>6. live' \subseteq Assocs  BY <1>2, <1>3 DEF TypeOK, TablesOK
<1>7. HistoryOK'  BY WroteType DEF Seat, TypeOK
<1>8. QED  BY <1>5, <1>6, <1>7 DEF Seat, TypeOK, TablesOK, EntriesOK

LEMMA LateType ==
  ASSUME NEW j \in Jobs, NEW a
  PROVE  Late(j, a) \in SUBSET Excuses
BY DEF Late, Excuses

LEMMA SeatRowType ==
  ASSUME TypeOK, NEW j \in Jobs, SeatRow(j)
  PROVE  TypeOK'
<1>1. job[j] \in Request  BY JobType
<1>2. job[j].target \in Assocs /\ job[j].rank \in Ranks
  BY <1>1 DEF Request
<1>3. rows[job[j].target][job[j].rank] \in Nat
  BY <1>1, <1>2 DEF TypeOK, TablesOK
<1>4. rows[job[j].target][job[j].rank] + 1 \in Nat
  BY <1>1, <1>2, <1>3
<1>5. job[j].target \in Assocs /\ (IF job[j].op = "join" THEN job[j].target ELSE job[j].by) \in Assocs
  BY <1>1, <1>2, <1>3, <1>4 DEF Request
<1>6. job' \in [Jobs -> Request]
  BY <1>1, <1>2, <1>3, <1>4, <1>5, PutType, GotoType DEF SeatRow, Points
<1>7. rows' \in [Assocs -> [Ranks -> Nat]]
  <2>1. CASE job[j].target \in live /\ job[j].rank \in ranks
    <3>1. rows' = [rows EXCEPT ![job[j].target][job[j].rank] =
                     rows[job[j].target][job[j].rank] + 1]
      BY <2>1 DEF SeatRow
    <3>2. QED  BY <3>1, <1>2, <1>4, RowsType DEF TypeOK, TablesOK
  <2>2. CASE ~(job[j].target \in live /\ job[j].rank \in ranks)
    BY <2>2 DEF SeatRow, TypeOK, TablesOK
  <2>3. QED  BY <2>1, <2>2
<1>8. TablesOK'
  BY <1>7 DEF SeatRow, TypeOK, TablesOK
<1>9. EntriesOK'
  BY <1>1, <1>2, <1>3, <1>4, <1>5, SendsType DEF SeatRow, TypeOK, EntriesOK, FillValues
<1>10. HistoryOK'
  BY LateType, ExcuseType DEF SeatRow, TypeOK
<1>11. QED  BY <1>6, <1>8, <1>9, <1>10 DEF TypeOK

LEMMA BotRankType ==
  ASSUME TypeOK, NEW j \in Jobs, BotRank(j)
  PROVE  TypeOK'
<1>1. job[j] \in Request  BY JobType
<1>2. job[j].fresh \in Ranks
  BY <1>1 DEF Request
<1>3. [job[j] EXCEPT !.pc = "botrow", !.norm = "read"] \in Request
  BY <1>1, <1>2 DEF TypeOK, TablesOK, Request, Points
<1>4. job' \in [Jobs -> Request]
  BY <1>1, <1>2, <1>3, PutType, GotoType DEF BotRank, Points
<1>5. ranks' \subseteq Ranks
  BY <1>1, <1>2, <1>3 DEF BotRank, TypeOK, TablesOK
<1>6. index' \in [Ranks -> Int]
  BY <1>1, <1>2, <1>3 DEF BotRank, TypeOK, TablesOK
<1>7. TablesOK'
  BY <1>5, <1>6 DEF BotRank, TypeOK, TablesOK
<1>8. EntriesOK'
  BY <1>1, <1>2, <1>3 DEF BotRank, TypeOK, EntriesOK
<1>9. HistoryOK'
  BY WroteType DEF BotRank, TypeOK
<1>10. QED  BY <1>4, <1>7, <1>8, <1>9 DEF TypeOK

LEMMA BotRowType ==
  ASSUME TypeOK, NEW j \in Jobs, BotRow(j)
  PROVE  TypeOK'
<1>1. job[j] \in Request  BY JobType
<1>2. job[j].target \in Assocs /\ job[j].fresh \in Ranks
  BY <1>1 DEF Request
<1>3. rows[job[j].target][job[j].fresh] \in Nat
  BY <1>1, <1>2 DEF TypeOK, TablesOK
<1>4. rows[job[j].target][job[j].fresh] + 1 \in Nat
  BY <1>1, <1>2, <1>3
<1>5. job' \in [Jobs -> Request]
  BY <1>1, <1>2, <1>3, <1>4, PutType, GotoType DEF BotRow, Points
<1>6. rows' \in [Assocs -> [Ranks -> Nat]]
  <2>1. CASE job[j].target \in live /\ job[j].fresh \in ranks
    <3>1. rows' = [rows EXCEPT ![job[j].target][job[j].fresh] =
                     rows[job[j].target][job[j].fresh] + 1]
      BY <2>1 DEF BotRow
    <3>2. QED  BY <3>1, <1>2, <1>4, RowsType DEF TypeOK, TablesOK
  <2>2. CASE ~(job[j].target \in live /\ job[j].fresh \in ranks)
    BY <2>2 DEF BotRow, TypeOK, TablesOK
  <2>3. QED  BY <2>1, <2>2
<1>7. TablesOK'
  BY <1>6 DEF BotRow, TypeOK, TablesOK
<1>8. EntriesOK'
  BY <1>1, <1>2, <1>3, <1>4 DEF BotRow, TypeOK, EntriesOK
<1>9. HistoryOK'
  BY WroteType DEF BotRow, TypeOK
<1>10. QED  BY <1>5, <1>7, <1>8, <1>9 DEF TypeOK

LEMMA BotGrantsType ==
  ASSUME TypeOK, NEW j \in Jobs, BotGrants(j)
  PROVE  TypeOK'
<1>1. job[j] \in Request  BY JobType
<1>2. job[j].map \cap perms[j] \in SUBSET Permissions
  BY <1>1 DEF Request
<1>3. job' \in [Jobs -> Request]
  BY <1>1, <1>2, PutType, GotoType DEF BotGrants, Points
<1>4. TablesOK'
  BY <1>1, <1>2 DEF BotGrants, TypeOK, TablesOK, Request
<1>5. EntriesOK'
  BY <1>1, <1>2 DEF BotGrants, TypeOK, EntriesOK
<1>6. HistoryOK'
  BY LateType, ExcuseType DEF BotGrants, TypeOK, Excuses
<1>7. QED  BY <1>3, <1>4, <1>5, <1>6 DEF TypeOK

LEMMA KickReadType ==
  ASSUME TypeOK, NEW j \in Jobs, KickRead(j)
  PROVE  TypeOK'
<1>1. job[j] \in Request  BY JobType
<1>2. Removable(j) \in SUBSET Assocs
  BY <1>1 DEF TypeOK, TablesOK, Removable
<1>3. [job[j] EXCEPT !.pc = "purge", !.todo = Removable(j), !.folk = Removable(j)] \in Request
  BY <1>1, <1>2 DEF TypeOK, TablesOK, Request, Points
<1>4. job' \in [Jobs -> Request]
  BY <1>1, <1>2, <1>3, PutType, GotoType DEF KickRead, Points
<1>5. QED  BY <1>4, JobOnly DEF KickRead

LEMMA LeaveReadType ==
  ASSUME TypeOK, NEW j \in Jobs, LeaveRead(j)
  PROVE  TypeOK'
<1>1. job[j] \in Request  BY JobType
<1>2. [job[j] EXCEPT !.pc = "purge", !.todo = {job[j].by}, !.folk = {job[j].by}] \in Request
  <2>1. "purge" \in Points  BY DEF Points
  <2>2. QED  BY <1>1, <2>1 DEF Request
<1>3. job' \in [Jobs -> Request]
  BY <1>1, <1>2, PutType, GotoType DEF LeaveRead, Points
<1>4. QED  BY <1>3, JobOnly DEF LeaveRead

LEMMA PurgeType ==
  ASSUME TypeOK, NEW j \in Jobs, Purge(j)
  PROVE  TypeOK'
<1>1. job[j] \in Request  BY JobType
<1>2. PICK a \in job[j].todo :
        /\ cache' = [cache EXCEPT ![a] = NoEntry]
        /\ Put(j, [job[j] EXCEPT !.pc = "authorize", !.target = a,
                                 !.need = "SEND_MESSAGES", !.next = "unread"])
  BY DEF Purge
<1>3. a \in Assocs  BY <1>1 DEF Request
<1>4. [job[j] EXCEPT !.pc = "authorize", !.target = a,
                     !.need = "SEND_MESSAGES", !.next = "unread"] \in Request
  <2>1. "SEND_MESSAGES" \in AllPermissions
    BY DEF AllPermissions, Permissions, MemberPermissions
  <2>2. QED  BY <1>1, <1>3, <2>1 DEF Request, Points
<1>5. job' \in [Jobs -> Request]  BY <1>2, <1>4, PutType
<1>6. cache' \in [Assocs -> {NoEntry} \cup SUBSET AllPermissions]
  BY <1>2 DEF TypeOK, EntriesOK
<1>7. QED
  BY <1>5, <1>6 DEF Purge, TypeOK, TablesOK, EntriesOK, HistoryOK, tables, history

LEMMA UnreadType ==
  ASSUME TypeOK, NEW j \in Jobs, Unread(j)
  PROVE  TypeOK'
<1>1. job[j] \in Request  BY JobType
<1>2. \A pc \in Points :
        [job[j] EXCEPT !.pc = pc, !.todo = job[j].todo \ {job[j].target}] \in Request
  BY <1>1 DEF Request
<1>3. job' \in [Jobs -> Request]  BY <1>2, PutType, GotoType DEF Unread, Points
<1>4. QED  BY <1>3, JobOnly DEF Unread

LEMMA UnseatType ==
  ASSUME TablesOK, NEW as, Unseat(as)
  PROVE  live' \subseteq Assocs /\ rows' \in [Assocs -> [Ranks -> Nat]]
BY DEF TablesOK, Unseat

LEMMA KickWriteType ==
  ASSUME TypeOK, NEW j \in Jobs, KickWrite(j)
  PROVE  TypeOK'
<1>1. job[j] \in Request  BY JobType
<1>2. live' \subseteq Assocs /\ rows' \in [Assocs -> [Ranks -> Nat]]
  BY <1>1, UnseatType DEF KickWrite, TypeOK
<1>3. job' \in [Jobs -> Request]
  BY <1>1, <1>2, PutType, GotoType DEF KickWrite, Points
<1>4. TablesOK'
  BY <1>1, <1>2 DEF KickWrite, TypeOK, TablesOK, Request
<1>5. EntriesOK'
  BY <1>1, <1>2 DEF KickWrite, TypeOK, EntriesOK
<1>6. HistoryOK'
  BY WroteType DEF KickWrite, TypeOK
<1>7. QED  BY <1>3, <1>4, <1>5, <1>6 DEF TypeOK

LEMMA TransferReadType ==
  ASSUME TypeOK, NEW j \in Jobs, TransferRead(j)
  PROVE  TypeOK'
<1>1. job[j] \in Request  BY JobType
<1>2. [job[j] EXCEPT !.pc = "write", !.chatOwner = owner] \in Request
  BY <1>1 DEF TypeOK, TablesOK, Request, Points
<1>3. job' \in [Jobs -> Request]
  BY <1>1, <1>2, PutType, GotoType DEF TransferRead, Points
<1>4. QED  BY <1>3, JobOnly DEF TransferRead

LEMMA TransferWriteType ==
  ASSUME TypeOK, NEW j \in Jobs, TransferWrite(j)
  PROVE  TypeOK'
<1>1. job[j] \in Request  BY JobType
<1>2. owner' \in Users
  BY <1>1, AssocAssumption DEF TransferWrite, TypeOK, TablesOK, Request
<1>3. job' \in [Jobs -> Request]
  BY <1>1, <1>2, PutType, GotoType DEF TransferWrite, Points
<1>4. TablesOK'
  BY <1>1, <1>2 DEF TransferWrite, TypeOK, TablesOK, Request
<1>5. EntriesOK'
  BY <1>1, <1>2, OweAllType DEF TransferWrite, TypeOK, EntriesOK, FillValues
<1>6. HistoryOK'
  BY <1>2 DEF TransferWrite, TypeOK, HistoryOK, Excuse, OverlapExcuse, Excuses
<1>7. QED  BY <1>3, <1>4, <1>5, <1>6 DEF TypeOK

LEMMA TransferOtherType ==
  ASSUME TypeOK, NEW j \in Jobs, TransferOther(j)
  PROVE  TypeOK'
<1>1. job' \in [Jobs -> Request]  BY GotoType DEF TransferOther, Points
<1>2. fill' \in [Jobs -> [Assocs -> FillValues]]  BY OweAllType DEF TransferOther, TypeOK
<1>3. QED
  BY <1>1, <1>2
  DEF TransferOther, TypeOK, TablesOK, EntriesOK, HistoryOK, FillValues, tables, history

LEMMA DestroyReadType ==
  ASSUME TypeOK, NEW j \in Jobs, DestroyRead(j)
  PROVE  TypeOK'
<1>1. job[j] \in Request  BY JobType
<1>2. [job[j] EXCEPT !.pc = "disband", !.todo = live] \in Request
  BY <1>1 DEF TypeOK, TablesOK, Request, Points
<1>3. job' \in [Jobs -> Request]
  BY <1>1, <1>2, PutType, GotoType DEF DestroyRead, Points
<1>4. QED  BY <1>3, JobOnly DEF DestroyRead

LEMMA DisbandType ==
  ASSUME TypeOK, NEW j \in Jobs, Disband(j)
  PROVE  TypeOK'
<1>1. job[j] \in Request  BY JobType
<1>2. PICK a \in job[j].todo :
        /\ Unseat({a})
        /\ \/ Put(j, [job[j] EXCEPT !.todo = @ \ {a}]) /\ Excuse(OverlapExcuse(j))
           \/ Goto(j, "done") /\ Excuse(OverlapExcuse(j) \cup {"ruin"})
  BY DEF Disband
<1>3. [job[j] EXCEPT !.todo = @ \ {a}] \in Request  BY <1>1 DEF Request
<1>4. job' \in [Jobs -> Request]  BY <1>2, <1>3, PutType, GotoType DEF Points
<1>5. live' \subseteq Assocs /\ rows' \in [Assocs -> [Ranks -> Nat]]
  BY <1>2, UnseatType DEF TypeOK
<1>6. excuses' \subseteq Excuses
  BY <1>2 DEF Excuse, OverlapExcuse, Excuses, TypeOK, HistoryOK
<1>7. QED  BY <1>4, <1>5, <1>6 DEF Disband, TypeOK, TablesOK, EntriesOK, HistoryOK

LEMMA DestroyWriteType ==
  ASSUME TypeOK, NEW j \in Jobs, DestroyWrite(j)
  PROVE  TypeOK'
<1>1. job[j] \in Request  BY JobType
<1>2. job' \in [Jobs -> Request]
  BY <1>1, PutType, GotoType DEF DestroyWrite, Points
<1>3. rows' \in [Assocs -> [Ranks -> Nat]]
  BY <1>1 DEF DestroyWrite, TypeOK, TablesOK
<1>4. grants' \in [Ranks -> SUBSET Permissions]
  BY <1>1 DEF DestroyWrite, TypeOK, TablesOK
<1>5. TablesOK'
  BY <1>3, <1>4 DEF DestroyWrite, TypeOK, TablesOK
<1>6. EntriesOK'
  BY <1>1 DEF DestroyWrite, TypeOK, EntriesOK
<1>7. HistoryOK'
  BY DEF DestroyWrite, TypeOK, HistoryOK, Excuse, OverlapExcuse, Excuses
<1>8. QED  BY <1>2, <1>5, <1>6, <1>7 DEF TypeOK

------------------------------------------------------------------------------
(* Arrivals. *)

\* A request is admitted into a free slot; at most ids are handed out with it.
LEMMA AdmitType ==
  ASSUME TypeOK, NEW j \in Jobs, NEW q \in Request, Admit(j, q),
         born' \subseteq Assocs, drawn' \subseteq Ranks,
         UNCHANGED <<alive, owner, live, ranks, index, grants, rows, invites>>
  PROVE  TypeOK'
<1>1. Overlap(j) \in BOOLEAN  BY DEF Overlap
<1>2. [q EXCEPT !.clash = Overlap(j)] \in Request  BY <1>1 DEF Request
<1>3. job' \in [Jobs -> Request]  BY <1>2, PutType DEF Admit
<1>4. QED  BY <1>3 DEF Admit, TypeOK, TablesOK, EntriesOK, HistoryOK, history

LEMMA AskType ==
  ASSUME NEW op \in Operations, NEW by \in Assocs, NEW need \in AllPermissions
  PROVE  Ask(op, by, need) \in Request
BY NoRequestType DEF Ask, Request, Points

LEMMA CallToggleType ==
  ASSUME TypeOK, NEW j \in Jobs, NEW by \in Assocs, NEW target \in Assocs, NEW rank \in Ranks,
         CallToggle(j, by, target, rank)
  PROVE  TypeOK'
<1>1. Ask("toggle", by, "MANAGE_RANKS") \in Request
  BY AskType DEF Operations, AllPermissions, Permissions, MemberPermissions
<1>2. [Ask("toggle", by, "MANAGE_RANKS") EXCEPT !.target = target, !.rank = rank] \in Request
  BY <1>1 DEF Request, Points
<1>3. QED  BY <1>1, <1>2, AdmitType DEF CallToggle, tables, TypeOK, TablesOK

LEMMA CallUpdateType ==
  ASSUME TypeOK, NEW j \in Jobs, NEW by \in Assocs, NEW rank \in Ranks, NEW map \in SUBSET Permissions,
         CallUpdate(j, by, rank, map)
  PROVE  TypeOK'
<1>1. Ask("update", by, "MANAGE_RANKS") \in Request
  BY AskType DEF Operations, AllPermissions, Permissions, MemberPermissions
<1>2. [Ask("update", by, "MANAGE_RANKS") EXCEPT !.rank = rank, !.map = map] \in Request
  BY <1>1 DEF Request, Points
<1>3. QED  BY <1>1, <1>2, AdmitType DEF CallUpdate, tables, TypeOK, TablesOK

LEMMA CallCreateType ==
  ASSUME TypeOK, NEW j \in Jobs, NEW by \in Assocs, NEW rank \in Ranks,
         CallCreate(j, by, rank)
  PROVE  TypeOK'
<1>1. Ask("create", by, "MANAGE_RANKS") \in Request
  BY AskType DEF Operations, AllPermissions, Permissions, MemberPermissions
<1>2. [Ask("create", by, "MANAGE_RANKS") EXCEPT !.fresh = rank] \in Request
  BY <1>1 DEF Request, Points
<1>3. born' \subseteq Assocs /\ drawn' \subseteq Ranks
  BY DEF CallCreate, TypeOK, TablesOK, tables
<1>4. QED  BY <1>1, <1>2, <1>3, AdmitType DEF CallCreate, tables

LEMMA CallOrderType ==
  ASSUME TypeOK, NEW j \in Jobs, NEW by \in Assocs, NEW order \in Seq(Ranks),
         CallOrder(j, by, order)
  PROVE  TypeOK'
<1>1. Ask("order", by, "MANAGE_RANKS") \in Request
  BY AskType DEF Operations, AllPermissions, Permissions, MemberPermissions
<1>2. [Ask("order", by, "MANAGE_RANKS") EXCEPT !.order = order] \in Request
  BY <1>1 DEF Request, Points
<1>3. QED  BY <1>1, <1>2, AdmitType DEF CallOrder, tables, TypeOK, TablesOK

LEMMA CallRemoveType ==
  ASSUME TypeOK, NEW j \in Jobs, NEW by \in Assocs, NEW rank \in Ranks,
         CallRemove(j, by, rank)
  PROVE  TypeOK'
<1>1. Ask("remove", by, "MANAGE_RANKS") \in Request
  BY AskType DEF Operations, AllPermissions, Permissions, MemberPermissions
<1>2. [Ask("remove", by, "MANAGE_RANKS") EXCEPT !.rank = rank] \in Request
  BY <1>1 DEF Request, Points
<1>3. QED  BY <1>1, <1>2, AdmitType DEF CallRemove, tables, TypeOK, TablesOK

LEMMA CallInviteType ==
  ASSUME TypeOK, NEW j \in Jobs, NEW by \in Assocs, NEW rank \in Ranks \cup {NoRank},
         CallInvite(j, by, rank)
  PROVE  TypeOK'
<1>1. Ask("invite", by, "INVITE_USERS") \in Request
  BY AskType DEF Operations, AllPermissions, Permissions, MemberPermissions
<1>2. [Ask("invite", by, "INVITE_USERS") EXCEPT !.invite = rank] \in Request
  BY <1>1 DEF Request, Points
<1>3. QED  BY <1>1, <1>2, AdmitType DEF CallInvite, tables, TypeOK, TablesOK

LEMMA CallUninviteType ==
  ASSUME TypeOK, NEW j \in Jobs, NEW by \in Assocs, NEW rank \in Ranks \cup {NoRank},
         CallUninvite(j, by, rank)
  PROVE  TypeOK'
<1>1. Ask("uninvite", by, "REMOVE_USERS") \in Request
  BY AskType DEF Operations, AllPermissions, Permissions, MemberPermissions
<1>2. [Ask("uninvite", by, "REMOVE_USERS") EXCEPT !.invite = rank] \in Request
  BY <1>1 DEF Request, Points
<1>3. QED  BY <1>1, <1>2, AdmitType DEF CallUninvite, tables, TypeOK, TablesOK

LEMMA CallAddType ==
  ASSUME TypeOK, NEW j \in Jobs, NEW by \in Assocs, NEW as \in SUBSET Assocs,
         CallAdd(j, by, as)
  PROVE  TypeOK'
<1>1. Ask("add", by, "ADD_USERS") \in Request
  BY AskType DEF Operations, AllPermissions, Permissions, MemberPermissions
<1>2. [Ask("add", by, "ADD_USERS") EXCEPT !.todo = as] \in Request
  BY <1>1 DEF Request, Points
<1>3. born' \subseteq Assocs /\ drawn' \subseteq Ranks
  BY DEF CallAdd, TypeOK, TablesOK, Reserve
<1>4. QED  BY <1>1, <1>2, <1>3, AdmitType DEF CallAdd, Reserve

LEMMA CallJoinType ==
  ASSUME TypeOK, NEW j \in Jobs, NEW a \in Assocs, NEW invite \in Ranks \cup {NoRank},
         CallJoin(j, a, invite)
  PROVE  TypeOK'
<1>1. [NoRequest EXCEPT !.op = "join", !.pc = "read", !.by = a,
                       !.todo = {a}, !.invite = invite] \in Request
  <2>1. "join" \in Operations /\ "read" \in Points  BY DEF Operations, Points
  <2>2. QED  BY <2>1, NoRequestType DEF Request
<1>3. born' \subseteq Assocs /\ drawn' \subseteq Ranks
  BY DEF CallJoin, TypeOK, TablesOK, Reserve
<1>4. QED  BY <1>1, <1>3, AdmitType DEF CallJoin, Reserve

LEMMA CallBotType ==
  ASSUME TypeOK, NEW j \in Jobs, NEW by \in Assocs, NEW a \in Assocs, NEW rank \in Ranks, NEW map \in SUBSET Permissions,
         CallBot(j, by, a, rank, map)
  PROVE  TypeOK'
<1>1. Ask("bot", by, "MANAGE_INTEGRATIONS") \in Request
  BY AskType DEF Operations, AllPermissions, Permissions, MemberPermissions
<1>2. [Ask("bot", by, "MANAGE_INTEGRATIONS") EXCEPT !.todo = {a}, !.fresh = rank, !.map = map] \in Request
  BY <1>1 DEF Request
<1>3. born' \subseteq Assocs /\ drawn' \subseteq Ranks
  BY DEF CallBot, TypeOK, TablesOK, tables
<1>4. QED  BY <1>1, <1>2, <1>3, AdmitType DEF CallBot, tables

LEMMA CallKickType ==
  ASSUME TypeOK, NEW j \in Jobs, NEW by \in Assocs, NEW us \in SUBSET Users,
         CallKick(j, by, us)
  PROVE  TypeOK'
<1>1. Ask("kick", by, "REMOVE_USERS") \in Request
  BY AskType DEF Operations, AllPermissions, Permissions, MemberPermissions
<1>2. [Ask("kick", by, "REMOVE_USERS") EXCEPT !.users = us] \in Request
  BY <1>1 DEF Request, Points
<1>3. QED  BY <1>1, <1>2, AdmitType DEF CallKick, tables, TypeOK, TablesOK

LEMMA CallLeaveType ==
  ASSUME TypeOK, NEW j \in Jobs, NEW by \in Assocs,
         CallLeave(j, by)
  PROVE  TypeOK'
<1>1. [NoRequest EXCEPT !.op = "leave", !.pc = "read", !.by = by] \in Request
  <2>1. "leave" \in Operations /\ "read" \in Points  BY DEF Operations, Points
  <2>2. QED  BY <2>1, NoRequestType DEF Request
<1>3. QED  BY <1>1, AdmitType DEF CallLeave, tables, TypeOK, TablesOK

LEMMA CallTransferType ==
  ASSUME TypeOK, NEW j \in Jobs, NEW by \in Assocs, NEW target \in Assocs,
         CallTransfer(j, by, target)
  PROVE  TypeOK'
<1>1. Ask("transfer", by, "OWNER") \in Request
  BY AskType DEF Operations, AllPermissions, Permissions, MemberPermissions
<1>2. [Ask("transfer", by, "OWNER") EXCEPT !.target = target] \in Request
  BY <1>1 DEF Request, Points
<1>3. QED  BY <1>1, <1>2, AdmitType DEF CallTransfer, tables, TypeOK, TablesOK

LEMMA CallDestroyType ==
  ASSUME TypeOK, NEW j \in Jobs, NEW by \in Assocs,
         CallDestroy(j, by)
  PROVE  TypeOK'
<1>1. Ask("destroy", by, "OWNER") \in Request
  BY AskType DEF Operations, AllPermissions, Permissions, MemberPermissions
<1>3. QED  BY <1>1, AdmitType DEF CallDestroy, tables, TypeOK, TablesOK

LEMMA CallCheckType ==
  ASSUME TypeOK, NEW j \in Jobs, NEW by \in Assocs, NEW need \in AllPermissions,
         CallCheck(j, by, need)
  PROVE  TypeOK'
<1>1. Ask("check", by, need) \in Request
  BY AskType DEF Operations, AllPermissions, Permissions, MemberPermissions
<1>2. [Ask("check", by, need) EXCEPT !.next = "done"] \in Request
  BY <1>1 DEF Request, Points
<1>3. QED  BY <1>1, <1>2, AdmitType DEF CallCheck, tables, TypeOK, TablesOK

LEMMA ArriveType ==
  ASSUME TypeOK, NEW j \in Jobs, Arrive(j)
  PROVE  TypeOK'
<1>1. /\ born \subseteq Assocs /\ drawn \subseteq Ranks
      /\ Maps \subseteq SUBSET Permissions /\ Orders \subseteq Seq(Ranks)
      /\ Checks \subseteq AllPermissions
  BY BoundAssumption DEF TypeOK, TablesOK
<1>2. CASE \E by, target \in born, rank \in drawn : CallToggle(j, by, target, rank)
  BY <1>1, <1>2, CallToggleType
<1>3. CASE \E by \in born, rank \in drawn, map \in Maps : CallUpdate(j, by, rank, map)
  BY <1>1, <1>3, CallUpdateType
<1>4. CASE \E by \in born, rank \in Ranks : CallCreate(j, by, rank)
  BY <1>1, <1>4, CallCreateType
<1>5. CASE \E by \in born, order \in Orders : CallOrder(j, by, order)
  BY <1>1, <1>5, CallOrderType
<1>6. CASE \E by \in born, rank \in drawn : CallRemove(j, by, rank)
  BY <1>1, <1>6, CallRemoveType
<1>7. CASE \E by \in born, rank \in drawn \cup {NoRank} :
             CallInvite(j, by, rank) \/ CallUninvite(j, by, rank)
  BY <1>1, <1>7, CallInviteType, CallUninviteType
<1>8. CASE \E by \in born, as \in SUBSET Assocs : CallAdd(j, by, as)
  BY <1>1, <1>8, CallAddType
<1>9. CASE \E a \in Assocs, rank \in drawn \cup {NoRank} : CallJoin(j, a, rank)
  BY <1>1, <1>9, CallJoinType
<1>10. CASE \E by \in born, a \in Assocs, rank \in Ranks, map \in Maps :
              CallBot(j, by, a, rank, map)
  BY <1>1, <1>10, CallBotType
<1>11. CASE \E by \in born, us \in SUBSET Users : CallKick(j, by, us)
  BY <1>1, <1>11, CallKickType
<1>12. CASE \E by \in born : CallLeave(j, by) \/ CallDestroy(j, by)
  BY <1>1, <1>12, CallLeaveType, CallDestroyType
<1>13. CASE \E by, target \in born : CallTransfer(j, by, target)
  BY <1>1, <1>13, CallTransferType
<1>14. CASE \E by \in born, need \in Checks : CallCheck(j, by, need)
  BY <1>1, <1>14, CallCheckType
<1>15. QED
  BY <1>2, <1>3, <1>4, <1>5, <1>6, <1>7, <1>8, <1>9, <1>10, <1>11, <1>12, <1>13, <1>14
  DEF Arrive

------------------------------------------------------------------------------
(* The theorem. *)

LEMMA InitialType == Initial => TypeOK
<1> SUFFICES ASSUME Initial PROVE TypeOK  OBVIOUS
<1>1. TablesOK
  BY RankAssumption, AssocAssumption
  DEF Initial, Init, TablesOK, Permissions, MemberPermissions
<1>2. \A a \in Assocs : Effective(a) \subseteq AllPermissions  BY <1>1, EffectiveType
<1>3. EntriesOK  BY <1>2 DEF Initial, Init, EntriesOK
<1>4. HistoryOK  BY <1>1 DEF Initial, Init, HistoryOK, TablesOK
<1>5. job \in [Jobs -> Request]  BY NoRequestType DEF Initial, Init
<1>6. QED  BY <1>1, <1>3, <1>4, <1>5 DEF TypeOK

LEMMA RunType ==
  ASSUME TypeOK, NEW j \in Jobs, Run(j)
  PROVE  TypeOK'
<1>1. CASE RankStep(j)
  BY <1>1, ToggleReadType, ToggleAddType, ToggleTakeType, UpdateReadType, UpdateAddType,
     UpdateRemoveType, CreateRankType, CreateGrantsType, OrderReadType, OrderMoveType,
     OrderEndType, RemoveReadType, RemoveWriteType, InviteReadType, InviteWriteType,
     UninviteReadType, UninviteWriteType
  DEF RankStep
<1>2. CASE MemberStep(j)
  BY <1>2, AddReadType, JoinReadType, BotReadType, SeatType, SeatRowType, BotRankType,
     BotRowType, BotGrantsType, KickReadType, LeaveReadType, PurgeType, UnreadType,
     KickWriteType, TransferReadType, TransferWriteType, TransferOtherType,
     DestroyReadType, DisbandType, DestroyWriteType
  DEF MemberStep
<1>3. CASE CacheStep(j)
  BY <1>3, CheckHitType, CheckReadType, CheckWriteType, FillType DEF CacheStep
<1>4. CASE NormStep(j)
  BY <1>4, NormReadType, NormWriteType, NormUsersType DEF NormStep
<1>5. CASE Finish(j)  BY <1>5, EndType
<1>6. QED  BY <1>1, <1>2, <1>3, <1>4, <1>5 DEF Run

LEMMA StutterType ==
  ASSUME TypeOK, UNCHANGED vars
  PROVE  TypeOK'
BY DEF vars, tables, history, TypeOK, TablesOK, EntriesOK, HistoryOK

\* Whatever requests arrive and however their steps interleave with each other and
\* with crashes, every table, Redis entry and request record keeps its type: a rank
\* row is never counted below zero and every regeneration writes a permission set.
THEOREM TypeCorrect == Spec => []TypeOK
<1>1. TypeOK /\ [Next]_vars => TypeOK'
  BY ArriveType, RunType, EndType, StutterType DEF Next
<1>2. QED  BY InitialType, <1>1, PTL DEF Spec


------------------------------------------------------------------------------
(* One association a user: only the insert of addUsersToChat and            *)
(* joinChatFromInvite adds one, and the unique identifier refuses a second  *)
(* one of a user, however stale the check was that came before.             *)

LEMMA RankStepSeats ==
  ASSUME NEW j \in Jobs, RankStep(j)
  PROVE  live' \subseteq live
<1>1. CASE ToggleRead(j)  BY <1>1 DEF ToggleRead, tables
<1>2. CASE ToggleAdd(j)  BY <1>2 DEF ToggleAdd, tables
<1>3. CASE ToggleTake(j)  BY <1>3 DEF ToggleTake, tables
<1>4. CASE UpdateRead(j)  BY <1>4 DEF UpdateRead, tables
<1>5. CASE UpdateAdd(j)  BY <1>5 DEF UpdateAdd, tables
<1>6. CASE UpdateRemove(j)  BY <1>6 DEF UpdateRemove, tables
<1>7. CASE CreateRank(j)  BY <1>7 DEF CreateRank, tables
<1>8. CASE CreateGrants(j)  BY <1>8 DEF CreateGrants, tables
<1>9. CASE OrderRead(j)  BY <1>9 DEF OrderRead, tables
<1>10. CASE OrderMove(j)  BY <1>10 DEF OrderMove, tables
<1>11. CASE OrderEnd(j)  BY <1>11 DEF OrderEnd, tables
<1>12. CASE RemoveRead(j)  BY <1>12 DEF RemoveRead, tables
<1>13. CASE RemoveWrite(j)  BY <1>13 DEF RemoveWrite, tables
<1>14. CASE InviteRead(j)  BY <1>14 DEF InviteRead, tables
<1>15. CASE InviteWrite(j)  BY <1>15 DEF InviteWrite, tables
<1>16. CASE UninviteRead(j)  BY <1>16 DEF UninviteRead, tables
<1>17. CASE UninviteWrite(j)  BY <1>17 DEF UninviteWrite, tables
<1>18. QED
  BY <1>1, <1>2, <1>3, <1>4, <1>5, <1>6, <1>7, <1>8, <1>9, <1>10, <1>11, <1>12,
     <1>13, <1>14, <1>15, <1>16, <1>17 DEF RankStep

\* Every membership step but the insert itself only takes associations away.
LEMMA MemberStepSeats ==
  ASSUME NEW j \in Jobs, MemberStep(j), ~Seat(j)
  PROVE  live' \subseteq live
<1>1. CASE AddRead(j)  BY <1>1 DEF AddRead, tables
<1>2. CASE JoinRead(j)  BY <1>2 DEF JoinRead, tables
<1>3. CASE BotRead(j)  BY <1>3 DEF BotRead, tables
<1>4. CASE SeatRow(j)  BY <1>4 DEF SeatRow, tables
<1>5. CASE BotRank(j)  BY <1>5 DEF BotRank, tables
<1>6. CASE BotRow(j)  BY <1>6 DEF BotRow, tables
<1>7. CASE BotGrants(j)  BY <1>7 DEF BotGrants, tables
<1>8. CASE KickRead(j)  BY <1>8 DEF KickRead, tables
<1>9. CASE LeaveRead(j)  BY <1>9 DEF LeaveRead, tables
<1>10. CASE Purge(j)  BY <1>10 DEF Purge, tables
<1>11. CASE Unread(j)  BY <1>11 DEF Unread, tables
<1>12. CASE KickWrite(j)  BY <1>12 DEF KickWrite, tables, Unseat
<1>13. CASE TransferRead(j)  BY <1>13 DEF TransferRead, tables
<1>14. CASE TransferWrite(j)  BY <1>14 DEF TransferWrite, tables
<1>15. CASE TransferOther(j)  BY <1>15 DEF TransferOther, tables
<1>16. CASE DestroyRead(j)  BY <1>16 DEF DestroyRead, tables
<1>17. CASE Disband(j)  BY <1>17 DEF Disband, tables, Unseat
<1>18. CASE DestroyWrite(j)  BY <1>18 DEF DestroyWrite, tables
<1>19. QED
  BY <1>1, <1>2, <1>3, <1>4, <1>5, <1>6, <1>7, <1>8, <1>9, <1>10, <1>11, <1>12,
     <1>13, <1>14, <1>15, <1>16, <1>17, <1>18 DEF MemberStep

LEMMA OtherStepSeats ==
  ASSUME NEW j \in Jobs, CacheStep(j) \/ NormStep(j) \/ Finish(j) \/ Crash(j)
  PROVE  live' \subseteq live
<1>1. CASE CacheStep(j)
  BY <1>1 DEF CacheStep, CheckHit, CheckRead, CheckWrite, FillRead, FillHit, FillWrite,
     tables
<1>2. CASE NormStep(j)  BY <1>2 DEF NormStep, NormRead, NormWrite, NormUsers, tables
<1>3. CASE Finish(j) \/ Crash(j)  BY <1>3 DEF Finish, Crash, tables
<1>4. QED  BY <1>1, <1>2, <1>3

LEMMA ArriveSeats ==
  ASSUME NEW j \in Jobs, Arrive(j)
  PROVE  live' = live
BY DEF Arrive, CallToggle, CallUpdate, CallCreate, CallOrder, CallRemove, CallInvite,
   CallUninvite, CallAdd, CallJoin, CallBot, CallKick, CallLeave, CallDestroy,
   CallTransfer, CallCheck, Reserve, tables

LEMMA FewerSeats ==
  ASSUME OneSeatPerUser, live' \subseteq live
  PROVE  OneSeatPerUser'
BY DEF OneSeatPerUser

LEMMA SeatSeats ==
  ASSUME OneSeatPerUser, NEW j \in Jobs, Seat(j)
  PROVE  OneSeatPerUser'
<1>1. \/ live' = live
      \/ \E a \in job[j].todo : Unseated(UserOf[a]) /\ live' = live \cup {a}
  BY DEF Seat
<1>2. CASE live' = live  BY <1>2 DEF OneSeatPerUser
<1>3. CASE \E a \in job[j].todo : Unseated(UserOf[a]) /\ live' = live \cup {a}
  BY <1>3 DEF OneSeatPerUser, Unseated
<1>4. QED  BY <1>1, <1>2, <1>3

\* Under every interleaving of additions, joins, bot installations and removals, and
\* under every crash, a user never has two associations with the group.
THEOREM OneSeat == Spec => []OneSeatPerUser
<1>1. Initial => OneSeatPerUser
  BY AssocAssumption DEF Initial, Init, OneSeatPerUser
<1>2. OneSeatPerUser /\ [Next]_vars => OneSeatPerUser'
  <2> SUFFICES ASSUME OneSeatPerUser, [Next]_vars PROVE OneSeatPerUser'
    OBVIOUS
  <2>1. ASSUME NEW j \in Jobs, Arrive(j) PROVE OneSeatPerUser'
    BY <2>1, ArriveSeats, FewerSeats
  <2>2. ASSUME NEW j \in Jobs, Run(j) PROVE OneSeatPerUser'
    <3>1. CASE Seat(j)  BY <3>1, SeatSeats
    <3>2. CASE ~Seat(j)
      BY <2>2, <3>2, RankStepSeats, MemberStepSeats, OtherStepSeats, FewerSeats DEF Run
    <3>3. QED  BY <3>1, <3>2
  <2>3. ASSUME NEW j \in Jobs, Crash(j) PROVE OneSeatPerUser'
    BY <2>3, OtherStepSeats, FewerSeats
  <2>4. CASE UNCHANGED vars  BY <2>4, FewerSeats DEF vars, tables
  <2>5. QED  BY <2>1, <2>2, <2>3, <2>4 DEF Next
<1>3. QED  BY <1>1, <1>2, PTL DEF Spec

------------------------------------------------------------------------------
(* One request at a time. *)

Authorizes == {"authorize", "miss", "done"}

\* The points of each operation.
PointsOf(op) ==
  CASE op = "none" -> {"done"}
    [] op = "check" -> Authorizes
    [] op \in {"toggle", "order", "remove", "invite", "uninvite"} ->
         Authorizes \cup {"read", "write"}
    [] op = "update" -> Authorizes \cup {"read", "write", "remove"}
    [] op = "create" -> Authorizes \cup {"read", "grant"}
    [] op = "add" -> Authorizes \cup {"read", "seat", "row"}
    [] op = "join" -> {"read", "seat", "row", "done"}
    [] op = "bot" -> Authorizes \cup {"read", "seat", "row", "rank", "botrow", "grants"}
    [] op \in {"kick", "leave"} -> Authorizes \cup {"read", "purge", "unread", "destroy"}
    [] op = "transfer" -> Authorizes \cup {"read", "write", "other"}
    [] OTHER -> Authorizes \cup {"read", "disband"}

\* What a request's record is like whatever the others do: an operation has only its
\* own points, a free slot is empty, a check regenerates nothing, only some
\* operations normalise, and an update or a transfer owes no entry before its last
\* writes.
Shape(k) ==
  LET q == job[k] IN
  /\ q.pc \in PointsOf(q.op)
  /\ q.op = "none" => q = NoRequest
  /\ q.op \in {"none", "check"} => \A a \in Assocs : fill[k][a] = NoFill
  /\ q.pc \in {"authorize", "miss"} =>
       q.next \in (CASE q.op = "check" -> {"done"}
                     [] q.op \in {"kick", "leave"} -> {"read", "unread"}
                     [] OTHER -> {"read"})
  /\ q.norm # "off" => \/ q.op \in {"create", "order"} /\ q.pc = "done"
                       \/ q.op = "bot" /\ q.pc \in {"botrow", "grants", "done"}
  /\ q.folk # {} => q.op \in {"kick", "leave"}
  /\ q.op \in {"update", "transfer"} /\ q.pc \notin {"other", "done"} =>
       \A a \in Assocs : fill[k][a] = NoFill
  /\ q.op = "transfer" => q.need = "OWNER"

Shapes == \A k \in Jobs : Shape(k)

\* OwnerIsMember speaks of the group at rest.  In between, whoever is about to be
\* removed is not the owner, whoever is about to become the owner is a member, and
\* the owner is missing only while deleteGroup takes the associations away.
Spares(k) ==
  /\ \A a \in job[k].folk : UserOf[a] # owner
  /\ At(k, "transfer", "write") => job[k].target \in live

OwnerSeated ==
  excuses \subseteq {"half", "late"} =>
    /\ \A k \in Jobs : Spares(k)
    /\ alive /\ (\A k \in Jobs : ~At(k, "destroy", "disband")) =>
         \E a \in live : UserOf[a] = owner

\* HierarchyIsStrict speaks of the group at rest.  In between, the indexes may be
\* disturbed as long as somebody will still normalise them, and what a normalisation
\* has placed so far lies below pos, each rank at a place of its own (Sorted).
Strict == \A r, s \in ranks : r # s => index[r] # index[s] /\ (r = Managed => index[r] < index[s])

Disturbs(k) ==
  \/ At(k, "create", "grant")
  \/ At(k, "order", "write")
  \/ job[k].norm \in {"read", "write"}

Waits(q) == {q.queue[i] : i \in DOMAIN q.queue}

Sorted(k) ==
  LET q == job[k] IN
  /\ Waits(q) \subseteq ranks
  /\ \A i, n \in DOMAIN q.queue : i < n => q.queue[i] # q.queue[n]
  /\ \A r \in Waits(q) : q.loaded[r] = index[r]
  /\ \A r \in ranks \ Waits(q) : 0 <= index[r] /\ index[r] < q.pos
  /\ \A r, s \in ranks \ Waits(q) : r # s => index[r] # index[s]
  /\ Managed \in ranks \ Waits(q) => index[Managed] = 0
  /\ Managed \in Waits(q) => q.pos = 0 /\ Head(q.queue) = Managed

Steady(k) ==
  LET q == job[k] IN
  /\ At(k, "create", "grant") => q.fresh \in ranks
  /\ q.norm = "write" => Sorted(k)
  /\ q.norm = "write" /\ q.clash => q.pos = 0
  /\ q.norm = "users" /\ q.clash => ranks = {}

Ranked ==
  excuses \subseteq {"half", "late", "ruin"} =>
    /\ \A k \in Jobs : Steady(k)
    /\ Strict \/ \E k \in Jobs : Disturbs(k)

\* OrderStaysBelow speaks of the end of a reordering.  In between, for its moves, its
\* wait and its normalisation: r was at or above the caller's highest rank, s below r.
Below(q, r, s) == q.snap[r] >= q.highest /\ q.snap[s] < q.snap[r]

\* Before the normalisation: no rank at or above the caller's highest has moved,
\* and no other has come to it.
Moved(k) ==
  LET q == job[k] IN
  \A r \in ranks : index[r] # q.snap[r] => index[r] < q.highest /\ q.snap[r] < q.highest

\* During it: what is below another has its place before it.
Placing(k) ==
  LET q == job[k] IN
  \A r, s \in ranks : Below(q, r, s) =>
    /\ r # Managed
    /\ s \notin Waits(q) /\ r \notin Waits(q) => index[s] < index[r]
    /\ s \in Waits(q) => r \in Waits(q)
    /\ \A i, n \in DOMAIN q.queue : q.queue[i] = s /\ q.queue[n] = r => i < n

Placed(k) ==
  \A r, s \in ranks : Below(job[k], r, s) => r # Managed /\ index[s] < index[r]

Ordered(k) ==
  LET q == job[k] IN
  q.op = "order" /\ ~q.clash =>
    /\ q.pc \in {"authorize", "miss", "read"} => Strict
    /\ q.pc = "write" => \A r \in ranks : r # Managed /\ Managed \in ranks => q.snap[Managed] < q.snap[r]
    /\ UserOf[q.by] # q.chatOwner =>
         /\ q.pc = "write" => Moved(k)
         /\ q.norm \in {"read", "users"} => Placed(k)
         /\ q.norm = "write" => Placing(k)

Reordered ==
  excuses \subseteq {"half", "late", "ruin"} => \A k \in Jobs : Ordered(k)

------------------------------------------------------------------------------
Busy(k) == job[k].op # "none" /\ (job[k].op = "check" => job[k].pc = "miss")

Alone(j) == ~job[j].clash /\ \A k \in Jobs \ {j} : ~Busy(k)

Still == UNCHANGED <<alive, owner, live, ranks, index, grants, rows>>

Frame(j) ==
  /\ \A k \in Jobs \ {j} : job'[k] = job[k] /\ perms'[k] = perms[k] /\ fill'[k] = fill[k]
  /\ excuses \subseteq excuses'
  /\ Still \/ Alone(j) \/ "overlap" \in excuses'

LEMMA PutFrame ==
  ASSUME TypeOK, NEW j \in Jobs, NEW q, Put(j, q)
  PROVE  job'[j] = q /\ \A k \in Jobs \ {j} : job'[k] = job[k]
BY DEF TypeOK, Put

LEMMA AloneExcuse ==
  ASSUME NEW j \in Jobs, NEW S, Excuse(OverlapExcuse(j) \cup S)
  PROVE  excuses \subseteq excuses' /\ (Alone(j) \/ "overlap" \in excuses')
BY DEF Excuse, OverlapExcuse, Overlap, Alone, Busy

LEMMA AloneBare ==
  ASSUME NEW j \in Jobs, Excuse(OverlapExcuse(j))
  PROVE  excuses \subseteq excuses' /\ (Alone(j) \/ "overlap" \in excuses')
BY DEF Excuse, OverlapExcuse, Overlap, Alone, Busy

LEMMA AloneWrote ==
  ASSUME NEW j \in Jobs, Wrote(j)
  PROVE  excuses \subseteq excuses' /\ (Alone(j) \/ "overlap" \in excuses')
BY DEF Wrote, Excuse, OverlapExcuse, Overlap, Alone, Busy

LEMMA RankFrame ==
  ASSUME TypeOK, NEW j \in Jobs, RankStep(j)
  PROVE  Frame(j)
<1> USE PutFrame, AloneExcuse, AloneBare, AloneWrote
    DEF Frame, Goto, Still, TypeOK, EntriesOK, tables, history
<1>1. CASE ToggleRead(j)  BY <1>1 DEF ToggleRead
<1>2. CASE ToggleAdd(j)  BY <1>2 DEF ToggleAdd, OweAll
<1>3. CASE ToggleTake(j)  BY <1>3 DEF ToggleTake, OweAll
<1>4. CASE UpdateRead(j)  BY <1>4 DEF UpdateRead
<1>5. CASE UpdateAdd(j)  BY <1>5 DEF UpdateAdd
<1>6. CASE UpdateRemove(j)  BY <1>6 DEF UpdateRemove, OweAll
<1>7. CASE CreateRank(j)  BY <1>7 DEF CreateRank
<1>8. CASE CreateGrants(j)  BY <1>8 DEF CreateGrants
<1>9. CASE OrderRead(j)  BY <1>9 DEF OrderRead
<1>10. CASE OrderMove(j)  BY <1>10 DEF OrderMove
<1>11. CASE OrderEnd(j)  BY <1>11 DEF OrderEnd
<1>12. CASE RemoveRead(j)  BY <1>12 DEF RemoveRead
<1>13. CASE RemoveWrite(j)  BY <1>13 DEF RemoveWrite, OweAll
<1>14. CASE InviteRead(j)  BY <1>14 DEF InviteRead
<1>15. CASE InviteWrite(j)  BY <1>15 DEF InviteWrite
<1>16. CASE UninviteRead(j)  BY <1>16 DEF UninviteRead
<1>17. CASE UninviteWrite(j)  BY <1>17 DEF UninviteWrite
<1>18. QED
  BY <1>1, <1>2, <1>3, <1>4, <1>5, <1>6, <1>7, <1>8, <1>9, <1>10, <1>11, <1>12, <1>13,
     <1>14, <1>15, <1>16, <1>17 DEF RankStep

LEMMA MemberFrame ==
  ASSUME TypeOK, NEW j \in Jobs, MemberStep(j)
  PROVE  Frame(j)
<1> USE PutFrame, AloneExcuse, AloneBare, AloneWrote
    DEF Frame, Goto, Still, TypeOK, EntriesOK, tables, history
<1>1. CASE AddRead(j)  BY <1>1 DEF AddRead
<1>2. CASE JoinRead(j)  BY <1>2 DEF JoinRead
<1>3. CASE BotRead(j)  BY <1>3 DEF BotRead
<1>4. CASE Seat(j)  BY <1>4 DEF Seat
<1>5. CASE SeatRow(j)  BY <1>5 DEF SeatRow, Sends
<1>6. CASE BotRank(j)  BY <1>6 DEF BotRank
<1>7. CASE BotRow(j)  BY <1>7 DEF BotRow
<1>8. CASE BotGrants(j)  BY <1>8 DEF BotGrants
<1>9. CASE KickRead(j)  BY <1>9 DEF KickRead
<1>10. CASE LeaveRead(j)  BY <1>10 DEF LeaveRead
<1>11. CASE Purge(j)  BY <1>11 DEF Purge
<1>12. CASE Unread(j)  BY <1>12 DEF Unread
<1>13. CASE KickWrite(j)  BY <1>13 DEF KickWrite, Unseat
<1>14. CASE TransferRead(j)  BY <1>14 DEF TransferRead
<1>15. CASE TransferWrite(j)  BY <1>15 DEF TransferWrite, OweAll
<1>16. CASE TransferOther(j)  BY <1>16 DEF TransferOther, OweAll
<1>17. CASE DestroyRead(j)  BY <1>17 DEF DestroyRead
<1>18. CASE Disband(j)  BY <1>18 DEF Disband, Unseat
<1>19. CASE DestroyWrite(j)  BY <1>19 DEF DestroyWrite
<1>20. QED
  BY <1>1, <1>2, <1>3, <1>4, <1>5, <1>6, <1>7, <1>8, <1>9, <1>10, <1>11, <1>12, <1>13,
     <1>14, <1>15, <1>16, <1>17, <1>18, <1>19 DEF MemberStep

------------------------------------------------------------------------------
(* What a step leaves of a request's record. *)

Kept(p, q) ==
  /\ p.op = q.op /\ p.by = q.by /\ p.clash = q.clash /\ p.fresh = q.fresh
  /\ p.map = q.map /\ p.invite = q.invite /\ p.order = q.order /\ p.users = q.users

SameAsk(p, q) == p.need = q.need /\ p.next = q.next

SameAim(p, q) == p.target = q.target /\ p.rank = q.rank /\ p.todo = q.todo /\ p.folk = q.folk

SameSight(p, q) ==
  /\ p.have = q.have /\ p.seen = q.seen /\ p.highest = q.highest /\ p.snap = q.snap
  /\ p.chatOwner = q.chatOwner

SameSort(p, q) ==
  p.norm = q.norm /\ p.queue = q.queue /\ p.pos = q.pos /\ p.loaded = q.loaded

Same(p, q) ==
  Kept(p, q) /\ SameAsk(p, q) /\ SameAim(p, q) /\ SameSight(p, q) /\ SameSort(p, q)

LEMMA GotoFields ==
  ASSUME TypeOK, NEW j \in Jobs, NEW pc, Goto(j, pc)
  PROVE  job'[j].pc = pc /\ Same(job'[j], job[j])
<1>1. job[j] \in Request  BY JobType
<1>2. job'[j] = [job[j] EXCEPT !.pc = pc]  BY PutFrame DEF Goto
<1>3. QED
  BY <1>1, <1>2 DEF Request, Same, Kept, SameAsk, SameAim, SameSight, SameSort

LEMMA ToggleReadFields ==
  ASSUME TypeOK, NEW j \in Jobs, ToggleRead(j)
  PROVE  LET p == job'[j]
             q == job[j]
         IN \/ p.pc = "done" /\ Same(p, q)
            \/ p.pc = "write"
               /\ Kept(p, q)
               /\ SameAsk(p, q)
               /\ SameAim(p, q)
               /\ SameSort(p, q)
<1>1. job[j] \in Request  BY JobType
<1>2. CASE Goto(j, "done")  BY <1>2, GotoFields
<1>3. CASE Put(j, [job[j] EXCEPT !.pc = "write", !.seen = rows[job[j].target][job[j].rank]])
  <2>1. job'[j] = [job[j] EXCEPT !.pc = "write", !.seen = rows[job[j].target][job[j].rank]]
    BY <1>3, PutFrame
  <2>2. QED  BY <1>1, <2>1 DEF Request, Kept, SameAsk, SameAim, SameSight, SameSort
<1>4. QED  BY <1>2, <1>3 DEF ToggleRead

LEMMA UpdateReadFields ==
  ASSUME TypeOK, NEW j \in Jobs, UpdateRead(j)
  PROVE  LET p == job'[j]
             q == job[j]
         IN \/ p.pc = "done" /\ Same(p, q)
            \/ p.pc = "write"
               /\ Kept(p, q)
               /\ SameAsk(p, q)
               /\ SameSort(p, q)
               /\ p.have = grants[q.rank] /\ p.chatOwner = owner /\ p.todo = Holders(q.rank)
               /\ p.target = q.target /\ p.rank = q.rank /\ p.folk = q.folk
<1>1. job[j] \in Request  BY JobType
<1>2. CASE Goto(j, "done")  BY <1>2, GotoFields
<1>3. CASE Put(j, [job[j] EXCEPT !.pc = "write", !.have = grants[job[j].rank], !.chatOwner = owner,
                               !.todo = Holders(job[j].rank)])
  <2>1. job'[j] = [job[j] EXCEPT !.pc = "write", !.have = grants[job[j].rank], !.chatOwner = owner,
                               !.todo = Holders(job[j].rank)]
    BY <1>3, PutFrame
  <2>2. QED  BY <1>1, <2>1 DEF Request, Kept, SameAsk, SameAim, SameSight, SameSort
<1>4. QED  BY <1>2, <1>3 DEF UpdateRead

LEMMA OrderReadFields ==
  ASSUME TypeOK, NEW j \in Jobs, OrderRead(j)
  PROVE  LET p == job'[j]
             q == job[j]
         IN \/ p.pc = "done" /\ Same(p, q)
            \/ p.pc = "write"
               /\ Kept(p, q)
               /\ SameAsk(p, q)
               /\ SameAim(p, q)
               /\ p.queue \in Enumerations /\ p.snap = index /\ p.highest = HighestIndex(q.by)
               /\ p.chatOwner = owner /\ p.norm = q.norm
<1>1. job[j] \in Request  BY JobType
<1>2. CASE Goto(j, "done")  BY <1>2, GotoFields
<1>3. ASSUME NEW s \in Enumerations,
             Put(j, [job[j] EXCEPT !.pc = "write", !.queue = s, !.snap = index,
                                   !.highest = HighestIndex(job[j].by), !.chatOwner = owner])
      PROVE  LET p == job'[j]
                 q == job[j]
             IN /\ p.pc = "write" /\ Kept(p, q) /\ SameAsk(p, q) /\ SameAim(p, q)
                /\ p.queue \in Enumerations /\ p.snap = index
                /\ p.highest = HighestIndex(q.by)
                /\ p.chatOwner = owner /\ p.norm = q.norm
  <2>1. job'[j] = [job[j] EXCEPT !.pc = "write", !.queue = s, !.snap = index,
                                 !.highest = HighestIndex(job[j].by), !.chatOwner = owner]
    BY <1>3, PutFrame
  <2>2. QED  BY <1>1, <1>3, <2>1 DEF Request, Kept, SameAsk, SameAim, SameSight, SameSort
<1>4. QED  BY <1>2, <1>3 DEF OrderRead

LEMMA RemoveReadFields ==
  ASSUME TypeOK, NEW j \in Jobs, RemoveRead(j)
  PROVE  LET p == job'[j]
             q == job[j]
         IN \/ p.pc = "done" /\ Same(p, q)
            \/ p.pc = "write"
               /\ Kept(p, q)
               /\ SameAsk(p, q)
               /\ SameSight(p, q)
               /\ SameSort(p, q)
               /\ p.todo = live /\ p.target = q.target /\ p.rank = q.rank /\ p.folk = q.folk
<1>1. job[j] \in Request  BY JobType
<1>2. CASE Goto(j, "done")  BY <1>2, GotoFields
<1>3. CASE Put(j, [job[j] EXCEPT !.pc = "write", !.todo = live])
  <2>1. job'[j] = [job[j] EXCEPT !.pc = "write", !.todo = live]
    BY <1>3, PutFrame
  <2>2. QED  BY <1>1, <2>1 DEF Request, Kept, SameAsk, SameAim, SameSight, SameSort
<1>4. QED  BY <1>2, <1>3 DEF RemoveRead

LEMMA JoinReadFields ==
  ASSUME TypeOK, NEW j \in Jobs, JoinRead(j)
  PROVE  LET p == job'[j]
             q == job[j]
         IN \/ p.pc = "done" /\ Same(p, q)
            \/ p.pc = "seat"
               /\ Kept(p, q)
               /\ SameAsk(p, q)
               /\ SameSight(p, q)
               /\ SameSort(p, q)
               /\ p.todo = q.todo /\ p.target = q.target /\ p.folk = q.folk
<1>1. job[j] \in Request  BY JobType
<1>2. CASE Goto(j, "done")  BY <1>2, GotoFields
<1>3. ASSUME NEW r, Put(j, [job[j] EXCEPT !.pc = "seat", !.rank = r])
      PROVE  LET p == job'[j]
                 q == job[j]
             IN /\ p.pc = "seat" /\ Kept(p, q) /\ SameAsk(p, q) /\ SameSight(p, q) /\ SameSort(p, q)
                /\ p.todo = q.todo /\ p.target = q.target /\ p.folk = q.folk
  <2>1. job'[j] = [job[j] EXCEPT !.pc = "seat", !.rank = r]  BY <1>3, PutFrame
  <2>2. QED  BY <1>1, <2>1 DEF Request, Kept, SameAsk, SameAim, SameSight, SameSort
<1>4. QED  BY <1>2, <1>3 DEF JoinRead

LEMMA KickReadFields ==
  ASSUME TypeOK, NEW j \in Jobs, KickRead(j)
  PROVE  LET p == job'[j]
             q == job[j]
         IN \/ p.pc = "done" /\ Same(p, q)
            \/ p.pc = "purge"
               /\ Kept(p, q)
               /\ SameAsk(p, q)
               /\ SameSight(p, q)
               /\ SameSort(p, q)
               /\ p.todo = Removable(j) /\ p.folk = Removable(j)
               /\ p.target = q.target /\ p.rank = q.rank
<1>1. job[j] \in Request  BY JobType
<1>2. CASE Goto(j, "done")  BY <1>2, GotoFields
<1>3. CASE Put(j, [job[j] EXCEPT !.pc = "purge", !.todo = Removable(j), !.folk = Removable(j)])
  <2>1. job'[j] = [job[j] EXCEPT !.pc = "purge", !.todo = Removable(j), !.folk = Removable(j)]
    BY <1>3, PutFrame
  <2>2. QED  BY <1>1, <2>1 DEF Request, Kept, SameAsk, SameAim, SameSight, SameSort
<1>4. QED  BY <1>2, <1>3 DEF KickRead

LEMMA LeaveReadFields ==
  ASSUME TypeOK, NEW j \in Jobs, LeaveRead(j)
  PROVE  LET p == job'[j]
             q == job[j]
         IN \/ p.pc = "done" /\ Same(p, q)
            \/ p.pc = "purge"
               /\ Kept(p, q)
               /\ SameAsk(p, q)
               /\ SameSight(p, q)
               /\ SameSort(p, q)
               /\ p.todo = {q.by} /\ p.folk = {q.by}
               /\ p.target = q.target /\ p.rank = q.rank
<1>1. job[j] \in Request  BY JobType
<1>2. CASE Goto(j, "done")  BY <1>2, GotoFields
<1>3. CASE Put(j, [job[j] EXCEPT !.pc = "purge", !.todo = {job[j].by}, !.folk = {job[j].by}])
  <2>1. job'[j] = [job[j] EXCEPT !.pc = "purge", !.todo = {job[j].by}, !.folk = {job[j].by}]
    BY <1>3, PutFrame
  <2>2. QED  BY <1>1, <2>1 DEF Request, Kept, SameAsk, SameAim, SameSight, SameSort
<1>4. QED  BY <1>2, <1>3 DEF LeaveRead

LEMMA TransferReadFields ==
  ASSUME TypeOK, NEW j \in Jobs, TransferRead(j)
  PROVE  LET p == job'[j]
             q == job[j]
         IN \/ p.pc = "done" /\ Same(p, q)
            \/ p.pc = "write"
               /\ Kept(p, q)
               /\ SameAsk(p, q)
               /\ SameAim(p, q)
               /\ SameSort(p, q)
<1>1. job[j] \in Request  BY JobType
<1>2. CASE Goto(j, "done")  BY <1>2, GotoFields
<1>3. CASE Put(j, [job[j] EXCEPT !.pc = "write", !.chatOwner = owner])
  <2>1. job'[j] = [job[j] EXCEPT !.pc = "write", !.chatOwner = owner]
    BY <1>3, PutFrame
  <2>2. QED  BY <1>1, <2>1 DEF Request, Kept, SameAsk, SameAim, SameSight, SameSort
<1>4. QED  BY <1>2, <1>3 DEF TransferRead

LEMMA DestroyReadFields ==
  ASSUME TypeOK, NEW j \in Jobs, DestroyRead(j)
  PROVE  LET p == job'[j]
             q == job[j]
         IN \/ p.pc = "done" /\ Same(p, q)
            \/ p.pc = "disband"
               /\ Kept(p, q)
               /\ SameAsk(p, q)
               /\ SameSight(p, q)
               /\ SameSort(p, q)
               /\ p.todo = live /\ p.target = q.target /\ p.rank = q.rank /\ p.folk = q.folk
<1>1. job[j] \in Request  BY JobType
<1>2. CASE Goto(j, "done")  BY <1>2, GotoFields
<1>3. CASE Put(j, [job[j] EXCEPT !.pc = "disband", !.todo = live])
  <2>1. job'[j] = [job[j] EXCEPT !.pc = "disband", !.todo = live]
    BY <1>3, PutFrame
  <2>2. QED  BY <1>1, <2>1 DEF Request, Kept, SameAsk, SameAim, SameSight, SameSort
<1>4. QED  BY <1>2, <1>3 DEF DestroyRead

LEMMA CreateGrantsFields ==
  ASSUME TypeOK, NEW j \in Jobs, CreateGrants(j)
  PROVE  LET p == job'[j]
             q == job[j]
         IN /\ Kept(p, q)
            /\ SameAsk(p, q)
            /\ SameAim(p, q)
            /\ SameSight(p, q)
            /\ p.pc = "done" /\ p.queue = q.queue /\ p.norm = IF q.fresh \in ranks THEN "read" ELSE q.norm
<1>1. job[j] \in Request  BY JobType
<1>2. CASE Goto(j, "done") /\ job[j].fresh \notin ranks  BY <1>2, GotoFields DEF Same, SameSort
<1>3. CASE Put(j, [job[j] EXCEPT !.pc = "done", !.norm = "read"]) /\ job[j].fresh \in ranks
  <2>1. job'[j] = [job[j] EXCEPT !.pc = "done", !.norm = "read"]  BY <1>3, PutFrame
  <2>2. QED  BY <1>1, <1>3, <2>1 DEF Request, Kept, SameAsk, SameAim, SameSight, SameSort
<1>4. QED  BY <1>2, <1>3 DEF CreateGrants

LEMMA OrderMoveFields ==
  ASSUME TypeOK, NEW j \in Jobs, OrderMove(j)
  PROVE  LET p == job'[j]
             q == job[j]
         IN /\ Kept(p, q)
            /\ SameAsk(p, q)
            /\ SameAim(p, q)
            /\ SameSight(p, q)
            /\ p.pc = q.pc /\ p.norm = q.norm /\ p.queue = Tail(q.queue)
<1>1. job[j] \in Request  BY JobType
<1>2. job'[j] = [job[j] EXCEPT !.queue = Tail(job[j].queue)]
  BY PutFrame DEF OrderMove
<1>3. QED  BY <1>1, <1>2 DEF Request, Kept, SameAsk, SameAim, SameSight, SameSort

LEMMA OrderEndFields ==
  ASSUME TypeOK, NEW j \in Jobs, OrderEnd(j)
  PROVE  LET p == job'[j]
             q == job[j]
         IN /\ Kept(p, q)
            /\ SameAsk(p, q)
            /\ SameAim(p, q)
            /\ SameSight(p, q)
            /\ p.pc = "done" /\ p.norm = "read"
<1>1. job[j] \in Request  BY JobType
<1>2. job'[j] = [job[j] EXCEPT !.pc = "done", !.norm = "read", !.queue = <<>>]
  BY PutFrame DEF OrderEnd
<1>3. QED  BY <1>1, <1>2 DEF Request, Kept, SameAsk, SameAim, SameSight, SameSort

LEMMA BotRankFields ==
  ASSUME TypeOK, NEW j \in Jobs, BotRank(j)
  PROVE  LET p == job'[j]
             q == job[j]
         IN /\ Kept(p, q)
            /\ SameAsk(p, q)
            /\ SameAim(p, q)
            /\ SameSight(p, q)
            /\ \/ p.pc = "botrow" /\ p.norm = "read"
               \/ p.pc = "done" /\ p.norm = q.norm
<1>1. job[j] \in Request  BY JobType
<1>2. CASE Goto(j, "done")  BY <1>2, GotoFields DEF Same, SameSort
<1>3. CASE Put(j, [job[j] EXCEPT !.pc = "botrow", !.norm = "read"])
  <2>1. job'[j] = [job[j] EXCEPT !.pc = "botrow", !.norm = "read"]  BY <1>3, PutFrame
  <2>2. QED  BY <1>1, <2>1 DEF Request, Kept, SameAsk, SameAim, SameSight, SameSort
<1>4. QED  BY <1>2, <1>3 DEF BotRank

LEMMA SeatFields ==
  ASSUME TypeOK, NEW j \in Jobs, Seat(j)
  PROVE  LET p == job'[j]
             q == job[j]
         IN /\ Kept(p, q)
            /\ SameAsk(p, q)
            /\ SameSight(p, q)
            /\ SameSort(p, q)
            /\ p.rank = q.rank /\ p.folk = q.folk
            /\ \/ p.pc = "done" /\ p.todo = q.todo /\ p.target = q.target
               \/ p.pc = "row" /\ \E a \in q.todo : p.todo = q.todo \ {a} /\ p.target = a
<1>1. job[j] \in Request  BY JobType
<1>2. CASE Goto(j, "done")  BY <1>2, GotoFields DEF Same, SameAim
<1>3. ASSUME NEW a \in job[j].todo,
             Put(j, [job[j] EXCEPT !.pc = "row", !.todo = job[j].todo \ {a}, !.target = a])
      PROVE  LET p == job'[j]
                 q == job[j]
             IN /\ Kept(p, q) /\ SameAsk(p, q) /\ SameSight(p, q) /\ SameSort(p, q)
                /\ p.rank = q.rank /\ p.folk = q.folk
                /\ p.pc = "row" /\ p.todo = q.todo \ {a} /\ p.target = a
  <2>1. job'[j] = [job[j] EXCEPT !.pc = "row", !.todo = job[j].todo \ {a}, !.target = a]
    BY <1>3, PutFrame
  <2>2. QED  BY <1>1, <2>1 DEF Request, Kept, SameAsk, SameAim, SameSight, SameSort
<1>4. QED  BY <1>2, <1>3 DEF Seat

LEMMA PurgeFields ==
  ASSUME TypeOK, NEW j \in Jobs, Purge(j)
  PROVE  LET p == job'[j]
             q == job[j]
         IN /\ Kept(p, q)
            /\ SameSight(p, q)
            /\ SameSort(p, q)
            /\ p.pc = "authorize" /\ p.next = "unread" /\ p.need = "SEND_MESSAGES"
            /\ p.rank = q.rank /\ p.todo = q.todo /\ p.folk = q.folk
<1>1. job[j] \in Request  BY JobType
<1>2. PICK a \in job[j].todo :
        Put(j, [job[j] EXCEPT !.pc = "authorize", !.target = a,
                              !.need = "SEND_MESSAGES", !.next = "unread"])
  BY DEF Purge
<1>3. job'[j] = [job[j] EXCEPT !.pc = "authorize", !.target = a,
                               !.need = "SEND_MESSAGES", !.next = "unread"]
  BY <1>2, PutFrame
<1>4. QED  BY <1>1, <1>3 DEF Request, Kept, SameAsk, SameAim, SameSight, SameSort

LEMMA UnreadFields ==
  ASSUME TypeOK, NEW j \in Jobs, Unread(j)
  PROVE  LET p == job'[j]
             q == job[j]
         IN /\ Kept(p, q)
            /\ SameAsk(p, q)
            /\ SameSight(p, q)
            /\ SameSort(p, q)
            /\ p.pc \in {"done", "destroy", "purge"} /\ p.todo \subseteq q.todo
            /\ p.target = q.target /\ p.rank = q.rank /\ p.folk = q.folk
<1>1. job[j] \in Request  BY JobType
<1>2. CASE Goto(j, "done")  BY <1>2, GotoFields DEF Same, SameAim
<1>3. ASSUME NEW pc \in {"destroy", "purge"}, NEW rest \in SUBSET job[j].todo,
             Put(j, [job[j] EXCEPT !.pc = pc, !.todo = rest])
      PROVE  LET p == job'[j]
                 q == job[j]
             IN /\ Kept(p, q) /\ SameAsk(p, q) /\ SameSight(p, q) /\ SameSort(p, q)
                /\ p.pc = pc /\ p.todo \subseteq q.todo
                /\ p.target = q.target /\ p.rank = q.rank /\ p.folk = q.folk
  <2>1. job'[j] = [job[j] EXCEPT !.pc = pc, !.todo = rest]  BY <1>3, PutFrame
  <2>2. QED  BY <1>1, <1>3, <2>1 DEF Request, Kept, SameAsk, SameAim, SameSight, SameSort
<1>4. QED  BY <1>2, <1>3 DEF Unread

LEMMA DisbandFields ==
  ASSUME TypeOK, NEW j \in Jobs, Disband(j)
  PROVE  LET p == job'[j]
             q == job[j]
         IN /\ Kept(p, q)
            /\ SameAsk(p, q)
            /\ SameSight(p, q)
            /\ SameSort(p, q)
            /\ p.target = q.target /\ p.rank = q.rank /\ p.folk = q.folk
            /\ \/ p.pc = "done"
               \/ p.pc = "disband" /\ \E a \in q.todo : p.todo = q.todo \ {a}
<1>1. job[j] \in Request  BY JobType
<1>2. CASE Goto(j, "done")  BY <1>2, GotoFields DEF Same, SameAim
<1>3. ASSUME NEW a \in job[j].todo, job[j].pc = "disband",
             Put(j, [job[j] EXCEPT !.todo = job[j].todo \ {a}])
      PROVE  LET p == job'[j]
                 q == job[j]
             IN /\ Kept(p, q) /\ SameAsk(p, q) /\ SameSight(p, q) /\ SameSort(p, q)
                /\ p.target = q.target /\ p.rank = q.rank /\ p.folk = q.folk
                /\ p.pc = "disband" /\ p.todo = q.todo \ {a}
  <2>1. job'[j] = [job[j] EXCEPT !.todo = job[j].todo \ {a}]  BY <1>3, PutFrame
  <2>2. QED  BY <1>1, <1>3, <2>1 DEF Request, Kept, SameAsk, SameAim, SameSight, SameSort
<1>4. QED  BY <1>2, <1>3 DEF Disband, At

LEMMA NormReadFields ==
  ASSUME TypeOK, NEW j \in Jobs, NormRead(j)
  PROVE  LET p == job'[j]
             q == job[j]
         IN /\ Kept(p, q)
            /\ SameAsk(p, q)
            /\ SameAim(p, q)
            /\ SameSight(p, q)
            /\ p.pc = q.pc /\ p.norm = "write" /\ p.queue \in Listings /\ p.pos = 0 /\ p.loaded = index
<1>1. job[j] \in Request  BY JobType
<1>2. PICK s \in Listings :
        Put(j, [job[j] EXCEPT !.norm = "write", !.queue = s, !.pos = 0, !.loaded = index])
  BY DEF NormRead
<1>3. job'[j] = [job[j] EXCEPT !.norm = "write", !.queue = s, !.pos = 0, !.loaded = index]
  BY <1>2, PutFrame
<1>4. QED  BY <1>1, <1>2, <1>3 DEF Request, Kept, SameAsk, SameAim, SameSight, SameSort

LEMMA NormWriteFields ==
  ASSUME TypeOK, NEW j \in Jobs, NormWrite(j)
  PROVE  LET p == job'[j]
             q == job[j]
         IN /\ Kept(p, q)
            /\ SameAsk(p, q)
            /\ SameAim(p, q)
            /\ SameSight(p, q)
            /\ p.pc = q.pc /\ p.norm = "write" /\ p.queue = Tail(q.queue) /\ p.pos = q.pos + 1 /\ p.loaded = q.loaded
<1>1. job[j] \in Request  BY JobType
<1>2. job'[j] = [job[j] EXCEPT !.queue = Tail(job[j].queue), !.pos = job[j].pos + 1]
  BY PutFrame DEF NormWrite
<1>3. QED  BY <1>1, <1>2 DEF NormWrite, Request, Kept, SameAsk, SameAim, SameSight, SameSort

LEMMA NormUsersFields ==
  ASSUME TypeOK, NEW j \in Jobs, NormUsers(j)
  PROVE  LET p == job'[j]
             q == job[j]
         IN /\ Kept(p, q)
            /\ SameAsk(p, q)
            /\ SameAim(p, q)
            /\ SameSight(p, q)
            /\ p.pc = q.pc /\ p.norm = "users"
<1>1. job[j] \in Request  BY JobType
<1>2. job'[j] = [job[j] EXCEPT !.norm = "users"]
  BY PutFrame DEF NormUsers
<1>3. QED  BY <1>1, <1>2 DEF Request, Kept, SameAsk, SameAim, SameSight, SameSort

LEMMA OweAllFields ==
  ASSUME TypeOK, NEW j \in Jobs, NEW as, OweAll(j, as)
  PROVE  \A a \in Assocs : fill'[j][a] = IF a \in as THEN Owed ELSE fill[j][a]
BY DEF OweAll, TypeOK, EntriesOK

LEMMA RankShape ==
  ASSUME TypeOK, NEW j \in Jobs, RankStep(j), Shape(j)
  PROVE  Shape(j)'
<1> USE DEF At, Shape, PointsOf, Authorizes, Same, Kept, SameAsk, SameAim, SameSort
<1>1. CASE ToggleRead(j)  BY <1>1, ToggleReadFields DEF ToggleRead
<1>2. CASE ToggleAdd(j)  BY <1>2, GotoFields DEF ToggleAdd
<1>3. CASE ToggleTake(j)  BY <1>3, GotoFields DEF ToggleTake
<1>4. CASE UpdateRead(j)
  <2>1. /\ job'[j].pc \in {"done", "write"} /\ Kept(job'[j], job[j]) /\ SameAsk(job'[j], job[j])
        /\ job'[j].norm = job[j].norm /\ job'[j].folk = job[j].folk
    BY <1>4, UpdateReadFields
  <2>2. fill' = fill /\ job[j].op = "update" /\ job[j].pc = "read"  BY <1>4 DEF UpdateRead
  <2>3. QED  BY <2>1, <2>2
<1>5. CASE UpdateAdd(j)  BY <1>5, GotoFields DEF UpdateAdd
<1>6. CASE UpdateRemove(j)  BY <1>6, GotoFields DEF UpdateRemove
<1>7. CASE CreateRank(j)  BY <1>7, GotoFields DEF CreateRank
<1>8. CASE CreateGrants(j)  BY <1>8, CreateGrantsFields DEF CreateGrants
<1>9. CASE OrderRead(j)  BY <1>9, OrderReadFields DEF OrderRead
<1>10. CASE OrderMove(j)  BY <1>10, OrderMoveFields DEF OrderMove
<1>11. CASE OrderEnd(j)  BY <1>11, OrderEndFields DEF OrderEnd
<1>12. CASE RemoveRead(j)  BY <1>12, RemoveReadFields DEF RemoveRead
<1>13. CASE RemoveWrite(j)  BY <1>13, GotoFields DEF RemoveWrite
<1>14. CASE InviteRead(j)  BY <1>14, GotoFields DEF InviteRead
<1>15. CASE InviteWrite(j)  BY <1>15, GotoFields DEF InviteWrite
<1>16. CASE UninviteRead(j)  BY <1>16, GotoFields DEF UninviteRead
<1>17. CASE UninviteWrite(j)  BY <1>17, GotoFields DEF UninviteWrite
<1>18. QED
  BY <1>1, <1>2, <1>3, <1>4, <1>5, <1>6, <1>7, <1>8, <1>9, <1>10, <1>11, <1>12, <1>13,
     <1>14, <1>15, <1>16, <1>17 DEF RankStep

LEMMA MemberShape ==
  ASSUME TypeOK, NEW j \in Jobs, MemberStep(j), Shape(j)
  PROVE  Shape(j)'
<1> USE DEF At, Shape, PointsOf, Authorizes, Same, Kept, SameAsk, SameAim, SameSort
<1>1. CASE AddRead(j)  BY <1>1, GotoFields DEF AddRead
<1>2. CASE JoinRead(j)
  <2>1. /\ job'[j].pc \in {"done", "seat"} /\ Kept(job'[j], job[j]) /\ SameAsk(job'[j], job[j])
        /\ job'[j].norm = job[j].norm /\ job'[j].folk = job[j].folk
    BY <1>2, JoinReadFields
  <2>2. fill' = fill /\ job[j].op = "join" /\ job[j].pc = "read"  BY <1>2 DEF JoinRead
  <2>3. QED  BY <2>1, <2>2
<1>3. CASE BotRead(j)  BY <1>3, GotoFields DEF BotRead
<1>4. CASE Seat(j)
  <2>1. /\ job'[j].pc \in {"done", "row"} /\ Kept(job'[j], job[j]) /\ SameAsk(job'[j], job[j])
        /\ job'[j].norm = job[j].norm /\ job'[j].folk = job[j].folk
    BY <1>4, SeatFields
  <2>2. fill' = fill /\ job[j].pc = "seat"  BY <1>4 DEF Seat
  <2>3. job[j].op \in {"add", "join", "bot"}  BY <2>2
  <2>4. QED  BY <2>1, <2>2, <2>3
<1>5. CASE SeatRow(j)  BY <1>5, GotoFields DEF SeatRow
<1>6. CASE BotRank(j)  BY <1>6, BotRankFields DEF BotRank
<1>7. CASE BotRow(j)  BY <1>7, GotoFields DEF BotRow
<1>8. CASE BotGrants(j)  BY <1>8, GotoFields DEF BotGrants
<1>9. CASE KickRead(j)  BY <1>9, KickReadFields DEF KickRead
<1>10. CASE LeaveRead(j)  BY <1>10, LeaveReadFields DEF LeaveRead
<1>11. CASE Purge(j)  BY <1>11, PurgeFields DEF Purge
<1>12. CASE Unread(j)  BY <1>12, UnreadFields DEF Unread
<1>13. CASE KickWrite(j)  BY <1>13, GotoFields DEF KickWrite
<1>14. CASE TransferRead(j)
  <2>1. /\ job'[j].pc \in {"done", "write"} /\ Kept(job'[j], job[j]) /\ SameAsk(job'[j], job[j])
        /\ job'[j].norm = job[j].norm /\ job'[j].folk = job[j].folk
    BY <1>14, TransferReadFields
  <2>2. fill' = fill /\ job[j].op = "transfer" /\ job[j].pc = "read"
    BY <1>14 DEF TransferRead
  <2>3. QED  BY <2>1, <2>2
<1>15. CASE TransferWrite(j)  BY <1>15, GotoFields DEF TransferWrite
<1>16. CASE TransferOther(j)  BY <1>16, GotoFields DEF TransferOther
<1>17. CASE DestroyRead(j)  BY <1>17, DestroyReadFields DEF DestroyRead
<1>18. CASE Disband(j)  BY <1>18, DisbandFields DEF Disband
<1>19. CASE DestroyWrite(j)  BY <1>19, GotoFields DEF DestroyWrite
<1>20. QED
  BY <1>1, <1>2, <1>3, <1>4, <1>5, <1>6, <1>7, <1>8, <1>9, <1>10, <1>11, <1>12, <1>13,
     <1>14, <1>15, <1>16, <1>17, <1>18, <1>19 DEF MemberStep

LEMMA CacheShape ==
  ASSUME TypeOK, NEW j \in Jobs, CacheStep(j), Shape(j)
  PROVE  Shape(j)' /\ Frame(j)
<1>0. job[j] \in Request /\ fill \in [Jobs -> [Assocs -> FillValues]]
  BY JobType DEF TypeOK, EntriesOK, FillValues
<1> USE DEF At, Shape, PointsOf, Authorizes, Same, Kept, SameAsk, SameAim, SameSort
<1>1. CASE CheckHit(j) \/ CheckRead(j) \/ CheckWrite(j)
  <2>1. /\ job[j].pc \in {"authorize", "miss"}
        /\ job'[j].pc \in {"miss", "done", job[j].next} /\ Same(job'[j], job[j])
        /\ fill' = fill
    <3>1. /\ job[j].pc \in {"authorize", "miss"} /\ fill' = fill
          /\ Goto(j, "miss") \/ Goto(j, "done") \/ Goto(j, job[j].next)
      BY <1>1 DEF CheckHit, CheckRead, CheckWrite, Checking, Decide
    <3>2. QED  BY <3>1, GotoFields
  <2>2. Shape(j)'  BY <2>1
  <2>3. Frame(j)
    BY <1>1, PutFrame
    DEF CheckHit, CheckRead, CheckWrite, Decide, Goto, Frame, Still, TypeOK, EntriesOK, tables, history
  <2>4. QED  BY <2>2, <2>3
<1>2. ASSUME NEW a \in Assocs, FillRead(j, a) \/ FillHit(j, a) \/ FillWrite(j, a)
      PROVE  Shape(j)' /\ Frame(j)
  <2>1. job' = job /\ fill[j][a] # NoFill
    BY <1>2 DEF FillRead, FillHit, FillWrite, Unfilled, NoFill, Owed, Wanted
  <2>2. Shape(j)'  BY <2>1
  <2>3. Frame(j)
    BY <1>0, <1>2 DEF FillRead, FillHit, FillWrite, Frame, Still, tables, history
  <2>4. QED  BY <2>2, <2>3
<1>3. QED  BY <1>1, <1>2 DEF CacheStep

LEMMA NormShape ==
  ASSUME TypeOK, NEW j \in Jobs, NormStep(j), Shape(j)
  PROVE  Shape(j)' /\ Frame(j)
<1> USE DEF At, Shape, PointsOf, Authorizes, Same, Kept, SameAsk, SameAim, SameSort
<1>1. CASE NormRead(j)
  <2>1. Shape(j)'  BY <1>1, NormReadFields DEF NormRead
  <2>2. Frame(j)
    BY <1>1, PutFrame DEF NormRead, Frame, Still, TypeOK, EntriesOK, tables, history
  <2>3. QED  BY <2>1, <2>2
<1>2. CASE NormWrite(j)
  <2>1. Shape(j)'  BY <1>2, NormWriteFields DEF NormWrite
  <2>2. Frame(j)
    BY <1>2, PutFrame, AloneWrote DEF NormWrite, Frame, Still, TypeOK, EntriesOK
  <2>3. QED  BY <2>1, <2>2
<1>3. CASE NormUsers(j)
  <2>1. Shape(j)'  BY <1>3, NormUsersFields DEF NormUsers
  <2>2. Frame(j)
    BY <1>3, PutFrame DEF NormUsers, OweAll, Frame, Still, TypeOK, EntriesOK, tables,
       history
  <2>3. QED  BY <2>1, <2>2
<1>4. QED  BY <1>1, <1>2, <1>3 DEF NormStep

LEMMA EndShape ==
  ASSUME TypeOK, NEW j \in Jobs, Finish(j) \/ Crash(j)
  PROVE  /\ Shape(j)' /\ job'[j] = NoRequest
         /\ \A k \in Jobs \ {j} : job'[k] = job[k] /\ perms'[k] = perms[k] /\ fill'[k] = fill[k]
         /\ \A a \in Assocs : fill'[j][a] = NoFill
         /\ UNCHANGED <<tables, cache>>
<1>1. /\ job'[j] = NoRequest
      /\ \A k \in Jobs \ {j} : job'[k] = job[k]
  BY PutFrame DEF Finish, Crash
<1>2. \A k \in Jobs \ {j} : perms'[k] = perms[k] /\ fill'[k] = fill[k]
  BY DEF Finish, Crash, TypeOK, EntriesOK
<1>3. \A a \in Assocs : fill'[j][a] = NoFill
  BY DEF Finish, Crash, Settled, TypeOK, EntriesOK
<1>4. Shape(j)'
  BY <1>1, <1>3 DEF Shape, PointsOf, NoRequest
<1>5. QED  BY <1>1, <1>2, <1>3, <1>4 DEF Finish, Crash

\* A request that arrives.
Newborn(j) ==
  LET p == job'[j] IN
  /\ job[j].op = "none" /\ p.op \in Operations \ {"none"}
  /\ \A k \in Jobs \ {j} : job'[k] = job[k]
  /\ UNCHANGED <<cache, perms, fill, history>>
  /\ UNCHANGED <<alive, owner, live, ranks, index, grants, rows>>
  /\ p.folk = {} /\ p.norm = "off"
  /\ p.clash = Overlap(j)
  /\ IF p.op \in {"join", "leave"} THEN p.pc = "read"
     ELSE p.pc = "authorize" /\ p.next = IF p.op = "check" THEN "done" ELSE "read"
  /\ p.op = "transfer" => p.need = "OWNER"
  /\ IF p.op \in {"add", "join", "bot"}
     THEN p.todo \cap born = {} /\ born' = born \cup p.todo
     ELSE born' = born
  /\ IF p.op \in {"create", "bot"}
     THEN p.fresh \notin drawn /\ drawn' = drawn \cup {p.fresh}
     ELSE drawn' = drawn

LEMMA AskFields ==
  ASSUME NEW op \in Operations, NEW by \in Assocs, NEW need \in AllPermissions
  PROVE  LET q == Ask(op, by, need) IN
         /\ q \in Request
         /\ q.op = op /\ q.need = need /\ q.pc = "authorize" /\ q.next = "read"
         /\ q.folk = {} /\ q.norm = "off"
<1>1. Ask(op, by, need) \in Request  BY AskType
<1>2. NoRequest.folk = {} /\ NoRequest.norm = "off"  BY DEF NoRequest
<1>3. Ask(op, by, need) = [NoRequest EXCEPT !.op = op, !.by = by, !.need = need,
                                            !.pc = "authorize", !.next = "read"]
  BY DEF Ask
<1>4. QED  BY <1>1, <1>2, <1>3, NoRequestType DEF Request

LEMMA AdmitNewborn ==
  ASSUME TypeOK, NEW j \in Jobs, NEW q \in Request, Admit(j, q),
         UNCHANGED <<alive, owner, live, ranks, index, grants, rows>>,
         q.op \in Operations \ {"none"}, q.folk = {}, q.norm = "off",
         IF q.op \in {"join", "leave"} THEN q.pc = "read"
         ELSE q.pc = "authorize" /\ q.next = IF q.op = "check" THEN "done" ELSE "read",
         q.op = "transfer" => q.need = "OWNER",
         IF q.op \in {"add", "join", "bot"}
         THEN q.todo \cap born = {} /\ born' = born \cup q.todo
         ELSE born' = born,
         IF q.op \in {"create", "bot"}
         THEN q.fresh \notin drawn /\ drawn' = drawn \cup {q.fresh}
         ELSE drawn' = drawn
  PROVE  Newborn(j)
<1>1. job'[j] = [q EXCEPT !.clash = Overlap(j)] /\ \A k \in Jobs \ {j} : job'[k] = job[k]
  BY PutFrame DEF Admit
<1>2. LET p == job'[j] IN
      /\ p.op = q.op /\ p.folk = q.folk /\ p.norm = q.norm /\ p.pc = q.pc
      /\ p.next = q.next /\ p.need = q.need /\ p.todo = q.todo /\ p.fresh = q.fresh
      /\ p.clash = Overlap(j)
  BY <1>1 DEF Request
<1>3. job[j].op = "none" /\ UNCHANGED <<cache, perms, fill, history>>  BY DEF Admit
<1>4. QED  BY <1>1, <1>2, <1>3 DEF Newborn

LEMMA ArriveNewborn ==
  ASSUME TypeOK, NEW j \in Jobs, Arrive(j)
  PROVE  Newborn(j)
<1>0. /\ born \subseteq Assocs /\ drawn \subseteq Ranks /\ Maps \subseteq SUBSET Permissions
      /\ Orders \subseteq Seq(Ranks) /\ Checks \subseteq AllPermissions
  BY BoundAssumption DEF TypeOK, TablesOK
<1>a. NoRequest.folk = {} /\ NoRequest.norm = "off"  BY DEF NoRequest
<1>1. ASSUME NEW by \in Assocs, NEW target \in Assocs, NEW rank \in Ranks, CallToggle(j, by, target, rank)
      PROVE  Newborn(j)
  <2> DEFINE r == Ask("toggle", by, "MANAGE_RANKS")
  <2>1. /\ r \in Request /\ r.op = "toggle" /\ r.need = "MANAGE_RANKS"
        /\ r.pc = "authorize" /\ r.next = "read"
        /\ r.folk = {} /\ r.norm = "off"
    <3>1. "toggle" \in Operations  BY DEF Operations
    <3>2. "MANAGE_RANKS" \in AllPermissions
      BY DEF AllPermissions, Permissions, MemberPermissions
    <3>3. QED  BY <1>1, <3>1, <3>2, AskFields
  <2> DEFINE p == [r EXCEPT !.target = target, !.rank = rank]
  <2> HIDE DEF r
  <2>2. /\ p \in Request /\ p.op = "toggle" /\ p.need = "MANAGE_RANKS"
        /\ p.pc = "authorize" /\ p.next = "read"
        /\ p.folk = {} /\ p.norm = "off"
    BY <1>1, <2>1 DEF Request
  <2> HIDE DEF p
  <2>3. Admit(j, p)  BY <1>1 DEF CallToggle, p, r
  <2>4. QED  BY <1>1, <2>2, <2>3, AdmitNewborn DEF Operations, CallToggle, tables
<1>2. ASSUME NEW by \in Assocs, NEW rank \in Ranks, NEW map \in Maps, CallUpdate(j, by, rank, map)
      PROVE  Newborn(j)
  <2> DEFINE r == Ask("update", by, "MANAGE_RANKS")
  <2>1. /\ r \in Request /\ r.op = "update" /\ r.need = "MANAGE_RANKS"
        /\ r.pc = "authorize" /\ r.next = "read"
        /\ r.folk = {} /\ r.norm = "off"
    <3>1. "update" \in Operations  BY DEF Operations
    <3>2. "MANAGE_RANKS" \in AllPermissions
      BY DEF AllPermissions, Permissions, MemberPermissions
    <3>3. QED  BY <1>2, <3>1, <3>2, AskFields
  <2> DEFINE p == [r EXCEPT !.rank = rank, !.map = map]
  <2> HIDE DEF r
  <2>2. /\ p \in Request /\ p.op = "update" /\ p.need = "MANAGE_RANKS"
        /\ p.pc = "authorize" /\ p.next = "read"
        /\ p.folk = {} /\ p.norm = "off"
    BY <1>0, <1>2, <2>1 DEF Request
  <2> HIDE DEF p
  <2>3. Admit(j, p)  BY <1>2 DEF CallUpdate, p, r
  <2>4. QED  BY <1>2, <2>2, <2>3, AdmitNewborn DEF Operations, CallUpdate, tables
<1>3. ASSUME NEW by \in Assocs, NEW rank \in Ranks, CallCreate(j, by, rank)
      PROVE  Newborn(j)
  <2> DEFINE r == Ask("create", by, "MANAGE_RANKS")
  <2>1. /\ r \in Request /\ r.op = "create" /\ r.need = "MANAGE_RANKS"
        /\ r.pc = "authorize" /\ r.next = "read"
        /\ r.folk = {} /\ r.norm = "off"
    <3>1. "create" \in Operations  BY DEF Operations
    <3>2. "MANAGE_RANKS" \in AllPermissions
      BY DEF AllPermissions, Permissions, MemberPermissions
    <3>3. QED  BY <1>3, <3>1, <3>2, AskFields
  <2> DEFINE p == [r EXCEPT !.fresh = rank]
  <2> HIDE DEF r
  <2>2. /\ p \in Request /\ p.op = "create" /\ p.need = "MANAGE_RANKS"
        /\ p.pc = "authorize" /\ p.next = "read"
        /\ p.folk = {} /\ p.norm = "off" /\ p.fresh = rank
    BY <1>3, <2>1 DEF Request
  <2> HIDE DEF p
  <2>3. Admit(j, p)  BY <1>3 DEF CallCreate, p, r
  <2>4. QED  BY <1>3, <2>2, <2>3, AdmitNewborn DEF Operations, CallCreate, tables
<1>4. ASSUME NEW by \in Assocs, NEW order \in Orders, CallOrder(j, by, order)
      PROVE  Newborn(j)
  <2> DEFINE r == Ask("order", by, "MANAGE_RANKS")
  <2>1. /\ r \in Request /\ r.op = "order" /\ r.need = "MANAGE_RANKS"
        /\ r.pc = "authorize" /\ r.next = "read"
        /\ r.folk = {} /\ r.norm = "off"
    <3>1. "order" \in Operations  BY DEF Operations
    <3>2. "MANAGE_RANKS" \in AllPermissions
      BY DEF AllPermissions, Permissions, MemberPermissions
    <3>3. QED  BY <1>4, <3>1, <3>2, AskFields
  <2> DEFINE p == [r EXCEPT !.order = order]
  <2> HIDE DEF r
  <2>2. /\ p \in Request /\ p.op = "order" /\ p.need = "MANAGE_RANKS"
        /\ p.pc = "authorize" /\ p.next = "read"
        /\ p.folk = {} /\ p.norm = "off"
    BY <1>0, <1>4, <2>1 DEF Request
  <2> HIDE DEF p
  <2>3. Admit(j, p)  BY <1>4 DEF CallOrder, p, r
  <2>4. QED  BY <1>4, <2>2, <2>3, AdmitNewborn DEF Operations, CallOrder, tables
<1>5. ASSUME NEW by \in Assocs, NEW rank \in Ranks, CallRemove(j, by, rank)
      PROVE  Newborn(j)
  <2> DEFINE r == Ask("remove", by, "MANAGE_RANKS")
  <2>1. /\ r \in Request /\ r.op = "remove" /\ r.need = "MANAGE_RANKS"
        /\ r.pc = "authorize" /\ r.next = "read"
        /\ r.folk = {} /\ r.norm = "off"
    <3>1. "remove" \in Operations  BY DEF Operations
    <3>2. "MANAGE_RANKS" \in AllPermissions
      BY DEF AllPermissions, Permissions, MemberPermissions
    <3>3. QED  BY <1>5, <3>1, <3>2, AskFields
  <2> DEFINE p == [r EXCEPT !.rank = rank]
  <2> HIDE DEF r
  <2>2. /\ p \in Request /\ p.op = "remove" /\ p.need = "MANAGE_RANKS"
        /\ p.pc = "authorize" /\ p.next = "read"
        /\ p.folk = {} /\ p.norm = "off"
    BY <1>5, <2>1 DEF Request
  <2> HIDE DEF p
  <2>3. Admit(j, p)  BY <1>5 DEF CallRemove, p, r
  <2>4. QED  BY <1>5, <2>2, <2>3, AdmitNewborn DEF Operations, CallRemove, tables
<1>6. ASSUME NEW by \in Assocs, NEW rank \in Ranks \cup {NoRank}, CallInvite(j, by, rank)
      PROVE  Newborn(j)
  <2> DEFINE r == Ask("invite", by, "INVITE_USERS")
  <2>1. /\ r \in Request /\ r.op = "invite" /\ r.need = "INVITE_USERS"
        /\ r.pc = "authorize" /\ r.next = "read"
        /\ r.folk = {} /\ r.norm = "off"
    <3>1. "invite" \in Operations  BY DEF Operations
    <3>2. "INVITE_USERS" \in AllPermissions
      BY DEF AllPermissions, Permissions, MemberPermissions
    <3>3. QED  BY <1>6, <3>1, <3>2, AskFields
  <2> DEFINE p == [r EXCEPT !.invite = rank]
  <2> HIDE DEF r
  <2>2. /\ p \in Request /\ p.op = "invite" /\ p.need = "INVITE_USERS"
        /\ p.pc = "authorize" /\ p.next = "read"
        /\ p.folk = {} /\ p.norm = "off"
    BY <1>6, <2>1 DEF Request
  <2> HIDE DEF p
  <2>3. Admit(j, p)  BY <1>6 DEF CallInvite, p, r
  <2>4. QED  BY <1>6, <2>2, <2>3, AdmitNewborn DEF Operations, CallInvite, tables
<1>7. ASSUME NEW by \in Assocs, NEW rank \in Ranks \cup {NoRank}, CallUninvite(j, by, rank)
      PROVE  Newborn(j)
  <2> DEFINE r == Ask("uninvite", by, "REMOVE_USERS")
  <2>1. /\ r \in Request /\ r.op = "uninvite" /\ r.need = "REMOVE_USERS"
        /\ r.pc = "authorize" /\ r.next = "read"
        /\ r.folk = {} /\ r.norm = "off"
    <3>1. "uninvite" \in Operations  BY DEF Operations
    <3>2. "REMOVE_USERS" \in AllPermissions
      BY DEF AllPermissions, Permissions, MemberPermissions
    <3>3. QED  BY <1>7, <3>1, <3>2, AskFields
  <2> DEFINE p == [r EXCEPT !.invite = rank]
  <2> HIDE DEF r
  <2>2. /\ p \in Request /\ p.op = "uninvite" /\ p.need = "REMOVE_USERS"
        /\ p.pc = "authorize" /\ p.next = "read"
        /\ p.folk = {} /\ p.norm = "off"
    BY <1>7, <2>1 DEF Request
  <2> HIDE DEF p
  <2>3. Admit(j, p)  BY <1>7 DEF CallUninvite, p, r
  <2>4. QED  BY <1>7, <2>2, <2>3, AdmitNewborn DEF Operations, CallUninvite, tables
<1>8. ASSUME NEW by \in Assocs, NEW as \in SUBSET Assocs, CallAdd(j, by, as)
      PROVE  Newborn(j)
  <2> DEFINE r == Ask("add", by, "ADD_USERS")
  <2>1. /\ r \in Request /\ r.op = "add" /\ r.need = "ADD_USERS"
        /\ r.pc = "authorize" /\ r.next = "read"
        /\ r.folk = {} /\ r.norm = "off"
    <3>1. "add" \in Operations  BY DEF Operations
    <3>2. "ADD_USERS" \in AllPermissions
      BY DEF AllPermissions, Permissions, MemberPermissions
    <3>3. QED  BY <1>8, <3>1, <3>2, AskFields
  <2> DEFINE p == [r EXCEPT !.todo = as]
  <2> HIDE DEF r
  <2>2. /\ p \in Request /\ p.op = "add" /\ p.need = "ADD_USERS"
        /\ p.pc = "authorize" /\ p.next = "read"
        /\ p.folk = {} /\ p.norm = "off" /\ p.todo = as
    BY <1>8, <2>1 DEF Request
  <2> HIDE DEF p
  <2>3. Admit(j, p)  BY <1>8 DEF CallAdd, p, r
  <2>4. QED  BY <1>8, <2>2, <2>3, AdmitNewborn DEF Operations, CallAdd, Reserve
<1>9. ASSUME NEW a \in Assocs, NEW invite \in Ranks \cup {NoRank}, CallJoin(j, a, invite)
      PROVE  Newborn(j)
  <2> DEFINE p == [NoRequest EXCEPT !.op = "join", !.pc = "read", !.by = a,
                                    !.todo = {a}, !.invite = invite]
  <2>1. "join" \in Operations /\ "read" \in Points  BY DEF Operations, Points
  <2>2. /\ p \in Request /\ p.op = "join" /\ p.pc = "read" /\ p.todo = {a}
        /\ p.folk = {} /\ p.norm = "off"
    BY <1>a, <2>1, NoRequestType DEF Request
  <2>3. Admit(j, p)  BY <1>9 DEF CallJoin
  <2> HIDE DEF p
  <2>4. QED  BY <1>9, <2>2, <2>3, AdmitNewborn DEF Operations, CallJoin, Reserve
<1>10. ASSUME NEW by \in Assocs, NEW a \in Assocs, NEW rank \in Ranks,
             NEW map \in Maps, CallBot(j, by, a, rank, map)
      PROVE  Newborn(j)
  <2> DEFINE r == Ask("bot", by, "MANAGE_INTEGRATIONS")
  <2>1. /\ r \in Request /\ r.op = "bot" /\ r.need = "MANAGE_INTEGRATIONS"
        /\ r.pc = "authorize" /\ r.next = "read"
        /\ r.folk = {} /\ r.norm = "off"
    <3>1. "bot" \in Operations  BY DEF Operations
    <3>2. "MANAGE_INTEGRATIONS" \in AllPermissions
      BY DEF AllPermissions, Permissions, MemberPermissions
    <3>3. QED  BY <1>10, <3>1, <3>2, AskFields
  <2> DEFINE p == [r EXCEPT !.todo = {a}, !.fresh = rank, !.map = map]
  <2> HIDE DEF r
  <2>2. /\ p \in Request /\ p.op = "bot" /\ p.need = "MANAGE_INTEGRATIONS"
        /\ p.pc = "authorize" /\ p.next = "read"
        /\ p.folk = {} /\ p.norm = "off" /\ p.todo = {a} /\ p.fresh = rank
    BY <1>0, <1>10, <2>1 DEF Request
  <2> HIDE DEF p
  <2>3. Admit(j, p)  BY <1>10 DEF CallBot, p, r
  <2>4. QED  BY <1>10, <2>2, <2>3, AdmitNewborn DEF Operations, CallBot, tables
<1>11. ASSUME NEW by \in Assocs, NEW us \in SUBSET Users, CallKick(j, by, us)
      PROVE  Newborn(j)
  <2> DEFINE r == Ask("kick", by, "REMOVE_USERS")
  <2>1. /\ r \in Request /\ r.op = "kick" /\ r.need = "REMOVE_USERS"
        /\ r.pc = "authorize" /\ r.next = "read"
        /\ r.folk = {} /\ r.norm = "off"
    <3>1. "kick" \in Operations  BY DEF Operations
    <3>2. "REMOVE_USERS" \in AllPermissions
      BY DEF AllPermissions, Permissions, MemberPermissions
    <3>3. QED  BY <1>11, <3>1, <3>2, AskFields
  <2> DEFINE p == [r EXCEPT !.users = us]
  <2> HIDE DEF r
  <2>2. /\ p \in Request /\ p.op = "kick" /\ p.need = "REMOVE_USERS"
        /\ p.pc = "authorize" /\ p.next = "read"
        /\ p.folk = {} /\ p.norm = "off"
    BY <1>11, <2>1 DEF Request
  <2> HIDE DEF p
  <2>3. Admit(j, p)  BY <1>11 DEF CallKick, p, r
  <2>4. QED  BY <1>11, <2>2, <2>3, AdmitNewborn DEF Operations, CallKick, tables
<1>12. ASSUME NEW by \in Assocs, CallLeave(j, by)
       PROVE  Newborn(j)
  <2> DEFINE p == [NoRequest EXCEPT !.op = "leave", !.pc = "read", !.by = by]
  <2>1. "leave" \in Operations /\ "read" \in Points  BY DEF Operations, Points
  <2>2. /\ p \in Request /\ p.op = "leave" /\ p.pc = "read"
        /\ p.folk = {} /\ p.norm = "off"
    BY <1>a, <2>1, NoRequestType DEF Request
  <2>3. Admit(j, p)  BY <1>12 DEF CallLeave
  <2> HIDE DEF p
  <2>4. QED  BY <1>12, <2>2, <2>3, AdmitNewborn DEF Operations, CallLeave, tables
<1>13. ASSUME NEW by \in Assocs, CallDestroy(j, by)
      PROVE  Newborn(j)
  <2> DEFINE r == Ask("destroy", by, "OWNER")
  <2>1. /\ r \in Request /\ r.op = "destroy" /\ r.need = "OWNER"
        /\ r.pc = "authorize" /\ r.next = "read"
        /\ r.folk = {} /\ r.norm = "off"
    <3>1. "destroy" \in Operations  BY DEF Operations
    <3>2. "OWNER" \in AllPermissions
      BY DEF AllPermissions, Permissions, MemberPermissions
    <3>3. QED  BY <1>13, <3>1, <3>2, AskFields
  <2>2. QED  BY <1>13, <2>1, AdmitNewborn DEF Operations, CallDestroy, tables
<1>14. ASSUME NEW by \in Assocs, NEW target \in Assocs, CallTransfer(j, by, target)
      PROVE  Newborn(j)
  <2> DEFINE r == Ask("transfer", by, "OWNER")
  <2>1. /\ r \in Request /\ r.op = "transfer" /\ r.need = "OWNER"
        /\ r.pc = "authorize" /\ r.next = "read"
        /\ r.folk = {} /\ r.norm = "off"
    <3>1. "transfer" \in Operations  BY DEF Operations
    <3>2. "OWNER" \in AllPermissions
      BY DEF AllPermissions, Permissions, MemberPermissions
    <3>3. QED  BY <1>14, <3>1, <3>2, AskFields
  <2> DEFINE p == [r EXCEPT !.target = target]
  <2> HIDE DEF r
  <2>2. /\ p \in Request /\ p.op = "transfer" /\ p.need = "OWNER"
        /\ p.pc = "authorize" /\ p.next = "read"
        /\ p.folk = {} /\ p.norm = "off"
    BY <1>14, <2>1 DEF Request
  <2> HIDE DEF p
  <2>3. Admit(j, p)  BY <1>14 DEF CallTransfer, p, r
  <2>4. QED  BY <1>14, <2>2, <2>3, AdmitNewborn DEF Operations, CallTransfer, tables
<1>15. ASSUME NEW by \in Assocs, NEW need \in Checks, CallCheck(j, by, need)
      PROVE  Newborn(j)
  <2> DEFINE r == Ask("check", by, need)
  <2>1. /\ r \in Request /\ r.op = "check" /\ r.need = need
        /\ r.pc = "authorize" /\ r.next = "read"
        /\ r.folk = {} /\ r.norm = "off"
    <3>1. "check" \in Operations  BY DEF Operations
    <3>2. need \in AllPermissions
      BY <1>0, <1>15
    <3>3. QED  BY <1>15, <3>1, <3>2, AskFields
  <2> DEFINE p == [r EXCEPT !.next = "done"]
  <2> HIDE DEF r
  <2>2. /\ p \in Request /\ p.op = "check" /\ p.need = need
        /\ p.pc = "authorize" /\ p.next = "done"
        /\ p.folk = {} /\ p.norm = "off"
    BY <1>15, <2>1 DEF Request, Points
  <2> HIDE DEF p
  <2>3. Admit(j, p)  BY <1>15 DEF CallCheck, p, r
  <2>4. QED  BY <1>15, <2>2, <2>3, AdmitNewborn DEF Operations, CallCheck, tables
<1>16. QED
  BY <1>0, <1>1, <1>2, <1>3, <1>4, <1>5, <1>6, <1>7, <1>8, <1>9, <1>10, <1>11, <1>12,
     <1>13, <1>14, <1>15
  DEF Arrive

LEMMA ArriveShape ==
  ASSUME TypeOK, NEW j \in Jobs, Newborn(j), Shape(j)
  PROVE  Shape(j)'
BY DEF Newborn, Shape, PointsOf, Authorizes, Operations

------------------------------------------------------------------------------
(* The owner keeps a seat. *)

LEMMA Lone ==
  ASSUME NEW j \in Jobs, Frame(j), NEW S, excuses' \subseteq S, "overlap" \notin S
  PROVE  excuses \subseteq S /\ (Still \/ Alone(j))
BY DEF Frame

OwnerTame(j) ==
  /\ live \subseteq live' /\ owner' = owner /\ alive' = alive
  /\ job'[j].folk \subseteq job[j].folk
  /\ At(j, "transfer", "write")' => At(j, "transfer", "write") /\ job'[j].target = job[j].target
  /\ At(j, "destroy", "disband") => At(j, "destroy", "disband")'

LEMMA SparesOthers ==
  ASSUME Shapes, NEW j \in Jobs, Frame(j), NEW k \in Jobs \ {j}, Spares(k), Still \/ Alone(j)
  PROVE  Spares(k)'
<1>1. job'[k] = job[k]  BY DEF Frame
<1>2. CASE Still  BY <1>1, <1>2 DEF Still, Spares, At
<1>3. CASE Alone(j)
  <2>1. ~Busy(k) /\ Shape(k)  BY <1>3 DEF Alone, Shapes
  <2>2. job[k].folk = {} /\ job[k].op # "transfer"  BY <2>1 DEF Busy, Shape
  <2>3. QED  BY <1>1, <2>2 DEF Spares, At
<1>4. QED  BY <1>2, <1>3

LEMMA OwnerTameStep ==
  ASSUME Shapes, OwnerSeated, NEW j \in Jobs, Frame(j), OwnerTame(j)
  PROVE  OwnerSeated'
<1> SUFFICES ASSUME excuses' \subseteq {"half", "late"}
             PROVE  /\ \A k \in Jobs : Spares(k)'
                    /\ alive' /\ (\A k \in Jobs : ~At(k, "destroy", "disband")') =>
                         \E a \in live' : UserOf[a] = owner'
  BY DEF OwnerSeated
<1>1. excuses \subseteq {"half", "late"} /\ (Still \/ Alone(j))  BY Lone
<1>2. \A k \in Jobs \ {j} : Spares(k)'  BY <1>1, SparesOthers DEF OwnerSeated
<1>3. Spares(j)'
  BY <1>1 DEF OwnerTame, OwnerSeated, Spares, At
<1>4. ASSUME alive', \A k \in Jobs : ~At(k, "destroy", "disband")'
      PROVE  \E a \in live' : UserOf[a] = owner'
  <2>1. \A k \in Jobs : ~At(k, "destroy", "disband")
    BY <1>4 DEF OwnerTame, Frame, At
  <2>2. QED  BY <1>1, <1>4, <2>1 DEF OwnerTame, OwnerSeated
<1>5. QED  BY <1>2, <1>3, <1>4

LEMMA RankOwnerTame ==
  ASSUME TypeOK, NEW j \in Jobs, RankStep(j), Shape(j)
  PROVE  OwnerTame(j)
<1> USE DEF At, OwnerTame, Same, Kept, SameAim, tables, Shape, PointsOf, Authorizes
<1>1. CASE ToggleRead(j)  BY <1>1, ToggleReadFields DEF ToggleRead
<1>2. CASE ToggleAdd(j)  BY <1>2, GotoFields DEF ToggleAdd
<1>3. CASE ToggleTake(j)  BY <1>3, GotoFields DEF ToggleTake
<1>4. CASE UpdateRead(j)  BY <1>4, UpdateReadFields DEF UpdateRead
<1>5. CASE UpdateAdd(j)  BY <1>5, GotoFields DEF UpdateAdd
<1>6. CASE UpdateRemove(j)  BY <1>6, GotoFields DEF UpdateRemove
<1>7. CASE CreateRank(j)  BY <1>7, GotoFields DEF CreateRank
<1>8. CASE CreateGrants(j)  BY <1>8, CreateGrantsFields DEF CreateGrants
<1>9. CASE OrderRead(j)  BY <1>9, OrderReadFields DEF OrderRead
<1>10. CASE OrderMove(j)  BY <1>10, OrderMoveFields DEF OrderMove
<1>11. CASE OrderEnd(j)  BY <1>11, OrderEndFields DEF OrderEnd
<1>12. CASE RemoveRead(j)  BY <1>12, RemoveReadFields DEF RemoveRead
<1>13. CASE RemoveWrite(j)  BY <1>13, GotoFields DEF RemoveWrite
<1>14. CASE InviteRead(j)  BY <1>14, GotoFields DEF InviteRead
<1>15. CASE InviteWrite(j)  BY <1>15, GotoFields DEF InviteWrite
<1>16. CASE UninviteRead(j)  BY <1>16, GotoFields DEF UninviteRead
<1>17. CASE UninviteWrite(j)  BY <1>17, GotoFields DEF UninviteWrite
<1>18. QED
  BY <1>1, <1>2, <1>3, <1>4, <1>5, <1>6, <1>7, <1>8, <1>9, <1>10, <1>11, <1>12, <1>13,
     <1>14, <1>15, <1>16, <1>17 DEF RankStep

LEMMA MemberOwnerTame ==
  ASSUME TypeOK, NEW j \in Jobs, MemberStep(j), Shape(j),
         ~KickRead(j), ~LeaveRead(j), ~KickWrite(j), ~TransferRead(j), ~TransferWrite(j), ~Disband(j), ~DestroyWrite(j)
  PROVE  OwnerTame(j)
<1> USE DEF At, OwnerTame, Same, Kept, SameAim, tables, Shape, PointsOf, Authorizes
<1>1. CASE AddRead(j)  BY <1>1, GotoFields DEF AddRead
<1>2. CASE JoinRead(j)  BY <1>2, JoinReadFields DEF JoinRead
<1>3. CASE BotRead(j)  BY <1>3, GotoFields DEF BotRead
<1>4. CASE Seat(j)  BY <1>4, SeatFields DEF Seat
<1>5. CASE SeatRow(j)  BY <1>5, GotoFields DEF SeatRow
<1>6. CASE BotRank(j)  BY <1>6, BotRankFields DEF BotRank
<1>7. CASE BotRow(j)  BY <1>7, GotoFields DEF BotRow
<1>8. CASE BotGrants(j)  BY <1>8, GotoFields DEF BotGrants
<1>9. CASE Purge(j)  BY <1>9, PurgeFields DEF Purge
<1>10. CASE Unread(j)  BY <1>10, UnreadFields DEF Unread
<1>11. CASE TransferOther(j)  BY <1>11, GotoFields DEF TransferOther
<1>12. CASE DestroyRead(j)  BY <1>12, DestroyReadFields DEF DestroyRead
<1>13. QED
  BY <1>1, <1>2, <1>3, <1>4, <1>5, <1>6, <1>7, <1>8, <1>9, <1>10, <1>11, <1>12
     DEF MemberStep

LEMMA OtherOwnerTame ==
  ASSUME TypeOK, NEW j \in Jobs, CacheStep(j) \/ NormStep(j), Shape(j)
  PROVE  OwnerTame(j)
<1> USE DEF At, OwnerTame, Same, Kept, SameAim, tables, Shape, PointsOf, Authorizes
<1>1. CASE CheckHit(j) \/ CheckRead(j) \/ CheckWrite(j)
  <2>1. /\ job[j].pc \in {"authorize", "miss"}
        /\ job'[j].pc \in {"miss", "done", job[j].next} /\ Same(job'[j], job[j])
    BY <1>1, GotoFields DEF CheckHit, CheckRead, CheckWrite, Checking, Decide
  <2>2. job'[j].pc # "write" \/ job[j].op # "transfer"  BY <2>1
  <2>3. UNCHANGED tables  BY <1>1 DEF CheckHit, CheckRead, CheckWrite
  <2>4. QED  BY <2>1, <2>2, <2>3
<1>2. ASSUME NEW a \in Assocs, FillRead(j, a) \/ FillHit(j, a) \/ FillWrite(j, a)
      PROVE  OwnerTame(j)
  BY <1>2 DEF FillRead, FillHit, FillWrite
<1>3. CASE NormRead(j)  BY <1>3, NormReadFields DEF NormRead
<1>4. CASE NormWrite(j)  BY <1>4, NormWriteFields DEF NormWrite
<1>5. CASE NormUsers(j)  BY <1>5, NormUsersFields DEF NormUsers
<1>6. QED  BY <1>1, <1>2, <1>3, <1>4, <1>5 DEF CacheStep, NormStep

LEMMA KickReadOwner ==
  ASSUME TypeOK, Shapes, OwnerSeated, NEW j \in Jobs, Frame(j), KickRead(j)
  PROVE  OwnerSeated'
<1> SUFFICES ASSUME excuses' \subseteq {"half", "late"}
             PROVE  /\ \A k \in Jobs : Spares(k)'
                    /\ alive' /\ (\A k \in Jobs : ~At(k, "destroy", "disband")') =>
                         \E a \in live' : UserOf[a] = owner'
  BY DEF OwnerSeated
<1>1. /\ excuses \subseteq {"half", "late"} /\ (Still \/ Alone(j))
      /\ \A k \in Jobs : Spares(k)
      /\ alive /\ (\A k \in Jobs : ~At(k, "destroy", "disband")) =>
           \E a \in live : UserOf[a] = owner
  BY Lone DEF OwnerSeated
<1>2. \A k \in Jobs \ {j} : Spares(k)'  BY <1>1, SparesOthers
<1>3. job[j] \in Request /\ Shape(j)  BY JobType DEF Shapes
<1>4. Spares(j)'
  <2>1. \A a \in Removable(j) : UserOf[a] # owner  BY DEF Removable
  <2>2. job'[j].folk \in {job[j].folk, Removable(j)} /\ job'[j].op = "kick"
    BY KickReadFields DEF KickRead, At, Same, Kept, SameAim
  <2>3. owner' = owner  BY DEF KickRead, tables
  <2>4. QED  BY <1>1, <2>1, <2>2, <2>3 DEF Spares, At
<1>5. alive' /\ (\A k \in Jobs : ~At(k, "destroy", "disband")') =>
        \E a \in live' : UserOf[a] = owner'
  <2>1. job[j].op # "destroy"  BY DEF KickRead, At
  <2>2. (\A k \in Jobs : ~At(k, "destroy", "disband")') =>
          \A k \in Jobs : ~At(k, "destroy", "disband")
    BY <2>1 DEF Frame, At
  <2>3. QED  BY <1>1, <2>2 DEF KickRead, tables
<1>6. QED  BY <1>2, <1>4, <1>5

LEMMA LeaveReadOwner ==
  ASSUME TypeOK, Shapes, OwnerSeated, NEW j \in Jobs, Frame(j), LeaveRead(j)
  PROVE  OwnerSeated'
<1> SUFFICES ASSUME excuses' \subseteq {"half", "late"}
             PROVE  /\ \A k \in Jobs : Spares(k)'
                    /\ alive' /\ (\A k \in Jobs : ~At(k, "destroy", "disband")') =>
                         \E a \in live' : UserOf[a] = owner'
  BY DEF OwnerSeated
<1>1. /\ excuses \subseteq {"half", "late"} /\ (Still \/ Alone(j))
      /\ \A k \in Jobs : Spares(k)
      /\ alive /\ (\A k \in Jobs : ~At(k, "destroy", "disband")) =>
           \E a \in live : UserOf[a] = owner
  BY Lone DEF OwnerSeated
<1>2. \A k \in Jobs \ {j} : Spares(k)'  BY <1>1, SparesOthers
<1>3. job[j] \in Request /\ Shape(j)  BY JobType DEF Shapes
<1>4. Spares(j)'
  <2>1. \/ job'[j].folk = job[j].folk
        \/ job'[j].folk = {job[j].by} /\ UserOf[job[j].by] # owner
    <3>1. CASE UserOf[job[j].by] # owner
      BY <3>1, LeaveReadFields DEF Same, SameAim
    <3>2. CASE UserOf[job[j].by] = owner
      BY <3>2, GotoFields DEF LeaveRead, Same, SameAim
    <3>3. QED  BY <3>1, <3>2
  <2>2. job'[j].op = "leave"  BY LeaveReadFields DEF LeaveRead, At, Same, Kept
  <2>3. owner' = owner  BY DEF LeaveRead, tables
  <2>4. QED  BY <1>1, <2>1, <2>2, <2>3 DEF Spares, At
<1>5. alive' /\ (\A k \in Jobs : ~At(k, "destroy", "disband")') =>
        \E a \in live' : UserOf[a] = owner'
  <2>1. job[j].op # "destroy"  BY DEF LeaveRead, At
  <2>2. (\A k \in Jobs : ~At(k, "destroy", "disband")') =>
          \A k \in Jobs : ~At(k, "destroy", "disband")
    BY <2>1 DEF Frame, At
  <2>3. QED  BY <1>1, <2>2 DEF LeaveRead, tables
<1>6. QED  BY <1>2, <1>4, <1>5

LEMMA TransferReadOwner ==
  ASSUME TypeOK, Shapes, OwnerSeated, NEW j \in Jobs, Frame(j), TransferRead(j)
  PROVE  OwnerSeated'
<1> SUFFICES ASSUME excuses' \subseteq {"half", "late"}
             PROVE  /\ \A k \in Jobs : Spares(k)'
                    /\ alive' /\ (\A k \in Jobs : ~At(k, "destroy", "disband")') =>
                         \E a \in live' : UserOf[a] = owner'
  BY DEF OwnerSeated
<1>1. /\ excuses \subseteq {"half", "late"} /\ (Still \/ Alone(j))
      /\ \A k \in Jobs : Spares(k)
      /\ alive /\ (\A k \in Jobs : ~At(k, "destroy", "disband")) =>
           \E a \in live : UserOf[a] = owner
  BY Lone DEF OwnerSeated
<1>2. \A k \in Jobs \ {j} : Spares(k)'  BY <1>1, SparesOthers
<1>3. job[j] \in Request /\ Shape(j)  BY JobType DEF Shapes
<1>4. Spares(j)'
  <2>1. job'[j].folk = job[j].folk  BY TransferReadFields DEF Same, SameAim
  <2>2. At(j, "transfer", "write")' => job'[j].target \in live
    <3>1. job'[j].target = job[j].target  BY TransferReadFields DEF Same, SameAim
    <3>2. CASE job[j].target \in live  BY <3>1, <3>2
    <3>3. CASE job[j].target \notin live
      BY <3>3, GotoFields DEF TransferRead, At
    <3>4. QED  BY <3>2, <3>3
  <2>3. owner' = owner /\ live' = live  BY DEF TransferRead, tables
  <2>4. QED  BY <1>1, <2>1, <2>2, <2>3 DEF Spares
<1>5. alive' /\ (\A k \in Jobs : ~At(k, "destroy", "disband")') =>
        \E a \in live' : UserOf[a] = owner'
  <2>1. job[j].op # "destroy"  BY DEF TransferRead, At
  <2>2. (\A k \in Jobs : ~At(k, "destroy", "disband")') =>
          \A k \in Jobs : ~At(k, "destroy", "disband")
    BY <2>1 DEF Frame, At
  <2>3. QED  BY <1>1, <2>2 DEF TransferRead, tables
<1>6. QED  BY <1>2, <1>4, <1>5

LEMMA TransferWriteOwner ==
  ASSUME TypeOK, Shapes, OwnerSeated, NEW j \in Jobs, Frame(j), TransferWrite(j)
  PROVE  OwnerSeated'
<1> SUFFICES ASSUME excuses' \subseteq {"half", "late"}
             PROVE  /\ \A k \in Jobs : Spares(k)'
                    /\ alive' /\ (\A k \in Jobs : ~At(k, "destroy", "disband")') =>
                         \E a \in live' : UserOf[a] = owner'
  BY DEF OwnerSeated
<1>1. /\ excuses \subseteq {"half", "late"} /\ (Still \/ Alone(j))
      /\ \A k \in Jobs : Spares(k)
      /\ alive /\ (\A k \in Jobs : ~At(k, "destroy", "disband")) =>
           \E a \in live : UserOf[a] = owner
  BY Lone DEF OwnerSeated
<1>2. \A k \in Jobs \ {j} : Spares(k)'  BY <1>1, SparesOthers
<1>3. job[j] \in Request /\ Shape(j)  BY JobType DEF Shapes
<1>4. Spares(j)'
  <2>1. job'[j].folk = {} /\ job'[j].pc = "other"
    BY <1>3, GotoFields DEF TransferWrite, At, Shape, Same, SameAim
  <2>2. QED  BY <2>1 DEF Spares, At
<1>5. alive' /\ (\A k \in Jobs : ~At(k, "destroy", "disband")') =>
        \E a \in live' : UserOf[a] = owner'
  <2>1. (\A k \in Jobs : ~At(k, "destroy", "disband")') =>
          \A k \in Jobs : ~At(k, "destroy", "disband")
    BY DEF TransferWrite, Frame, At
  <2>2. job[j].target \in live  BY <1>1 DEF TransferWrite, Spares
  <2>3. live' = live /\ alive' = alive /\ owner' \in {owner, UserOf[job[j].target]}
    BY DEF TransferWrite
  <2>4. QED  BY <1>1, <2>1, <2>2, <2>3
<1>6. QED  BY <1>2, <1>4, <1>5

LEMMA KickWriteOwner ==
  ASSUME TypeOK, Shapes, OwnerSeated, NEW j \in Jobs, Frame(j), KickWrite(j)
  PROVE  OwnerSeated'
<1> SUFFICES ASSUME excuses' \subseteq {"half", "late"}
             PROVE  /\ \A k \in Jobs : Spares(k)'
                    /\ alive' /\ (\A k \in Jobs : ~At(k, "destroy", "disband")') =>
                         \E a \in live' : UserOf[a] = owner'
  BY DEF OwnerSeated
<1>1. /\ excuses \subseteq {"half", "late"} /\ (Still \/ Alone(j))
      /\ \A k \in Jobs : Spares(k)
      /\ alive /\ (\A k \in Jobs : ~At(k, "destroy", "disband")) =>
           \E a \in live : UserOf[a] = owner
  BY Lone DEF OwnerSeated
<1>2. \A k \in Jobs \ {j} : Spares(k)'  BY <1>1, SparesOthers
<1>3. job[j] \in Request /\ Shape(j)  BY JobType DEF Shapes
<1>0. job[j].op \in {"kick", "leave"} /\ owner' = owner /\ alive' = alive
      /\ live' = live \ job[j].folk /\ job'[j].folk = job[j].folk /\ job'[j].pc = "done"
  BY <1>3, GotoFields DEF KickWrite, Unseat, Shape, PointsOf, Authorizes, Same, SameAim
<1>4. Spares(j)'  BY <1>0, <1>1 DEF Spares, At
<1>5. alive' /\ (\A k \in Jobs : ~At(k, "destroy", "disband")') =>
        \E a \in live' : UserOf[a] = owner'
  <2>1. (\A k \in Jobs : ~At(k, "destroy", "disband")') =>
          \A k \in Jobs : ~At(k, "destroy", "disband")
    BY <1>0 DEF Frame, At
  <2>2. \A a \in live : UserOf[a] = owner => a \in live'  BY <1>0, <1>1 DEF Spares
  <2>3. QED  BY <1>0, <1>1, <2>1, <2>2
<1>6. QED  BY <1>2, <1>4, <1>5

LEMMA DisbandOwner ==
  ASSUME TypeOK, Shapes, OwnerSeated, NEW j \in Jobs, Frame(j), Disband(j)
  PROVE  OwnerSeated'
<1> SUFFICES ASSUME excuses' \subseteq {"half", "late"}
             PROVE  /\ \A k \in Jobs : Spares(k)'
                    /\ alive' /\ (\A k \in Jobs : ~At(k, "destroy", "disband")') =>
                         \E a \in live' : UserOf[a] = owner'
  BY DEF OwnerSeated
<1>1. /\ excuses \subseteq {"half", "late"} /\ (Still \/ Alone(j))
      /\ \A k \in Jobs : Spares(k)
      /\ alive /\ (\A k \in Jobs : ~At(k, "destroy", "disband")) =>
           \E a \in live : UserOf[a] = owner
  BY Lone DEF OwnerSeated
<1>2. \A k \in Jobs \ {j} : Spares(k)'  BY <1>1, SparesOthers
<1>3. job[j] \in Request /\ Shape(j)  BY JobType DEF Shapes
<1>4. job'[j].folk = {} /\ job'[j].op = "destroy" /\ job'[j].pc = "disband"
  <2>1. "ruin" \notin excuses'  OBVIOUS
  <2>2. job'[j].folk = {} /\ job'[j].op = "destroy"
    BY <1>3, DisbandFields DEF Disband, At, Shape, Kept
  <2>3. job'[j].pc = "disband"
    <3>1. PICK a \in job[j].todo :
            IF UserOf[a] \in HasUnread
            THEN Put(j, [job[j] EXCEPT !.todo = job[j].todo \ {a}])
            ELSE Excuse(OverlapExcuse(j) \cup {"ruin"})
      BY DEF Disband
    <3>2. job'[j] = [job[j] EXCEPT !.todo = job[j].todo \ {a}]
      BY <2>1, <3>1, PutFrame DEF Excuse
    <3>3. job[j].pc = "disband"  BY DEF Disband, At
    <3>4. QED  BY <1>3, <3>2, <3>3 DEF Request
  <2>4. QED  BY <2>2, <2>3
<1>5. Spares(j)' /\ At(j, "destroy", "disband")'  BY <1>4 DEF Spares, At
<1>6. QED  BY <1>2, <1>5

LEMMA DestroyWriteOwner ==
  ASSUME TypeOK, Shapes, OwnerSeated, NEW j \in Jobs, Frame(j), DestroyWrite(j)
  PROVE  OwnerSeated'
<1> SUFFICES ASSUME excuses' \subseteq {"half", "late"}
             PROVE  /\ \A k \in Jobs : Spares(k)'
                    /\ alive' /\ (\A k \in Jobs : ~At(k, "destroy", "disband")') =>
                         \E a \in live' : UserOf[a] = owner'
  BY DEF OwnerSeated
<1>1. /\ excuses \subseteq {"half", "late"} /\ (Still \/ Alone(j))
      /\ \A k \in Jobs : Spares(k)
      /\ alive /\ (\A k \in Jobs : ~At(k, "destroy", "disband")) =>
           \E a \in live : UserOf[a] = owner
  BY Lone DEF OwnerSeated
<1>2. \A k \in Jobs \ {j} : Spares(k)'  BY <1>1, SparesOthers
<1>3. job[j] \in Request /\ Shape(j)  BY JobType DEF Shapes
<1>4. job'[j].folk = {} /\ job'[j].op = "destroy" /\ alive' = FALSE
  BY <1>3, GotoFields DEF DestroyWrite, At, Shape, Same, Kept, SameAim, Excuse
<1>5. Spares(j)'  BY <1>4 DEF Spares, At
<1>6. QED  BY <1>2, <1>4, <1>5

LEMMA RunFrame ==
  ASSUME TypeOK, NEW j \in Jobs, Run(j), ~Finish(j), Shape(j)
  PROVE  Frame(j) /\ Shape(j)'
BY RankFrame, MemberFrame, CacheShape, NormShape, RankShape, MemberShape DEF Run

\* A step is the arrival of a request, a step of one, or its end.
LEMMA ShapesStep ==
  ASSUME TypeOK, Shapes, [Next]_vars
  PROVE  Shapes'
<1>1. ASSUME NEW j \in Jobs, Shape(j)', \A k \in Jobs \ {j} : job'[k] = job[k] /\ fill'[k] = fill[k]
      PROVE  Shapes'
  BY <1>1 DEF Shapes, Shape
<1>2. ASSUME NEW j \in Jobs, Arrive(j) PROVE Shapes'
  <2>1. Newborn(j) /\ Shape(j)  BY <1>2, ArriveNewborn DEF Shapes
  <2>2. Shape(j)'  BY <2>1, ArriveShape
  <2>3. QED  BY <1>1, <2>1, <2>2 DEF Newborn
<1>3. ASSUME NEW j \in Jobs, Run(j), ~Finish(j) PROVE Shapes'
  <2>1. Frame(j) /\ Shape(j)'  BY <1>3, RunFrame DEF Shapes
  <2>2. QED  BY <1>1, <2>1 DEF Frame
<1>4. ASSUME NEW j \in Jobs, Finish(j) \/ Crash(j) PROVE Shapes'
  BY <1>1, <1>4, EndShape
<1>5. CASE UNCHANGED vars  BY <1>5 DEF vars, Shapes, Shape
<1>6. QED  BY <1>2, <1>3, <1>4, <1>5 DEF Next

LEMMA ShapesInit ==
  ASSUME Initial
  PROVE  Shapes
BY DEF Initial, Init, Shapes, Shape, NoRequest, PointsOf

LEMMA OwnerSeatedStep ==
  ASSUME TypeOK, Shapes, OwnerSeated, [Next]_vars
  PROVE  OwnerSeated'
<1>1. ASSUME NEW j \in Jobs, Arrive(j) PROVE OwnerSeated'
  <2>1. Newborn(j)  BY <1>1, ArriveNewborn
  <2>2. \A k \in Jobs : Spares(k) => Spares(k)'
    BY <2>1 DEF Newborn, Spares, At
  <2>3. (\A k \in Jobs : ~At(k, "destroy", "disband")') =>
          \A k \in Jobs : ~At(k, "destroy", "disband")
    BY <2>1 DEF Newborn, At
  <2>4. QED  BY <2>1, <2>2, <2>3 DEF Newborn, OwnerSeated, history
<1>2. ASSUME NEW j \in Jobs, Run(j), ~Finish(j) PROVE OwnerSeated'
  <2>1. Shape(j)  BY DEF Shapes
  <2>2. Frame(j)  BY <1>2, <2>1, RunFrame
  <2>3. CASE KickRead(j)  BY <2>2, <2>3, KickReadOwner
  <2>4. CASE LeaveRead(j)  BY <2>2, <2>4, LeaveReadOwner
  <2>5. CASE KickWrite(j)  BY <2>2, <2>5, KickWriteOwner
  <2>6. CASE TransferRead(j)  BY <2>2, <2>6, TransferReadOwner
  <2>7. CASE TransferWrite(j)  BY <2>2, <2>7, TransferWriteOwner
  <2>8. CASE Disband(j)  BY <2>2, <2>8, DisbandOwner
  <2>9. CASE DestroyWrite(j)  BY <2>2, <2>9, DestroyWriteOwner
  <2>10. CASE OwnerTame(j)  BY <2>2, <2>10, OwnerTameStep
  <2>11. QED
    BY <1>2, <2>1, <2>3, <2>4, <2>5, <2>6, <2>7, <2>8, <2>9, <2>10,
       RankOwnerTame, MemberOwnerTame, OtherOwnerTame DEF Run
<1>3. ASSUME NEW j \in Jobs, Finish(j) PROVE OwnerSeated'
  <2>1. /\ job'[j] = NoRequest /\ \A k \in Jobs \ {j} : job'[k] = job[k]
        /\ UNCHANGED tables /\ excuses' = excuses
    BY <1>3, EndShape DEF Finish, history
  <2>2. \A k \in Jobs : Spares(k) => Spares(k)'
    BY <2>1 DEF Spares, At, NoRequest, tables
  <2>3. ~At(j, "destroy", "disband")
    BY <1>3 DEF Finish, Settled, At
  <2>4. (\A k \in Jobs : ~At(k, "destroy", "disband")') =>
          \A k \in Jobs : ~At(k, "destroy", "disband")
    BY <2>1, <2>3 DEF At
  <2>5. QED  BY <2>1, <2>2, <2>4 DEF OwnerSeated, tables
<1>4. ASSUME NEW j \in Jobs, Crash(j) PROVE OwnerSeated'
  BY <1>4 DEF Crash, Excuse, OwnerSeated
<1>5. CASE UNCHANGED vars
  BY <1>5 DEF vars, tables, history, OwnerSeated, Spares, At
<1>6. QED  BY <1>1, <1>2, <1>3, <1>4, <1>5 DEF Next

\* The owner of a group at rest is one of its members, whatever requests came, in
\* whatever order, as long as no request that changes the group overlapped another,
\* no worker died and no deleteGroup stopped half-way: removeUserFromChat and
\* leaveChat never pick the owner, transferGroupOwnership only picks a member.
THEOREM OwnerStaysMember == Spec => []OwnerIsMember
<1>1. Initial => TypeOK /\ Shapes /\ OwnerSeated
  <2>1. Initial => OwnerSeated
    BY AssocAssumption DEF Initial, Init, OwnerSeated, Spares, At, NoRequest
  <2>2. QED  BY <2>1, InitialType, ShapesInit
<1>2. TypeOK /\ Shapes /\ OwnerSeated /\ [Next]_vars => (Shapes /\ OwnerSeated)'
  BY ShapesStep, OwnerSeatedStep
<1>3. OwnerSeated => OwnerIsMember
  BY DEF OwnerSeated, OwnerIsMember, Quiet, At
<1>4. QED  BY <1>1, <1>2, <1>3, TypeCorrect, PTL DEF Spec

------------------------------------------------------------------------------
(* The ranks of a group at rest. *)

RankTame(j) ==
  /\ index' = index /\ ranks' = ranks
  /\ job'[j].norm = job[j].norm /\ job'[j].clash = job[j].clash
  /\ job'[j].op = job[j].op /\ job'[j].fresh = job[j].fresh
  /\ job[j].norm = "write" =>
       job'[j].queue = job[j].queue /\ job'[j].pos = job[j].pos /\ job'[j].loaded = job[j].loaded
  /\ At(j, "create", "grant")' = At(j, "create", "grant")
  /\ At(j, "order", "write") => At(j, "order", "write")'

LEMMA SteadyOthers ==
  ASSUME Shapes, NEW j \in Jobs, Frame(j), NEW k \in Jobs \ {j}, Steady(k), Still \/ Alone(j)
  PROVE  Steady(k)'
<1>1. job'[k] = job[k]  BY DEF Frame
<1>2. CASE Still  BY <1>1, <1>2 DEF Still, Steady, Sorted, Waits, At
<1>3. CASE Alone(j)
  <2>1. ~Busy(k) /\ Shape(k)  BY <1>3 DEF Alone, Shapes
  <2>2. job[k].norm = "off" /\ job[k].op # "create"
    BY <2>1 DEF Busy, Shape
  <2>3. QED  BY <1>1, <2>2 DEF Steady, At
<1>4. QED  BY <1>2, <1>3

LEMMA RankTameStep ==
  ASSUME Shapes, Ranked, NEW j \in Jobs, Frame(j), RankTame(j)
  PROVE  Ranked'
<1> SUFFICES ASSUME excuses' \subseteq {"half", "late", "ruin"}
             PROVE  /\ \A k \in Jobs : Steady(k)'
                    /\ Strict' \/ \E k \in Jobs : Disturbs(k)'
  BY DEF Ranked
<1>1. excuses \subseteq {"half", "late", "ruin"} /\ (Still \/ Alone(j))  BY Lone
<1>2. \A k \in Jobs \ {j} : Steady(k)'  BY <1>1, SteadyOthers DEF Ranked
<1>3. Steady(j)'
  <2>1. Steady(j)  BY <1>1 DEF Ranked
  <2>2. /\ index' = index /\ ranks' = ranks
        /\ job'[j].norm = job[j].norm /\ job'[j].clash = job[j].clash
    BY DEF RankTame
  <2>3. CASE job[j].norm = "write"
    <3>1. job'[j].queue = job[j].queue /\ job'[j].pos = job[j].pos /\ job'[j].loaded = job[j].loaded
      BY <2>3 DEF RankTame
    <3>2. Sorted(j)  BY <2>1, <2>3 DEF Steady
    <3>3. Sorted(j)'  BY <2>2, <3>1, <3>2 DEF Sorted, Waits
    <3>4. ~At(j, "create", "grant")'  BY <2>3 DEF RankTame, Shapes, Shape, At
    <3>5. QED  BY <2>1, <2>2, <2>3, <3>1, <3>3, <3>4 DEF Steady
  <2>4. CASE job[j].norm # "write"
    <3>1. At(j, "create", "grant")' => At(j, "create", "grant") /\ job'[j].fresh = job[j].fresh
      BY DEF RankTame
    <3>2. QED  BY <2>1, <2>2, <2>4, <3>1 DEF Steady
  <2>5. QED  BY <2>3, <2>4
<1>4. \A k \in Jobs : Disturbs(k) => Disturbs(k)'
  BY DEF RankTame, Frame, Disturbs, At
<1>5. Strict => Strict'  BY DEF RankTame, Strict
<1>6. QED  BY <1>1, <1>2, <1>3, <1>4, <1>5 DEF Ranked

LEMMA RankStepTame ==
  ASSUME TypeOK, NEW j \in Jobs, RankStep(j), Shape(j),
         ~CreateRank(j), ~CreateGrants(j), ~OrderMove(j), ~OrderEnd(j), ~RemoveWrite(j)
  PROVE  RankTame(j)
<1> USE DEF At, RankTame, Same, Kept, SameSort, tables, Shape, PointsOf, Authorizes
<1>1. CASE ToggleRead(j)  BY <1>1, ToggleReadFields DEF ToggleRead
<1>2. CASE ToggleAdd(j)  BY <1>2, GotoFields DEF ToggleAdd
<1>3. CASE ToggleTake(j)  BY <1>3, GotoFields DEF ToggleTake
<1>4. CASE UpdateRead(j)  BY <1>4, UpdateReadFields DEF UpdateRead
<1>5. CASE UpdateAdd(j)  BY <1>5, GotoFields DEF UpdateAdd
<1>6. CASE UpdateRemove(j)  BY <1>6, GotoFields DEF UpdateRemove
<1>7. CASE OrderRead(j)  BY <1>7, OrderReadFields DEF OrderRead
<1>8. CASE RemoveRead(j)  BY <1>8, RemoveReadFields DEF RemoveRead
<1>9. CASE InviteRead(j)  BY <1>9, GotoFields DEF InviteRead
<1>10. CASE InviteWrite(j)  BY <1>10, GotoFields DEF InviteWrite
<1>11. CASE UninviteRead(j)  BY <1>11, GotoFields DEF UninviteRead
<1>12. CASE UninviteWrite(j)  BY <1>12, GotoFields DEF UninviteWrite
<1>13. QED
  BY <1>1, <1>2, <1>3, <1>4, <1>5, <1>6, <1>7, <1>8, <1>9, <1>10, <1>11, <1>12 DEF RankStep

LEMMA MemberStepTame ==
  ASSUME TypeOK, NEW j \in Jobs, MemberStep(j), Shape(j),
         ~BotRank(j), ~DestroyWrite(j)
  PROVE  RankTame(j)
<1> USE DEF At, RankTame, Same, Kept, SameSort, tables, Shape, PointsOf, Authorizes
<1>1. CASE AddRead(j)  BY <1>1, GotoFields DEF AddRead
<1>2. CASE JoinRead(j)  BY <1>2, JoinReadFields DEF JoinRead
<1>3. CASE BotRead(j)  BY <1>3, GotoFields DEF BotRead
<1>4. CASE Seat(j)  BY <1>4, SeatFields DEF Seat
<1>5. CASE SeatRow(j)  BY <1>5, GotoFields DEF SeatRow
<1>6. CASE BotRow(j)  BY <1>6, GotoFields DEF BotRow
<1>7. CASE BotGrants(j)  BY <1>7, GotoFields DEF BotGrants
<1>8. CASE KickRead(j)  BY <1>8, KickReadFields DEF KickRead
<1>9. CASE LeaveRead(j)  BY <1>9, LeaveReadFields DEF LeaveRead
<1>10. CASE Purge(j)  BY <1>10, PurgeFields DEF Purge
<1>11. CASE Unread(j)  BY <1>11, UnreadFields DEF Unread
<1>12. CASE KickWrite(j)  BY <1>12, GotoFields DEF KickWrite
<1>13. CASE TransferRead(j)  BY <1>13, TransferReadFields DEF TransferRead
<1>14. CASE TransferWrite(j)  BY <1>14, GotoFields DEF TransferWrite
<1>15. CASE TransferOther(j)  BY <1>15, GotoFields DEF TransferOther
<1>16. CASE DestroyRead(j)  BY <1>16, DestroyReadFields DEF DestroyRead
<1>17. CASE Disband(j)  BY <1>17, DisbandFields DEF Disband
<1>18. QED
  BY <1>1, <1>2, <1>3, <1>4, <1>5, <1>6, <1>7, <1>8, <1>9, <1>10, <1>11, <1>12, <1>13,
     <1>14, <1>15, <1>16, <1>17 DEF MemberStep

LEMMA CacheStepTame ==
  ASSUME TypeOK, NEW j \in Jobs, CacheStep(j), Shape(j)
  PROVE  RankTame(j)
<1> USE DEF At, RankTame, Same, Kept, SameSort, tables, Shape, PointsOf, Authorizes
<1>1. CASE CheckHit(j) \/ CheckRead(j) \/ CheckWrite(j)
  <2>1. /\ job[j].pc \in {"authorize", "miss"}
        /\ job'[j].pc \in {"miss", "done", job[j].next} /\ Same(job'[j], job[j])
    BY <1>1, GotoFields DEF CheckHit, CheckRead, CheckWrite, Checking, Decide
  <2>2. job'[j].pc # "grant" \/ job[j].op # "create"  BY <2>1
  <2>3. UNCHANGED tables  BY <1>1 DEF CheckHit, CheckRead, CheckWrite
  <2>4. QED  BY <2>1, <2>2, <2>3
<1>2. ASSUME NEW a \in Assocs, FillRead(j, a) \/ FillHit(j, a) \/ FillWrite(j, a)
      PROVE  RankTame(j)
  BY <1>2 DEF FillRead, FillHit, FillWrite
<1>3. QED  BY <1>1, <1>2 DEF CacheStep

LEMMA CreateRankRanked ==
  ASSUME TypeOK, Shapes, Ranked, NEW j \in Jobs, Frame(j), CreateRank(j)
  PROVE  Ranked'
<1> SUFFICES ASSUME excuses' \subseteq {"half", "late", "ruin"}
             PROVE  /\ \A k \in Jobs : Steady(k)'
                    /\ Strict' \/ \E k \in Jobs : Disturbs(k)'
  BY DEF Ranked
<1>1. /\ excuses \subseteq {"half", "late", "ruin"} /\ (Still \/ Alone(j))
      /\ \A k \in Jobs : Steady(k)
      /\ Strict \/ \E k \in Jobs : Disturbs(k)
  BY Lone DEF Ranked
<1>2. \A k \in Jobs \ {j} : Steady(k)' /\ (Disturbs(k) => Disturbs(k)')
  BY <1>1, SteadyOthers DEF Frame, Disturbs, At
<1>3. job[j] \in Request /\ Shape(j)  BY JobType DEF Shapes
<1>4. job[j].norm = "off" /\ job'[j].norm = "off"
  BY <1>3, GotoFields DEF CreateRank, At, Shape, Same, SameSort
<1>5. CASE Seated(job[j].by)
  <2>1. At(j, "create", "grant")' /\ job'[j].fresh \in ranks'
    BY <1>5, GotoFields DEF CreateRank, At, Same, Kept
  <2>2. QED  BY <1>2, <1>4, <2>1 DEF Steady, Disturbs
<1>6. CASE ~Seated(job[j].by)
  <2>1. job'[j].pc = "done" /\ ranks' = ranks /\ index' = index
    BY <1>6, GotoFields DEF CreateRank
  <2>2. ~Disturbs(j)  BY <1>4 DEF CreateRank, Disturbs, At
  <2>3. Strict => Strict'  BY <2>1 DEF Strict
  <2>4. QED  BY <1>1, <1>2, <1>4, <2>1, <2>2, <2>3 DEF Steady, At
<1>7. QED  BY <1>5, <1>6

LEMMA CreateGrantsRanked ==
  ASSUME TypeOK, Shapes, Ranked, NEW j \in Jobs, Frame(j), CreateGrants(j)
  PROVE  Ranked'
<1> SUFFICES ASSUME excuses' \subseteq {"half", "late", "ruin"}
             PROVE  /\ \A k \in Jobs : Steady(k)'
                    /\ Strict' \/ \E k \in Jobs : Disturbs(k)'
  BY DEF Ranked
<1>1. /\ excuses \subseteq {"half", "late", "ruin"} /\ (Still \/ Alone(j))
      /\ \A k \in Jobs : Steady(k)
      /\ Strict \/ \E k \in Jobs : Disturbs(k)
  BY Lone DEF Ranked
<1>2. \A k \in Jobs \ {j} : Steady(k)' /\ (Disturbs(k) => Disturbs(k)')
  BY <1>1, SteadyOthers DEF Frame, Disturbs, At
<1>3. job[j] \in Request /\ Shape(j)  BY JobType DEF Shapes
<1>4. job[j].fresh \in ranks  BY <1>1 DEF CreateGrants, Steady
<1>5. job'[j].norm = "read" /\ job'[j].pc = "done"  BY <1>4, CreateGrantsFields
<1>6. QED  BY <1>2, <1>5 DEF Steady, Disturbs, At

LEMMA OrderMoveRanked ==
  ASSUME TypeOK, Shapes, Ranked, NEW j \in Jobs, Frame(j), OrderMove(j)
  PROVE  Ranked'
<1> SUFFICES ASSUME excuses' \subseteq {"half", "late", "ruin"}
             PROVE  /\ \A k \in Jobs : Steady(k)'
                    /\ Strict' \/ \E k \in Jobs : Disturbs(k)'
  BY DEF Ranked
<1>1. /\ excuses \subseteq {"half", "late", "ruin"} /\ (Still \/ Alone(j))
      /\ \A k \in Jobs : Steady(k)
      /\ Strict \/ \E k \in Jobs : Disturbs(k)
  BY Lone DEF Ranked
<1>2. \A k \in Jobs \ {j} : Steady(k)' /\ (Disturbs(k) => Disturbs(k)')
  BY <1>1, SteadyOthers DEF Frame, Disturbs, At
<1>3. job[j] \in Request /\ Shape(j)  BY JobType DEF Shapes
<1>4. job'[j].norm = "off" /\ At(j, "order", "write")'
  BY <1>3, OrderMoveFields DEF OrderMove, At, Shape, Kept
<1>5. QED  BY <1>2, <1>4 DEF Steady, Disturbs, At

LEMMA OrderEndRanked ==
  ASSUME TypeOK, Shapes, Ranked, NEW j \in Jobs, Frame(j), OrderEnd(j)
  PROVE  Ranked'
<1> SUFFICES ASSUME excuses' \subseteq {"half", "late", "ruin"}
             PROVE  /\ \A k \in Jobs : Steady(k)'
                    /\ Strict' \/ \E k \in Jobs : Disturbs(k)'
  BY DEF Ranked
<1>1. /\ excuses \subseteq {"half", "late", "ruin"} /\ (Still \/ Alone(j))
      /\ \A k \in Jobs : Steady(k)
      /\ Strict \/ \E k \in Jobs : Disturbs(k)
  BY Lone DEF Ranked
<1>2. \A k \in Jobs \ {j} : Steady(k)' /\ (Disturbs(k) => Disturbs(k)')
  BY <1>1, SteadyOthers DEF Frame, Disturbs, At
<1>3. job[j] \in Request /\ Shape(j)  BY JobType DEF Shapes
<1>4. job'[j].norm = "read" /\ job'[j].pc = "done"  BY OrderEndFields
<1>5. QED  BY <1>2, <1>4 DEF Steady, Disturbs, At

LEMMA BotRankRanked ==
  ASSUME TypeOK, Shapes, Ranked, NEW j \in Jobs, Frame(j), BotRank(j)
  PROVE  Ranked'
<1> SUFFICES ASSUME excuses' \subseteq {"half", "late", "ruin"}
             PROVE  /\ \A k \in Jobs : Steady(k)'
                    /\ Strict' \/ \E k \in Jobs : Disturbs(k)'
  BY DEF Ranked
<1>1. /\ excuses \subseteq {"half", "late", "ruin"} /\ (Still \/ Alone(j))
      /\ \A k \in Jobs : Steady(k)
      /\ Strict \/ \E k \in Jobs : Disturbs(k)
  BY Lone DEF Ranked
<1>2. \A k \in Jobs \ {j} : Steady(k)' /\ (Disturbs(k) => Disturbs(k)')
  BY <1>1, SteadyOthers DEF Frame, Disturbs, At
<1>3. job[j] \in Request /\ Shape(j)  BY JobType DEF Shapes
<1>4. job'[j].pc # "grant"  BY BotRankFields
<1>5. CASE job'[j].norm = "read"  BY <1>2, <1>4, <1>5 DEF Steady, Disturbs, At
<1>6. CASE job'[j].norm # "read"
  <2>1. ranks' = ranks /\ index' = index
    <3>1. CASE job[j].target \in live
      <4>1. job'[j] = [job[j] EXCEPT !.pc = "botrow", !.norm = "read"]
        BY <3>1, PutFrame DEF BotRank
      <4>2. QED  BY <1>3, <1>6, <4>1 DEF Request
    <3>2. CASE job[j].target \notin live  BY <3>2 DEF BotRank
    <3>3. QED  BY <3>1, <3>2
  <2>2. job[j].norm = "off" /\ job'[j].norm = "off"
    BY <1>3, <1>6, BotRankFields DEF BotRank, At, Shape
  <2>3. ~Disturbs(j)  BY <2>2 DEF BotRank, Disturbs, At
  <2>4. Strict => Strict'  BY <2>1 DEF Strict
  <2>5. QED  BY <1>1, <1>2, <1>4, <2>2, <2>3, <2>4 DEF Steady, At
<1>7. QED  BY <1>5, <1>6

LEMMA RemoveWriteRanked ==
  ASSUME TypeOK, Shapes, Ranked, NEW j \in Jobs, Frame(j), RemoveWrite(j)
  PROVE  Ranked'
<1> SUFFICES ASSUME excuses' \subseteq {"half", "late", "ruin"}
             PROVE  /\ \A k \in Jobs : Steady(k)'
                    /\ Strict' \/ \E k \in Jobs : Disturbs(k)'
  BY DEF Ranked
<1>1. /\ excuses \subseteq {"half", "late", "ruin"} /\ (Still \/ Alone(j))
      /\ \A k \in Jobs : Steady(k)
      /\ Strict \/ \E k \in Jobs : Disturbs(k)
  BY Lone DEF Ranked
<1>2. \A k \in Jobs \ {j} : Steady(k)' /\ (Disturbs(k) => Disturbs(k)')
  BY <1>1, SteadyOthers DEF Frame, Disturbs, At
<1>3. job[j] \in Request /\ Shape(j)  BY JobType DEF Shapes
<1>4. ranks' \subseteq ranks /\ index' = index  BY DEF RemoveWrite
<1>5. job[j].norm = "off" /\ job'[j].norm = "off" /\ job'[j].pc = "done"
  BY <1>3, GotoFields DEF RemoveWrite, At, Shape, Same, SameSort
<1>6. ~Disturbs(j)  BY <1>5 DEF RemoveWrite, Disturbs, At
<1>7. Strict => Strict'  BY <1>4 DEF Strict
<1>8. QED  BY <1>1, <1>2, <1>5, <1>6, <1>7 DEF Steady, At

LEMMA DestroyWriteRanked ==
  ASSUME TypeOK, Shapes, Ranked, NEW j \in Jobs, Frame(j), DestroyWrite(j)
  PROVE  Ranked'
<1> SUFFICES ASSUME excuses' \subseteq {"half", "late", "ruin"}
             PROVE  /\ \A k \in Jobs : Steady(k)'
                    /\ Strict' \/ \E k \in Jobs : Disturbs(k)'
  BY DEF Ranked
<1>1. /\ excuses \subseteq {"half", "late", "ruin"} /\ (Still \/ Alone(j))
      /\ \A k \in Jobs : Steady(k)
      /\ Strict \/ \E k \in Jobs : Disturbs(k)
  BY Lone DEF Ranked
<1>2. \A k \in Jobs \ {j} : Steady(k)' /\ (Disturbs(k) => Disturbs(k)')
  BY <1>1, SteadyOthers DEF Frame, Disturbs, At
<1>3. job[j] \in Request /\ Shape(j)  BY JobType DEF Shapes
<1>4. ranks' \subseteq ranks /\ index' = index  BY DEF DestroyWrite
<1>5. job[j].norm = "off" /\ job'[j].norm = "off" /\ job'[j].pc = "done"
  BY <1>3, GotoFields DEF DestroyWrite, At, Shape, Same, SameSort
<1>6. ~Disturbs(j)  BY <1>5 DEF DestroyWrite, Disturbs, At
<1>7. Strict => Strict'  BY <1>4 DEF Strict
<1>8. QED  BY <1>1, <1>2, <1>5, <1>6, <1>7 DEF Steady, At

\* normalizeIndexes: what the list of ranks still to visit says.
LEMMA ListingAll ==
  ASSUME TypeOK, NEW s \in [1..Cardinality(ranks) -> ranks],
         \A i, n \in DOMAIN s : i < n => s[i] # s[n]
  PROVE  {s[i] : i \in DOMAIN s} = ranks
<1>1. IsFiniteSet(ranks) /\ Cardinality(ranks) \in Nat
  BY RankAssumption, FS_Subset, FS_CardinalityType DEF TypeOK, TablesOK
<1>2. SUFFICES ASSUME NEW r \in ranks, \A i \in DOMAIN s : s[i] # r
               PROVE  FALSE
  OBVIOUS
<1> DEFINE n == Cardinality(ranks)
<1>3. IsFiniteSet(ranks \ {r}) /\ Cardinality(ranks \ {r}) = n - 1
  BY <1>1, FS_RemoveElement
<1>4. IsFiniteSet(1..n) /\ Cardinality(1..n) = n
  BY <1>1, FS_Interval
<1>5. s \in Injection(1..n, ranks \ {r})
  <2>1. s \in [1..n -> ranks \ {r}]  BY <1>2
  <2>2. \A i, k \in 1..n : s[i] = s[k] => i = k
    BY <1>1
  <2>3. QED  BY <2>1, <2>2 DEF Injection, IsInjective
<1>6. n <= n - 1
  BY <1>3, <1>4, <1>5, FS_Injection DEF ExistsInjection
<1>7. QED  BY <1>1, <1>6

LEMMA TailWaits ==
  ASSUME NEW s \in Seq(Ranks), s # <<>>,
         \A i, n \in DOMAIN s : i < n => s[i] # s[n]
  PROVE  /\ Head(s) \in {s[i] : i \in DOMAIN s}
         /\ {Tail(s)[i] : i \in DOMAIN Tail(s)} = {s[i] : i \in DOMAIN s} \ {Head(s)}
         /\ \A i, n \in DOMAIN Tail(s) : i < n => Tail(s)[i] # Tail(s)[n]
<1>1. /\ Len(s) \in Nat \ {0} /\ DOMAIN s = 1..Len(s) /\ Head(s) = s[1]
      /\ DOMAIN Tail(s) = 1..(Len(s) - 1)
      /\ \A i \in 1..(Len(s) - 1) : Tail(s)[i] = s[i + 1]
  BY HeadTailProperties
<1>2. Head(s) \in {s[i] : i \in DOMAIN s}  BY <1>1
<1>3. \A i \in DOMAIN Tail(s) : i + 1 \in DOMAIN s /\ 1 < i + 1 /\ Tail(s)[i] = s[i + 1]
  BY <1>1
<1>4. \A i \in DOMAIN s : i = 1 \/ (i - 1 \in DOMAIN Tail(s) /\ Tail(s)[i - 1] = s[i])
  <2>1. SUFFICES ASSUME NEW i \in DOMAIN s, i # 1
                 PROVE  i - 1 \in DOMAIN Tail(s) /\ Tail(s)[i - 1] = s[i]
    OBVIOUS
  <2>2. i - 1 \in DOMAIN Tail(s) /\ (i - 1) + 1 = i  BY <1>1, <2>1
  <2>3. QED  BY <1>3, <2>2
<1>5. \A i \in DOMAIN Tail(s) : Tail(s)[i] # Head(s)
  BY <1>1, <1>3
<1>6. {Tail(s)[i] : i \in DOMAIN Tail(s)} = {s[i] : i \in DOMAIN s} \ {Head(s)}
  <2>1. \A i \in DOMAIN Tail(s) : Tail(s)[i] \in {s[k] : k \in DOMAIN s} \ {Head(s)}
    BY <1>3, <1>5
  <2>2. \A i \in DOMAIN s : s[i] # Head(s) => s[i] \in {Tail(s)[k] : k \in DOMAIN Tail(s)}
    BY <1>1, <1>4
  <2>3. QED  BY <2>1, <2>2
<1>7. \A i, n \in DOMAIN Tail(s) : i < n => Tail(s)[i] # Tail(s)[n]
  BY <1>1, <1>3
<1>8. QED  BY <1>2, <1>6, <1>7

LEMMA HeadLeaves ==
  ASSUME NEW p, NEW q, q.queue \in Seq(Ranks), q.queue # <<>>, p.queue = Tail(q.queue),
         \A i, n \in DOMAIN q.queue : i < n => q.queue[i] # q.queue[n]
  PROVE  /\ Head(q.queue) \in Waits(q)
         /\ Waits(p) = Waits(q) \ {Head(q.queue)}
         /\ \A i, n \in DOMAIN Tail(q.queue) : i < n => Tail(q.queue)[i] # Tail(q.queue)[n]
<1> DEFINE s == q.queue
<1>1. /\ s \in Seq(Ranks) /\ s # <<>> /\ p.queue = Tail(s)
      /\ \A i, n \in DOMAIN s : i < n => s[i] # s[n]
  OBVIOUS
<1>2. Waits(q) = {s[i] : i \in DOMAIN s}  BY DEF Waits
<1> HIDE DEF s
<1>3. Waits(p) = {Tail(s)[i] : i \in DOMAIN Tail(s)}  BY <1>1 DEF Waits
<1>4. /\ Head(s) \in {s[i] : i \in DOMAIN s}
      /\ {Tail(s)[i] : i \in DOMAIN Tail(s)} = {s[i] : i \in DOMAIN s} \ {Head(s)}
      /\ \A i, n \in DOMAIN Tail(s) : i < n => Tail(s)[i] # Tail(s)[n]
  BY <1>1, TailWaits
<1>5. /\ Head(s) \in Waits(q) /\ Waits(p) = Waits(q) \ {Head(s)}
      /\ \A i, n \in DOMAIN Tail(s) : i < n => Tail(s)[i] # Tail(s)[n]
  BY <1>2, <1>3, <1>4
<1>6. QED  BY <1>5 DEF s

LEMMA NormReadRanked ==
  ASSUME TypeOK, Shapes, Ranked, NEW j \in Jobs, Frame(j), NormRead(j)
  PROVE  Ranked'
<1> SUFFICES ASSUME excuses' \subseteq {"half", "late", "ruin"}
             PROVE  /\ \A k \in Jobs : Steady(k)'
                    /\ Strict' \/ \E k \in Jobs : Disturbs(k)'
  BY DEF Ranked
<1>1. /\ excuses \subseteq {"half", "late", "ruin"} /\ (Still \/ Alone(j))
      /\ \A k \in Jobs : Steady(k)
      /\ Strict \/ \E k \in Jobs : Disturbs(k)
  BY Lone DEF Ranked
<1>2. \A k \in Jobs \ {j} : Steady(k)' /\ (Disturbs(k) => Disturbs(k)')
  BY <1>1, SteadyOthers DEF Frame, Disturbs, At
<1>3. job[j] \in Request /\ Shape(j)  BY JobType DEF Shapes
<1>4. PICK s \in Listings : job'[j].queue = s
  BY NormReadFields
<1>5. /\ job'[j].norm = "write" /\ job'[j].pos = 0 /\ job'[j].loaded = index
      /\ job'[j].pc = job[j].pc /\ job'[j].op = job[j].op
      /\ index' = index /\ ranks' = ranks
  BY NormReadFields DEF NormRead, Kept, tables
<1>6. /\ s \in [1..Cardinality(ranks) -> ranks]
      /\ \A i, n \in DOMAIN s : i < n => s[i] # s[n] /\ s[n] # Managed
  BY DEF Listings
<1>7. {s[i] : i \in DOMAIN s} = ranks  BY <1>6, ListingAll
<1>8. Managed \in ranks => Head(s) = Managed
  <2>1. SUFFICES ASSUME Managed \in ranks PROVE s[1] = Managed
    <3>1. Cardinality(ranks) \in Nat
      BY RankAssumption, FS_Subset, FS_CardinalityType DEF TypeOK, TablesOK
    <3>2. s \in Seq(ranks)  BY <1>6, <3>1
    <3>3. QED  BY <1>7, <3>2, HeadTailProperties
  <2>2. PICK i \in DOMAIN s : s[i] = Managed  BY <1>7, <2>1
  <2>3. Cardinality(ranks) \in Nat
    BY RankAssumption, FS_Subset, FS_CardinalityType DEF TypeOK, TablesOK
  <2>4. 1 \in DOMAIN s /\ ~(1 < i) /\ i \in 1..Cardinality(ranks)  BY <1>6, <2>2, <2>3
  <2>5. QED  BY <2>2, <2>3, <2>4
<1>9. Sorted(j)'
  <2>1. Waits(job'[j]) = ranks'  BY <1>4, <1>5, <1>7 DEF Waits
  <2>2. QED  BY <1>4, <1>5, <1>6, <1>8, <2>1 DEF Sorted
<1>10. Steady(j)'
  <2>1. At(j, "create", "grant") = At(j, "create", "grant")'  BY <1>5 DEF At
  <2>2. job'[j].fresh = job[j].fresh  BY NormReadFields DEF Kept
  <2>3. QED  BY <1>1, <1>5, <1>9, <2>1, <2>2 DEF Steady
<1>11. Disturbs(j)'  BY <1>5 DEF Disturbs
<1>12. QED  BY <1>2, <1>10, <1>11

LEMMA NormWriteRanked ==
  ASSUME TypeOK, Shapes, Ranked, NEW j \in Jobs, Frame(j), NormWrite(j)
  PROVE  Ranked'
<1> SUFFICES ASSUME excuses' \subseteq {"half", "late", "ruin"}
             PROVE  /\ \A k \in Jobs : Steady(k)'
                    /\ Strict' \/ \E k \in Jobs : Disturbs(k)'
  BY DEF Ranked
<1>1. /\ excuses \subseteq {"half", "late", "ruin"} /\ (Still \/ Alone(j))
      /\ \A k \in Jobs : Steady(k)
      /\ Strict \/ \E k \in Jobs : Disturbs(k)
  BY Lone DEF Ranked
<1>2. \A k \in Jobs \ {j} : Steady(k)' /\ (Disturbs(k) => Disturbs(k)')
  BY <1>1, SteadyOthers DEF Frame, Disturbs, At
<1>3. job[j] \in Request /\ Shape(j)  BY JobType DEF Shapes
<1> DEFINE q == job[j]
           r == Head(q.queue)
<1>4. /\ job'[j].norm = "write" /\ job'[j].queue = Tail(q.queue)
      /\ job'[j].pos = q.pos + 1 /\ job'[j].loaded = q.loaded
      /\ job'[j].pc = q.pc /\ job'[j].op = q.op /\ job'[j].clash = q.clash
  BY NormWriteFields DEF Kept
<1>5. Sorted(j)  BY <1>1 DEF NormWrite, Steady
<1>6. /\ q.queue \in Seq(Ranks) /\ q.queue # <<>> /\ q.pos \in Nat
      /\ index \in [Ranks -> Int] /\ ranks \subseteq Ranks
  BY <1>3 DEF NormWrite, Request, TypeOK, TablesOK
<1>7. /\ r \in Waits(q)
      /\ Waits(job'[j]) = Waits(q) \ {r}
      /\ \A i, n \in DOMAIN Tail(q.queue) : i < n => Tail(q.queue)[i] # Tail(q.queue)[n]
  <2>1. \A i, n \in DOMAIN q.queue : i < n => q.queue[i] # q.queue[n]  BY <1>5 DEF Sorted
  <2>2. QED  BY <1>4, <1>6, <2>1, HeadLeaves
<1>8. /\ r \in ranks /\ ranks' = ranks
      /\ index'[r] = q.pos /\ \A s \in Ranks \ {r} : index'[s] = index[s]
  BY <1>5, <1>6, <1>7 DEF Sorted, NormWrite
<1>9. Sorted(j)'
  <2>1. \A s \in Waits(job'[j]) : s \in ranks /\ q.loaded[s] = index'[s]
    BY <1>5, <1>6, <1>7, <1>8 DEF Sorted
  <2>2. \A s \in ranks \ Waits(job'[j]) : 0 <= index'[s] /\ index'[s] < q.pos + 1
    <3> TAKE s \in ranks \ Waits(job'[j])
    <3>1. CASE s = r  BY <1>6, <1>8, <3>1
    <3>2. CASE s # r
      <4>1. s \in ranks \ Waits(q)  BY <1>7, <3>2
      <4>2. 0 <= index[s] /\ index[s] < q.pos /\ index[s] \in Int
        BY <1>5, <1>6, <4>1 DEF Sorted
      <4>3. QED  BY <1>6, <1>8, <3>2, <4>2
    <3>3. QED  BY <3>1, <3>2
  <2>3. \A s, u \in ranks \ Waits(job'[j]) : s # u => index'[s] # index'[u]
    <3>1. \A s \in ranks \ Waits(q) : index[s] < q.pos  BY <1>5 DEF Sorted
    <3>2. \A s \in ranks \ Waits(q) : s # r /\ index'[s] # q.pos
      BY <1>6, <1>7, <1>8, <3>1
    <3>3. \A s, u \in ranks \ Waits(q) : s # u => index'[s] # index'[u]
      BY <1>5, <1>6, <1>8, <3>2 DEF Sorted
    <3>4. QED  BY <1>7, <1>8, <3>2, <3>3
  <2>4. Managed \in ranks \ Waits(job'[j]) => index'[Managed] = 0
    <3>1. CASE Managed = r  BY <1>5, <1>7, <1>8, <3>1 DEF Sorted
    <3>2. CASE Managed # r  BY <1>5, <1>6, <1>7, <1>8, <3>2 DEF Sorted
    <3>3. QED  BY <3>1, <3>2
  <2>5. Managed \notin Waits(job'[j])  BY <1>5, <1>7 DEF Sorted
  <2>6. QED  BY <1>4, <1>7, <1>8, <2>1, <2>2, <2>3, <2>4, <2>5 DEF Sorted
<1>10. ~q.clash
  <2>1. Wrote(j)  BY DEF NormWrite
  <2>2. QED  BY <2>1, AloneWrote DEF Alone
<1>11. Steady(j)'
  <2>1. job[j].pc # "grant"  BY <1>3 DEF NormWrite, Shape
  <2>2. QED  BY <1>4, <1>9, <1>10, <2>1 DEF Steady, At
<1>12. Disturbs(j)'  BY <1>4 DEF Disturbs
<1>13. QED  BY <1>2, <1>11, <1>12

LEMMA NormUsersRanked ==
  ASSUME TypeOK, Shapes, Ranked, NEW j \in Jobs, Frame(j), NormUsers(j)
  PROVE  Ranked'
<1> SUFFICES ASSUME excuses' \subseteq {"half", "late", "ruin"}
             PROVE  /\ \A k \in Jobs : Steady(k)'
                    /\ Strict' \/ \E k \in Jobs : Disturbs(k)'
  BY DEF Ranked
<1>1. /\ excuses \subseteq {"half", "late", "ruin"} /\ (Still \/ Alone(j))
      /\ \A k \in Jobs : Steady(k)
      /\ Strict \/ \E k \in Jobs : Disturbs(k)
  BY Lone DEF Ranked
<1>2. \A k \in Jobs \ {j} : Steady(k)' /\ (Disturbs(k) => Disturbs(k)')
  BY <1>1, SteadyOthers DEF Frame, Disturbs, At
<1>3. job[j] \in Request /\ Shape(j)  BY JobType DEF Shapes
<1>4. /\ job'[j].norm = "users" /\ job'[j].clash = job[j].clash
      /\ job'[j].pc = job[j].pc /\ index' = index /\ ranks' = ranks
  BY NormUsersFields DEF NormUsers, Kept, tables
<1>5. Sorted(j) /\ (job[j].clash => job[j].pos = 0)  BY <1>1 DEF NormUsers, Steady
<1>6. Waits(job[j]) = {}  BY DEF NormUsers, Waits
<1>7. \A r \in ranks : index[r] \in Int  BY DEF TypeOK, TablesOK
<1>8. Strict'
  <2>1. \A r, s \in ranks : r # s => index[r] # index[s]  BY <1>5, <1>6 DEF Sorted
  <2>2. Managed \in ranks => index[Managed] = 0  BY <1>5, <1>6 DEF Sorted
  <2>3. \A s \in ranks : 0 <= index[s]  BY <1>5, <1>6 DEF Sorted
  <2>4. \A s \in ranks : Managed \in ranks /\ s # Managed => index[Managed] < index[s]
    BY <1>7, <2>1, <2>2, <2>3
  <2>5. QED  BY <1>4, <2>1, <2>4 DEF Strict
<1>9. job[j].clash => ranks = {}
  <2>1. \A r \in ranks : 0 <= index[r] /\ index[r] < job[j].pos  BY <1>5, <1>6 DEF Sorted
  <2>2. QED  BY <1>5, <1>7, <2>1
<1>10. Steady(j)'
  <2>1. job[j].pc # "grant"  BY <1>3 DEF NormUsers, Shape
  <2>2. QED  BY <1>4, <1>9, <2>1 DEF Steady, At
<1>11. QED  BY <1>2, <1>8, <1>10

LEMMA RankedStep ==
  ASSUME TypeOK, Shapes, Ranked, [Next]_vars
  PROVE  Ranked'
<1>1. ASSUME NEW j \in Jobs, Arrive(j) PROVE Ranked'
  <2>1. Newborn(j)  BY <1>1, ArriveNewborn
  <2>2. \A k \in Jobs \ {j} : job'[k] = job[k]  BY <2>1 DEF Newborn
  <2>3. ranks' = ranks /\ index' = index /\ excuses' = excuses  BY <2>1 DEF Newborn, history
  <2>4. \A k \in Jobs \ {j} : (Steady(k) => Steady(k)') /\ (Disturbs(k) => Disturbs(k)')
    BY <2>2, <2>3 DEF Steady, Sorted, Waits, At, Disturbs
  <2>5. job[j].norm = "off" /\ ~Disturbs(j)
    BY <2>1 DEF Newborn, Shapes, Shape, NoRequest, Disturbs, At
  <2>6. Steady(j)'  BY <2>1 DEF Newborn, Steady, At
  <2>7. Strict => Strict'  BY <2>3 DEF Strict
  <2>8. QED  BY <2>3, <2>4, <2>5, <2>6, <2>7 DEF Ranked
<1>2. ASSUME NEW j \in Jobs, Run(j), ~Finish(j) PROVE Ranked'
  <2>1. Shape(j)  BY DEF Shapes
  <2>2. Frame(j)  BY <1>2, <2>1, RunFrame
  <2>3. CASE CreateRank(j)  BY <2>2, <2>3, CreateRankRanked
  <2>4. CASE CreateGrants(j)  BY <2>2, <2>4, CreateGrantsRanked
  <2>5. CASE OrderMove(j)  BY <2>2, <2>5, OrderMoveRanked
  <2>6. CASE OrderEnd(j)  BY <2>2, <2>6, OrderEndRanked
  <2>7. CASE RemoveWrite(j)  BY <2>2, <2>7, RemoveWriteRanked
  <2>8. CASE BotRank(j)  BY <2>2, <2>8, BotRankRanked
  <2>9. CASE DestroyWrite(j)  BY <2>2, <2>9, DestroyWriteRanked
  <2>10. CASE NormStep(j)
    BY <2>2, <2>10, NormReadRanked, NormWriteRanked, NormUsersRanked DEF NormStep
  <2>11. CASE RankTame(j)  BY <2>2, <2>11, RankTameStep
  <2>12. QED
    BY <1>2, <2>1, <2>3, <2>4, <2>5, <2>6, <2>7, <2>8, <2>9, <2>10, <2>11,
       RankStepTame, MemberStepTame, CacheStepTame DEF Run
<1>3. ASSUME NEW j \in Jobs, Finish(j) PROVE Ranked'
  <2>1. /\ job'[j] = NoRequest /\ \A k \in Jobs \ {j} : job'[k] = job[k]
        /\ UNCHANGED tables /\ excuses' = excuses
    BY <1>3, EndShape DEF Finish, history
  <2>2. \A k \in Jobs \ {j} : (Steady(k) => Steady(k)') /\ (Disturbs(k) => Disturbs(k)')
    BY <2>1 DEF Steady, Sorted, Waits, At, Disturbs, tables
  <2>3. Steady(j)'  BY <2>1 DEF Steady, At, NoRequest
  <2>4. ~Disturbs(j)  BY <1>3 DEF Finish, Settled, Disturbs, At
  <2>5. Strict => Strict'  BY <2>1 DEF Strict, tables
  <2>6. QED  BY <2>1, <2>2, <2>3, <2>4, <2>5 DEF Ranked
<1>4. ASSUME NEW j \in Jobs, Crash(j) PROVE Ranked'
  BY <1>4 DEF Crash, Excuse, Ranked
<1>5. CASE UNCHANGED vars
  BY <1>5 DEF vars, tables, history, Ranked, Steady, Sorted, Waits, Strict, Disturbs, At
<1>6. QED  BY <1>1, <1>2, <1>3, <1>4, <1>5 DEF Next

LEMMA RankedInit ==
  ASSUME Initial
  PROVE  Ranked
<1>1. /\ ranks = {Managed, Administrators} /\ index[Managed] = 0 /\ index[Administrators] = 1
      /\ \A k \in Jobs : job[k] = NoRequest
  BY RankAssumption DEF Initial, Init
<1>2. Strict  BY <1>1, RankAssumption DEF Strict
<1>3. \A k \in Jobs : Steady(k)  BY <1>1 DEF Steady, At, NoRequest
<1>4. QED  BY <1>2, <1>3 DEF Ranked

\* The ranks of a group at rest have distinct indexes and the managed rank has the
\* lowest, for every number of ranks and requests, as long as no request that changes
\* the group overlapped another and no worker died: whatever addChatRank, addBotToChat
\* and a half-done updateChatRankOrder leave, the normalizeIndexes each of them starts
\* puts right before the group is at rest.
THEOREM HierarchyStaysStrict == Spec => []HierarchyIsStrict
<1>1. Initial => TypeOK /\ Shapes /\ Ranked  BY InitialType, ShapesInit, RankedInit
<1>2. TypeOK /\ Shapes /\ Ranked /\ [Next]_vars => (Shapes /\ Ranked)'
  BY ShapesStep, RankedStep
<1>3. Shapes /\ Ranked => HierarchyIsStrict
  <2> SUFFICES ASSUME Shapes, Ranked, Quiet, excuses \subseteq {"half", "late", "ruin"}
               PROVE  Strict
    BY DEF HierarchyIsStrict, Strict
  <2>1. \A k \in Jobs : ~Disturbs(k)
    BY DEF Quiet, Shapes, Shape, NoRequest, Disturbs, At
  <2>2. QED  BY <2>1 DEF Ranked
<1>4. QED  BY <1>1, <1>2, <1>3, TypeCorrect, PTL DEF Spec

------------------------------------------------------------------------------
(* A reordering keeps below what was below. *)

LEMMA OrderedOthers ==
  ASSUME Shapes, NEW j \in Jobs, Frame(j), NEW k \in Jobs \ {j}, Ordered(k), Still \/ Alone(j)
  PROVE  Ordered(k)'
<1>1. job'[k] = job[k]  BY DEF Frame
<1>2. CASE Still
  BY <1>1, <1>2 DEF Still, Ordered, Moved, Placed, Placing, Below, Waits, Strict
<1>3. CASE Alone(j)
  <2>1. job[k].op # "order"  BY <1>3 DEF Alone, Busy
  <2>2. QED  BY <1>1, <2>1 DEF Ordered
<1>4. QED  BY <1>2, <1>3

\* The steps of a reordering.
LEMMA OrderSteps ==
  ASSUME TypeOK, NEW j \in Jobs, Run(j), ~Finish(j), Shape(j), job[j].op = "order"
  PROVE  OrderRead(j) \/ OrderMove(j) \/ OrderEnd(j) \/ CacheStep(j) \/ NormStep(j)
<1> USE DEF At, Shape, PointsOf, Authorizes
<1>1. ~MemberStep(j)
  BY DEF MemberStep, AddRead, JoinRead, BotRead, Seat, SeatRow, BotRank, BotRow, BotGrants,
     KickRead, LeaveRead, Purge, Unread, KickWrite, TransferRead, TransferWrite, TransferOther,
     DestroyRead, Disband, DestroyWrite
<1>2. RankStep(j) => OrderRead(j) \/ OrderMove(j) \/ OrderEnd(j)
  BY DEF RankStep, ToggleRead, ToggleAdd, ToggleTake, UpdateRead, UpdateAdd, UpdateRemove,
     CreateRank, CreateGrants, RemoveRead, RemoveWrite, InviteRead, InviteWrite,
     UninviteRead, UninviteWrite
<1>3. QED  BY <1>1, <1>2 DEF Run

LEMMA OtherSteps ==
  ASSUME TypeOK, NEW j \in Jobs, Run(j), ~Finish(j), Shape(j), job[j].op # "order"
  PROVE  job'[j].op # "order"
<1>1. CASE RankTame(j)  BY <1>1 DEF RankTame
<1>2. CASE CreateRank(j) \/ RemoveWrite(j) \/ DestroyWrite(j)
  BY <1>2, GotoFields DEF CreateRank, RemoveWrite, DestroyWrite, Same, Kept
<1>3. CASE CreateGrants(j)  BY <1>3, CreateGrantsFields DEF Kept
<1>4. CASE OrderMove(j) \/ OrderEnd(j)  BY <1>4 DEF OrderMove, OrderEnd, At
<1>5. CASE BotRank(j)  BY <1>5, BotRankFields DEF Kept
<1>6. CASE NormStep(j)
  BY <1>6, NormReadFields, NormWriteFields, NormUsersFields DEF NormStep, Kept
<1>7. QED
  BY <1>1, <1>2, <1>3, <1>4, <1>5, <1>6, RankStepTame, MemberStepTame, CacheStepTame DEF Run

LEMMA OrderReadOrdered ==
  ASSUME TypeOK, NEW j \in Jobs, Shape(j), Steady(j), Ordered(j), job[j].op = "order", OrderRead(j)
  PROVE  Ordered(j)'
<1>0. job[j] \in Request  BY JobType
<1>1. ranks' = ranks /\ index' = index /\ job[j].norm = "off"
  BY DEF OrderRead, tables, Shape, At
<1>2. CASE job'[j].pc = "done"
  BY <1>1, <1>2, OrderReadFields DEF Ordered, Same, SameSort
<1>3. CASE job'[j].pc # "done"
  <2>1. /\ job'[j].pc = "write" /\ job'[j].snap = index /\ job'[j].norm = "off"
        /\ job'[j].clash = job[j].clash
    BY <1>1, <1>3, OrderReadFields DEF Kept
  <2>2. ~job[j].clash => Strict  BY DEF Ordered, OrderRead, At
  <2>3. ~job[j].clash => \A r \in ranks : r # Managed /\ Managed \in ranks => index[Managed] < index[r]
    BY <2>2 DEF Strict
  <2>4. Moved(j)'  BY <1>1, <2>1 DEF Moved
  <2>5. QED  BY <1>1, <2>1, <2>3, <2>4 DEF Ordered
<1>4. QED  BY <1>2, <1>3

LEMMA OrderMoveOrdered ==
  ASSUME TypeOK, NEW j \in Jobs, Shape(j), Steady(j), Ordered(j), job[j].op = "order", OrderMove(j)
  PROVE  Ordered(j)'
<1>0. job[j] \in Request  BY JobType
<1> DEFINE q == job[j]
           r == Head(q.queue)
           n == PlaceIn(q.order, r)
<1>1. /\ job'[j].pc = "write" /\ job'[j].norm = "off" /\ job[j].norm = "off"
      /\ job'[j].snap = q.snap /\ job'[j].highest = q.highest /\ job'[j].by = q.by
      /\ job'[j].chatOwner = q.chatOwner /\ job'[j].clash = q.clash /\ q.pc = "write"
  BY OrderMoveFields DEF OrderMove, At, Shape, Kept, SameSight
<1>2. ranks' = ranks /\ ranks \subseteq Ranks /\ index \in [Ranks -> Int]
  BY DEF OrderMove, TypeOK, TablesOK
<1>3. index' = IF r \in ranks /\ q.snap[r] # n THEN [index EXCEPT ![r] = n] ELSE index
  BY DEF OrderMove
<1>4. UserOf[q.by] # q.chatOwner /\ Moved(j) => Moved(j)'
  <2> SUFFICES ASSUME UserOf[q.by] # q.chatOwner, Moved(j), NEW s \in ranks,
                      index'[s] # q.snap[s]
               PROVE  index'[s] < q.highest /\ q.snap[s] < q.highest
    BY <1>1, <1>2 DEF Moved
  <2>1. CASE index'[s] = index[s]  BY <2>1 DEF Moved
  <2>2. CASE index'[s] # index[s]
    <3>1. s = r /\ index'[s] = n /\ q.snap[r] # n  BY <1>2, <1>3, <2>2
    <3>2. n < q.highest /\ q.snap[r] < q.highest
      BY <3>1 DEF OrderMove, MayMove
    <3>3. QED  BY <3>1, <3>2
  <2>3. QED  BY <2>1, <2>2
<1>5. QED  BY <1>1, <1>2, <1>4 DEF Ordered

LEMMA OrderEndOrdered ==
  ASSUME TypeOK, NEW j \in Jobs, Shape(j), Steady(j), Ordered(j), job[j].op = "order", OrderEnd(j)
  PROVE  Ordered(j)'
<1>0. job[j] \in Request  BY JobType
<1> DEFINE q == job[j]
<1>1. /\ job'[j].pc = "done" /\ job'[j].norm = "read"
      /\ job'[j].snap = q.snap /\ job'[j].highest = q.highest /\ job'[j].by = q.by
      /\ job'[j].chatOwner = q.chatOwner /\ job'[j].clash = q.clash /\ q.pc = "write"
  BY OrderEndFields DEF OrderEnd, At, Kept, SameSight
<1>2. /\ ranks' = ranks /\ index' = index
      /\ \A r \in ranks : index[r] \in Int /\ q.snap[r] \in Int
      /\ q.highest \in Int
  BY <1>0 DEF OrderEnd, tables, TypeOK, TablesOK, Request
<1>3. SUFFICES ASSUME ~q.clash, UserOf[q.by] # q.chatOwner
               PROVE  Placed(j)'
  BY <1>1 DEF Ordered
<1>4. SUFFICES ASSUME NEW r \in ranks, NEW s \in ranks, Below(q, r, s)
               PROVE  r # Managed /\ index[s] < index[r]
  BY <1>1, <1>2 DEF Placed, Below
<1>5. Moved(j) /\ (s # Managed /\ Managed \in ranks => q.snap[Managed] < q.snap[s])
  BY <1>1, <1>3 DEF Ordered
<1>6. q.snap[r] >= q.highest /\ q.snap[s] < q.snap[r]  BY <1>4 DEF Below
<1>7. r # Managed  BY <1>2, <1>5, <1>6
<1>8. index[r] = q.snap[r]  BY <1>2, <1>5, <1>6 DEF Moved
<1>9. index[s] = q.snap[s] \/ index[s] < q.highest  BY <1>5 DEF Moved
<1>10. QED  BY <1>2, <1>6, <1>7, <1>8, <1>9

LEMMA NormReadOrdered ==
  ASSUME TypeOK, NEW j \in Jobs, Shape(j), Steady(j), Ordered(j), job[j].op = "order", NormRead(j)
  PROVE  Ordered(j)'
<1>0. job[j] \in Request  BY JobType
<1> DEFINE q == job[j]
<1>1. PICK l \in Listings : job'[j].queue = l
  BY NormReadFields
<1>2. /\ job'[j].norm = "write" /\ job'[j].pc = q.pc /\ q.pc = "done"
      /\ job'[j].snap = q.snap /\ job'[j].highest = q.highest /\ job'[j].by = q.by
      /\ job'[j].chatOwner = q.chatOwner /\ job'[j].clash = q.clash
      /\ ranks' = ranks /\ index' = index
  BY NormReadFields DEF NormRead, Shape, Kept, SameSight, tables
<1>3. /\ l \in [1..Cardinality(ranks) -> ranks]
      /\ \A i, n \in DOMAIN l : i < n =>
           l[i] # l[n] /\ l[n] # Managed /\ (l[i] # Managed => index[l[i]] <= index[l[n]])
  BY DEF Listings
<1>4. {l[i] : i \in DOMAIN l} = ranks  BY <1>3, ListingAll
<1>5. SUFFICES ASSUME ~q.clash, UserOf[q.by] # q.chatOwner
               PROVE  Placing(j)'
  BY <1>2 DEF Ordered
<1>6. Placed(j)  BY <1>5 DEF NormRead, Ordered
<1>7. Waits(job'[j]) = ranks  BY <1>1, <1>4 DEF Waits
<1>8. ASSUME NEW r \in ranks, NEW s \in ranks, Below(q, r, s),
             NEW i \in DOMAIN l, NEW n \in DOMAIN l, l[i] = s, l[n] = r
      PROVE  i < n
  <2>1. r # Managed /\ index[s] < index[r]  BY <1>6, <1>8 DEF Placed
  <2>2. index[s] \in Int /\ index[r] \in Int  BY DEF TypeOK, TablesOK
  <2>3. i \in Int /\ n \in Int  BY <1>3
  <2>4. i # n  BY <1>8, <2>1, <2>2
  <2>5. ~(n < i)  BY <1>3, <1>8, <2>1, <2>2
  <2>6. QED  BY <2>3, <2>4, <2>5
<1>9. \A r, s \in ranks : Below(q, r, s) => r # Managed  BY <1>6 DEF Placed
<1>10. QED  BY <1>1, <1>2, <1>7, <1>8, <1>9 DEF Placing, Below

LEMMA NormWriteOrdered ==
  ASSUME TypeOK, NEW j \in Jobs, Shape(j), Steady(j), Ordered(j), job[j].op = "order", NormWrite(j)
  PROVE  Ordered(j)'
<1>0. job[j] \in Request  BY JobType
<1> DEFINE q == job[j]
           h == Head(q.queue)
<1>1. /\ job'[j].norm = "write" /\ job'[j].queue = Tail(q.queue)
      /\ job'[j].pc = q.pc /\ q.pc = "done"
      /\ job'[j].snap = q.snap /\ job'[j].highest = q.highest /\ job'[j].by = q.by
      /\ job'[j].chatOwner = q.chatOwner /\ job'[j].clash = q.clash
  BY NormWriteFields DEF NormWrite, Shape, Kept, SameSight
<1>2. Sorted(j)  BY DEF NormWrite, Steady
<1>3. /\ q.queue \in Seq(Ranks) /\ q.queue # <<>> /\ q.pos \in Nat
      /\ index \in [Ranks -> Int] /\ ranks \subseteq Ranks
  BY <1>0 DEF NormWrite, Request, TypeOK, TablesOK
<1>4. /\ h \in Waits(q) /\ Waits(job'[j]) = Waits(q) \ {h}
  <2>1. \A i, n \in DOMAIN q.queue : i < n => q.queue[i] # q.queue[n]  BY <1>2 DEF Sorted
  <2>2. QED  BY <1>1, <1>3, <2>1, HeadLeaves
<1>5. /\ ranks' = ranks
      /\ index'[h] = q.pos /\ \A s \in Ranks \ {h} : index'[s] = index[s]
  BY <1>2, <1>3, <1>4 DEF Sorted, NormWrite
<1>6. SUFFICES ASSUME ~q.clash, UserOf[q.by] # q.chatOwner
               PROVE  Placing(j)'
  BY <1>1 DEF Ordered
<1>7. SUFFICES ASSUME NEW r \in ranks, NEW s \in ranks, Below(q, r, s)
      PROVE  /\ r # Managed
             /\ s \notin Waits(job'[j]) /\ r \notin Waits(job'[j]) => index'[s] < index'[r]
             /\ s \in Waits(job'[j]) => r \in Waits(job'[j])
             /\ \A i, n \in DOMAIN Tail(q.queue) :
                  Tail(q.queue)[i] = s /\ Tail(q.queue)[n] = r => i < n
  BY <1>1, <1>5 DEF Placing, Below
<1>8. /\ r # Managed
      /\ s \notin Waits(q) /\ r \notin Waits(q) => index[s] < index[r]
      /\ s \in Waits(q) => r \in Waits(q)
      /\ \A i, n \in DOMAIN q.queue : q.queue[i] = s /\ q.queue[n] = r => i < n
  BY <1>6, <1>7 DEF NormWrite, Ordered, Placing
<1>9. /\ Len(q.queue) \in Nat \ {0} /\ DOMAIN q.queue = 1..Len(q.queue) /\ h = q.queue[1]
      /\ DOMAIN Tail(q.queue) = 1..(Len(q.queue) - 1)
      /\ \A i \in 1..(Len(q.queue) - 1) : Tail(q.queue)[i] = q.queue[i + 1]
  BY <1>3, HeadTailProperties
<1>10. s # r
  <2>1. q.snap[r] \in Int  BY <1>0, <1>3 DEF Request
  <2>2. QED  BY <1>7, <2>1 DEF Below
<1>11. s \notin Waits(job'[j]) /\ r \notin Waits(job'[j]) => index'[s] < index'[r]
  <2> SUFFICES ASSUME s \notin Waits(job'[j]), r \notin Waits(job'[j])
               PROVE  index'[s] < index'[r]
    OBVIOUS
  <2>1. s \notin Waits(q)  BY <1>4, <1>8, <1>10
  <2>2. CASE r = h
    <3>1. index[s] < q.pos  BY <1>2, <2>1 DEF Sorted
    <3>2. QED  BY <1>3, <1>5, <1>10, <2>2, <3>1
  <2>3. CASE r # h
    <3>1. r \notin Waits(q) /\ s # h  BY <1>4, <2>1, <2>3
    <3>2. QED  BY <1>3, <1>5, <1>8, <2>1, <2>3, <3>1
  <2>4. QED  BY <2>2, <2>3
<1>12. s \in Waits(job'[j]) => r \in Waits(job'[j])
  <2> SUFFICES ASSUME s \in Waits(q), s # h PROVE r # h
    BY <1>4, <1>8
  <2>1. PICK i \in DOMAIN q.queue : q.queue[i] = s  BY DEF Waits
  <2>2. 1 \in DOMAIN q.queue /\ ~(i < 1)  BY <1>9
  <2>3. QED  BY <1>8, <1>9, <2>1, <2>2
<1>13. ASSUME NEW i \in DOMAIN Tail(q.queue), NEW n \in DOMAIN Tail(q.queue),
              Tail(q.queue)[i] = s, Tail(q.queue)[n] = r
       PROVE  i < n
  <2>1. /\ i + 1 \in DOMAIN q.queue /\ n + 1 \in DOMAIN q.queue
        /\ q.queue[i + 1] = s /\ q.queue[n + 1] = r
    BY <1>9, <1>13
  <2>2. i + 1 < n + 1  BY <1>8, <2>1
  <2>3. QED  BY <1>9, <2>2
<1>14. QED  BY <1>8, <1>11, <1>12, <1>13

LEMMA NormUsersOrdered ==
  ASSUME TypeOK, NEW j \in Jobs, Shape(j), Steady(j), Ordered(j), job[j].op = "order", NormUsers(j)
  PROVE  Ordered(j)'
<1>0. job[j] \in Request  BY JobType
<1> DEFINE q == job[j]
<1>1. /\ job'[j].norm = "users" /\ job'[j].pc = q.pc /\ q.pc = "done"
      /\ job'[j].snap = q.snap /\ job'[j].highest = q.highest /\ job'[j].by = q.by
      /\ job'[j].chatOwner = q.chatOwner /\ job'[j].clash = q.clash
      /\ ranks' = ranks /\ index' = index
  BY NormUsersFields DEF NormUsers, Shape, Kept, SameSight, tables
<1>2. Waits(q) = {}  BY DEF NormUsers, Waits
<1>3. ~q.clash /\ UserOf[q.by] # q.chatOwner => Placing(j)
  BY DEF NormUsers, Ordered
<1>4. QED  BY <1>1, <1>2, <1>3 DEF Ordered, Placing, Placed, Below

LEMMA CacheStepOrdered ==
  ASSUME TypeOK, NEW j \in Jobs, Shape(j), Ordered(j), job[j].op = "order", CacheStep(j)
  PROVE  Ordered(j)'
<1>1. /\ ranks' = ranks /\ index' = index
      /\ job'[j].op = job[j].op /\ job'[j].clash = job[j].clash /\ job'[j].by = job[j].by
      /\ job'[j].chatOwner = job[j].chatOwner /\ job'[j].norm = job[j].norm
      /\ job'[j].snap = job[j].snap /\ job'[j].highest = job[j].highest
      /\ job'[j].queue = job[j].queue
      /\ \/ job'[j].pc = job[j].pc
         \/ job'[j].pc # "write" /\ job[j].pc \in {"authorize", "miss"}
  <2>1. CASE CheckHit(j) \/ CheckRead(j) \/ CheckWrite(j)
    <3>1. /\ job[j].pc \in {"authorize", "miss"}
          /\ job'[j].pc \in {"miss", "done", job[j].next} /\ Same(job'[j], job[j])
      BY <2>1, GotoFields DEF CheckHit, CheckRead, CheckWrite, Checking, Decide, At
    <3>2. job'[j].pc # "write"  BY <3>1 DEF Shape
    <3>3. UNCHANGED tables  BY <2>1 DEF CheckHit, CheckRead, CheckWrite
    <3>4. QED  BY <3>1, <3>2, <3>3 DEF Same, Kept, SameSort, SameSight, tables
  <2>2. ASSUME NEW a \in Assocs, FillRead(j, a) \/ FillHit(j, a) \/ FillWrite(j, a)
        PROVE  job' = job /\ UNCHANGED tables
    BY <2>2 DEF FillRead, FillHit, FillWrite
  <2>3. CASE job' = job /\ UNCHANGED tables
    <3>1. ranks' = ranks /\ index' = index  BY <2>3 DEF tables
    <3>2. job' = job  BY <2>3
    <3>3. job'[j] = job[j]  BY <3>2
    <3>4. QED  BY <3>1, <3>3
  <2>4. QED  BY <2>1, <2>2, <2>3 DEF CacheStep
<1>2. Strict => Strict'  BY <1>1 DEF Strict
<1>3. Moved(j) => Moved(j)'  BY <1>1 DEF Moved
<1>4. Placed(j) => Placed(j)'  BY <1>1 DEF Placed, Below
<1>5. Placing(j) => Placing(j)'  BY <1>1 DEF Placing, Below, Waits
<1>6. job'[j].pc \in {"authorize", "miss", "read"} => job[j].pc \in {"authorize", "miss", "read"}
  BY <1>1
<1>7. job'[j].pc = "write" => job[j].pc = "write"  BY <1>1
<1>8. QED  BY <1>1, <1>2, <1>3, <1>4, <1>5, <1>6, <1>7 DEF Ordered

LEMMA ReorderedStep ==
  ASSUME TypeOK, Shapes, Ranked, Reordered, [Next]_vars
  PROVE  Reordered'
<1>1. ASSUME NEW j \in Jobs, Arrive(j) PROVE Reordered'
  <2>1. Newborn(j)  BY <1>1, ArriveNewborn
  <2>2. /\ ranks' = ranks /\ index' = index /\ excuses' = excuses
        /\ \A k \in Jobs \ {j} : job'[k] = job[k]
    BY <2>1 DEF Newborn, history
  <2>3. \A k \in Jobs \ {j} : Ordered(k) => Ordered(k)'
    BY <2>2 DEF Ordered, Moved, Placed, Placing, Below, Waits, Strict
  <2>4. SUFFICES ASSUME excuses \subseteq {"half", "late", "ruin"}
                 PROVE  Ordered(j)'
    BY <2>2, <2>3 DEF Reordered
  <2>5. CASE job'[j].op = "order" /\ ~job'[j].clash
    <3>1. job'[j].pc = "authorize" /\ job'[j].norm = "off" /\ ~Overlap(j)
      BY <2>1, <2>5 DEF Newborn
    <3>2. \A k \in Jobs : ~Disturbs(k)
      <4>1. ASSUME NEW k \in Jobs \ {j} PROVE ~Disturbs(k)
        <5>1. job[k].op \in {"none", "check"}  BY <3>1 DEF Overlap
        <5>2. Shape(k)  BY DEF Shapes
        <5>3. QED  BY <5>1, <5>2 DEF Shape, Disturbs, At
      <4>2. ~Disturbs(j)  BY <2>1 DEF Newborn, Shapes, Shape, NoRequest, Disturbs, At
      <4>3. QED  BY <4>1, <4>2
    <3>3. Strict  BY <2>4, <3>2 DEF Ranked
    <3>4. Strict'  BY <2>2, <3>3 DEF Strict
    <3>5. QED  BY <3>1, <3>4 DEF Ordered
  <2>6. QED  BY <2>5 DEF Ordered
<1>2. ASSUME NEW j \in Jobs, Run(j), ~Finish(j) PROVE Reordered'
  <2>1. Frame(j) /\ Shape(j)  BY <1>2, RunFrame DEF Shapes
  <2>2. SUFFICES ASSUME excuses' \subseteq {"half", "late", "ruin"}
                 PROVE  \A k \in Jobs : Ordered(k)'
    BY DEF Reordered
  <2>3. excuses \subseteq {"half", "late", "ruin"} /\ (Still \/ Alone(j))  BY <2>1, <2>2, Lone
  <2>4. Steady(j) /\ \A k \in Jobs : Ordered(k)  BY <2>3 DEF Ranked, Reordered
  <2>5. \A k \in Jobs \ {j} : Ordered(k)'  BY <2>1, <2>3, <2>4, OrderedOthers
  <2>6. ASSUME job[j].op = "order" PROVE Ordered(j)'
    <3>1. OrderRead(j) \/ OrderMove(j) \/ OrderEnd(j) \/ CacheStep(j) \/ NormStep(j)
      BY <1>2, <2>1, <2>6, OrderSteps
    <3>2. OrderRead(j) => Ordered(j)'  BY <2>1, <2>4, <2>6, OrderReadOrdered
    <3>3. OrderMove(j) => Ordered(j)'  BY <2>1, <2>4, <2>6, OrderMoveOrdered
    <3>4. OrderEnd(j) => Ordered(j)'  BY <2>1, <2>4, <2>6, OrderEndOrdered
    <3>5. CacheStep(j) => Ordered(j)'  BY <2>1, <2>4, <2>6, CacheStepOrdered
    <3>6. NormStep(j) => Ordered(j)'
      BY <2>1, <2>4, <2>6, NormReadOrdered, NormWriteOrdered, NormUsersOrdered DEF NormStep
    <3>7. QED  BY <3>1, <3>2, <3>3, <3>4, <3>5, <3>6
  <2>7. ASSUME job[j].op # "order" PROVE Ordered(j)'
    <3>1. job'[j].op # "order"  BY <1>2, <2>1, <2>7, OtherSteps
    <3>2. QED  BY <3>1 DEF Ordered
  <2>8. QED  BY <2>5, <2>6, <2>7
<1>3. ASSUME NEW j \in Jobs, Finish(j) PROVE Reordered'
  <2>1. /\ job'[j] = NoRequest /\ \A k \in Jobs \ {j} : job'[k] = job[k]
        /\ ranks' = ranks /\ index' = index /\ excuses' = excuses
    BY <1>3, EndShape DEF Finish, history, tables
  <2>2. \A k \in Jobs \ {j} : Ordered(k) => Ordered(k)'
    BY <2>1 DEF Ordered, Moved, Placed, Placing, Below, Waits, Strict
  <2>3. Ordered(j)'  BY <2>1 DEF Ordered, NoRequest
  <2>4. QED  BY <2>1, <2>2, <2>3 DEF Reordered
<1>4. ASSUME NEW j \in Jobs, Crash(j) PROVE Reordered'
  BY <1>4 DEF Crash, Excuse, Reordered
<1>5. CASE UNCHANGED vars
  BY <1>5 DEF vars, tables, history, Reordered, Ordered, Moved, Placed, Placing, Below,
     Waits, Strict
<1>6. QED  BY <1>1, <1>2, <1>3, <1>4, <1>5 DEF Next

\* A reordering by someone who does not own the group, overlapped by nothing, has
\* left every rank at or above the caller's highest one above all the ranks that
\* were below it when it ends, also when it stopped half-way with RANK_TOO_HIGH and
\* whatever the normalisation made of the indexes it had written by then.
THEOREM OrderStopsBelow == Spec => OrderStaysBelow
<1> DEFINE Asked(j) ==
      /\ At(j, "order", "done") /\ job'[j].op = "none"
      /\ job[j].norm = "users"
      /\ excuses' \subseteq {"half", "late", "ruin"}
      /\ UserOf[job[j].by] # job[j].chatOwner
    Answer(j) ==
      \A r, s \in ranks :
        /\ job[j].snap[r] >= job[j].highest
        /\ job[j].snap[s] < job[j].snap[r]
        => index[s] < index[r]
    Inv == TypeOK /\ Shapes /\ Ranked /\ Reordered
<1>1. Initial => Inv
  <2>1. Initial => Reordered
    BY RankedInit DEF Initial, Init, Reordered, Ordered, NoRequest
  <2>2. QED  BY <2>1, InitialType, ShapesInit, RankedInit
<1>2. Inv /\ [Next]_vars => (Shapes /\ Ranked /\ Reordered)'
  BY ShapesStep, RankedStep, ReorderedStep
<1>3. Inv /\ [Next]_vars => [\A j \in Jobs : Asked(j) => Answer(j)]_vars
  <2> SUFFICES ASSUME Inv, Next, NEW j \in Jobs, Asked(j)
               PROVE  Answer(j)
    OBVIOUS
  <2>1. excuses \subseteq excuses'
    <3>1. ASSUME NEW k \in Jobs, Arrive(k) PROVE excuses \subseteq excuses'
      BY <3>1, ArriveNewborn DEF Newborn, history
    <3>2. ASSUME NEW k \in Jobs, Run(k), ~Finish(k) PROVE excuses \subseteq excuses'
      BY <3>2, RunFrame DEF Shapes, Frame
    <3>3. ASSUME NEW k \in Jobs, Finish(k) \/ Crash(k) PROVE excuses \subseteq excuses'
      BY <3>3 DEF Finish, Crash, Excuse, history
    <3>4. QED  BY <3>1, <3>2, <3>3 DEF Next
  <2>2. Steady(j) /\ Ordered(j)  BY <2>1 DEF Ranked, Reordered
  <2>3. CASE job[j].clash  BY <2>2, <2>3 DEF Steady
  <2>4. CASE ~job[j].clash
    <3>1. Placed(j)  BY <2>2, <2>4 DEF Ordered, At
    <3>2. QED  BY <3>1 DEF Placed, Below
  <2>5. QED  BY <2>3, <2>4
<1> HIDE DEF Asked, Answer
<1>4. QED
  <2>1. Spec => [][\A j \in Jobs : Asked(j) => Answer(j)]_vars
    BY <1>1, <1>2, <1>3, TypeCorrect, PTL DEF Spec, Inv
  <2>2. QED  BY <2>1 DEF OrderStaysBelow, Asked, Answer
==============================================================================
