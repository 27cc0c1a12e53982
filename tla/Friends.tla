------------------------------- MODULE Friends -------------------------------
(***************************************************************************)
(* Friends and BlockedUsers, as friend() of userUtils.service and blockUser*)
(* of blockedUser.resolver change them.  A friendship is two rows, one per *)
(* side; no index makes a row unique, and every handler writes the sides   *)
(* one after the other without a transaction.                              *)
(***************************************************************************)
EXTENDS Integers, FiniteSets

CONSTANTS
  Users,        \* user ids
  Closed,       \* users whose friendRequests setting is NOBODY
  Jobs,         \* request slots of the worker processes
  MaxRequests,  \* bound: requests that arrive in one behaviour
  MaxCrashes    \* bound: worker crashes in one behaviour

ASSUME UsersAssumption == Users # {} /\ Closed \subseteq Users
ASSUME LimitAssumption == MaxRequests \in Nat /\ MaxCrashes \in Nat

Status == {"outgoing", "incoming", "accepted"}
Actions == {"accept", "remove", "send", "toggle"}  \* toggle : no action given

VARIABLES
  rows,       \* rows[<<u, v>>][s] : rows with userId u, friendId v and status s
  blocks,     \* BlockedUser rows
  job,        \* the requests in flight
  willing,    \* history: <<u, v>>, u asked v or agreed to v's request
  accidents,  \* history: pairs whose rows an overlap or a crash may have left uneven
  doubled,    \* history: <<u, v>>, two block requests of u against v overlapped
  asked,      \* requests so far
  crashes     \* crashes so far

vars == <<rows, blocks, job, willing, accidents, doubled, asked, crashes>>

Sides == Users \X Users
Block == [by : Users, of : Users, id : Nat]

Points == {"read", "create", "mirror", "accept", "agree", "unrow", "sever",
           "block", "unblock", "done"}

Request ==
  [op : {"none", "friend", "block"}, pc : Points, by : Users, to : Users,
   action : Actions, id : Nat, found : Nat, clash : BOOLEAN]

Nobody == CHOOSE u \in Users : TRUE

NoRequest ==
  [op |-> "none", pc |-> "done", by |-> Nobody, to |-> Nobody, action |-> "toggle",
   id |-> 0, found |-> 0, clash |-> FALSE]

Idle(j) == job[j].op = "none"
At(j, op, pc) == job[j].op = op /\ job[j].pc = pc
Mine(j) == <<job[j].by, job[j].to>>
Theirs(j) == <<job[j].to, job[j].by>>
Pair(j) == {job[j].by, job[j].to}

None == [s \in Status |-> 0]
Goto(j, pc) == job' = [job EXCEPT ![j].pc = pc]
Counted == UNCHANGED <<asked, crashes>>

\* A write of a request that overlaps another one of the same two users.
Disturb(j) ==
  /\ accidents' = IF job[j].clash THEN accidents \cup {Pair(j)} ELSE accidents
  /\ UNCHANGED doubled

------------------------------------------------------------------------------
\* The unfinished requests of the same two users.
Rivals(j, by, to) == {k \in Jobs \ {j} : job[k].pc # "done" /\ Pair(k) = {by, to}}

Enter(j, op, by, to, action) ==
  LET rivals == Rivals(j, by, to) IN
  /\ job' = [k \in Jobs |->
       CASE k = j -> [op |-> op, pc |-> "read", by |-> by, to |-> to, action |-> action,
                      id |-> asked, found |-> 0, clash |-> rivals # {}]
         [] k \in rivals -> [job[k] EXCEPT !.clash = TRUE]
         [] OTHER -> job[k]]
  /\ doubled' = IF op = "block" /\ \E k \in rivals : job[k].op = op /\ job[k].by = by
                THEN doubled \cup {<<by, to>>} ELSE doubled

Arrive(j) ==
  /\ Idle(j) /\ asked < MaxRequests
  /\ \E op \in {"friend", "block"}, by, to \in Users, action \in Actions :
       /\ by # to
       /\ op = "block" => action = "toggle"
       /\ Enter(j, op, by, to, action)
  /\ asked' = asked + 1
  /\ UNCHANGED <<rows, blocks, willing, accidents, crashes>>

(* friend(): what to do follows from one row of the caller's side. *)

\* Slip: the asking side may accept its own request.
DecisionEither(action, status) ==
  CASE action = "send" -> "done"
    [] action = "accept" -> IF status = "accepted" THEN "done" ELSE "accept"
    [] action = "toggle" /\ status = "incoming" -> "accept"
    [] OTHER -> "unrow"

Decision(action, status) ==
  CASE action = "send" -> "done"
    [] action = "accept" -> IF status = "incoming" THEN "accept" ELSE "done"
    [] action = "toggle" /\ status = "incoming" -> "accept"
    [] OTHER -> "unrow"

FriendRead(j) ==
  LET mine == rows[Mine(j)] IN
  /\ At(j, "friend", "read")
  /\ \/ /\ mine = None
        /\ Goto(j, IF job[j].to \in Closed THEN "done" ELSE "create")
     \/ \E s \in Status : mine[s] > 0 /\ Goto(j, Decision(job[j].action, s))
  /\ willing' = IF job'[j].pc \in {"create", "accept"}
                THEN willing \cup {Mine(j)} ELSE willing
  /\ UNCHANGED <<rows, blocks, accidents, doubled>> /\ Counted

FriendCreate(j) ==
  /\ At(j, "friend", "create")
  /\ rows' = [rows EXCEPT ![Mine(j)]["outgoing"] = @ + 1]
  /\ Goto(j, "mirror") /\ Disturb(j)
  /\ UNCHANGED <<blocks, willing>> /\ Counted

FriendMirror(j) ==
  /\ At(j, "friend", "mirror")
  /\ rows' = [rows EXCEPT ![Theirs(j)]["incoming"] = @ + 1]
  /\ Goto(j, "done") /\ Disturb(j)
  /\ UNCHANGED <<blocks, willing>> /\ Counted

\* Slip: one incoming row becomes accepted, whether it is still there or not.
AcceptedMoved(f) == [f EXCEPT !["incoming"] = @ - 1, !["accepted"] = @ + 1]

\* Friend.update changes every row of the side, whatever its status is by now.
Accepted(f) ==
  [s \in Status |-> IF s = "accepted"
                    THEN f["outgoing"] + f["incoming"] + f["accepted"] ELSE 0]

FriendAccept(j) ==
  /\ At(j, "friend", "accept")
  /\ rows' = [rows EXCEPT ![Mine(j)] = Accepted(@)]
  /\ Goto(j, "agree") /\ Disturb(j)
  /\ UNCHANGED <<blocks, willing>> /\ Counted

FriendAgree(j) ==
  /\ At(j, "friend", "agree")
  /\ rows' = [rows EXCEPT ![Theirs(j)] = Accepted(@)]
  /\ Goto(j, "done") /\ Disturb(j)
  /\ UNCHANGED <<blocks, willing>> /\ Counted

(* removeFriend, and the same two statements in blockUser. *)

Unrow(j) ==
  /\ job[j].pc = "unrow"
  /\ rows' = [rows EXCEPT ![Mine(j)] = None]
  /\ Goto(j, "sever") /\ Disturb(j)
  /\ UNCHANGED <<blocks, willing>> /\ Counted

\* Slip: the caller's side is removed a second time.
SeverMine(j) ==
  /\ job[j].pc = "sever"
  /\ rows' = [rows EXCEPT ![Mine(j)] = None]
  /\ Goto(j, "done")
  /\ accidents' = IF job[j].clash THEN accidents \cup {Pair(j)} ELSE accidents \ {Pair(j)}
  /\ UNCHANGED <<blocks, willing, doubled>> /\ Counted

\* A removal that nothing disturbed has removed whatever was there before.
Sever(j) ==
  /\ job[j].pc = "sever"
  /\ rows' = [rows EXCEPT ![Theirs(j)] = None]
  /\ Goto(j, "done")
  /\ accidents' = IF job[j].clash THEN accidents \cup {Pair(j)} ELSE accidents \ {Pair(j)}
  /\ UNCHANGED <<blocks, willing, doubled>> /\ Counted

(* blockUser: a second call takes the block back. *)

Blocks(u, v) == {b \in blocks : b.by = u /\ b.of = v}

\* Slip: a block is created whether there is one or not.
BlockReadNot(j) ==
  /\ At(j, "block", "read")
  /\ Goto(j, "block")
  /\ UNCHANGED <<rows, blocks, willing, accidents, doubled>> /\ Counted

BlockRead(j) ==
  LET found == Blocks(job[j].by, job[j].to) IN
  /\ At(j, "block", "read")
  /\ \/ found = {} /\ Goto(j, "block")
     \/ \E b \in found :
          job' = [job EXCEPT ![j].pc = "unblock", ![j].found = b.id]
  /\ UNCHANGED <<rows, blocks, willing, accidents, doubled>> /\ Counted

BlockCreate(j) ==
  /\ At(j, "block", "block")
  /\ blocks' = blocks \cup {[by |-> job[j].by, of |-> job[j].to, id |-> job[j].id]}
  /\ Goto(j, "unrow")
  /\ UNCHANGED <<rows, willing, accidents, doubled>> /\ Counted

Unblock(j) ==
  /\ At(j, "block", "unblock")
  /\ blocks' = {b \in blocks : b.id # job[j].found}
  /\ Goto(j, "done")
  /\ UNCHANGED <<rows, willing, accidents, doubled>> /\ Counted

------------------------------------------------------------------------------
Finish(j) ==
  /\ ~Idle(j) /\ job[j].pc = "done"
  /\ job' = [job EXCEPT ![j] = NoRequest]
  /\ UNCHANGED <<rows, blocks, willing, accidents, doubled>> /\ Counted

\* cluster.ts: a worker that dies takes its requests with it; one that had
\* written one side leaves the other.
Crash(j) ==
  /\ ~Idle(j) /\ crashes < MaxCrashes
  /\ job' = [job EXCEPT ![j] = NoRequest]
  /\ accidents' = IF job[j].pc \in {"mirror", "agree", "sever"}
                  THEN accidents \cup {Pair(j)} ELSE accidents
  /\ crashes' = crashes + 1
  /\ UNCHANGED <<rows, blocks, willing, doubled, asked>>

Init ==
  /\ rows = [p \in Sides |-> None]
  /\ blocks = {}
  /\ job = [j \in Jobs |-> NoRequest]
  /\ willing = {} /\ accidents = {} /\ doubled = {}
  /\ asked = 0 /\ crashes = 0

FriendStep(j) ==
  \/ FriendRead(j) \/ FriendCreate(j) \/ FriendMirror(j)
  \/ FriendAccept(j) \/ FriendAgree(j) \/ Unrow(j) \/ Sever(j)

BlockStep(j) == BlockRead(j) \/ BlockCreate(j) \/ Unblock(j)

Next == \E j \in Jobs : Arrive(j) \/ FriendStep(j) \/ BlockStep(j) \/ Finish(j) \/ Crash(j)

Spec == Init /\ [][Next]_vars

------------------------------------------------------------------------------
TypeOK ==
  /\ rows \in [Sides -> [Status -> Nat]]
  /\ blocks \subseteq Block
  /\ job \in [Jobs -> Request]
  /\ willing \subseteq Sides
  /\ accidents \subseteq SUBSET Users
  /\ doubled \subseteq Sides
  /\ asked \in Nat /\ crashes \in Nat

Quiet == \A j \in Jobs : job[j].pc = "done"

\* Exactly one row, of status s.
Only(s) == [None EXCEPT ![s] = 1]

\* At rest the two sides of a pair tell the same story (nothing, a request and its
\* mirror image, a friendship), with one row each, unless an overlap of requests of
\* these two users or a crash broke it; and an undisturbed removal or block repairs
\* whatever an accident left (the two destroys of removeFriend and blockUser take
\* every row of the pair).
RowsMirror ==
  Quiet =>
    \A u, v \in Users :
      u # v /\ {u, v} \notin accidents =>
        <<rows[<<u, v>>], rows[<<v, u>>]>> \in
          {<<None, None>>, <<Only("outgoing"), Only("incoming")>>,
           <<Only("incoming"), Only("outgoing")>>, <<Only("accepted"), Only("accepted")>>}

\* A user is blocked at most once by another, so that taking the block back takes
\* it back, unless two block requests against the same user overlapped: blockUser
\* decides from a lookup and no index makes the row unique.
OneBlock ==
  \A u, v \in Users : <<u, v>> \notin doubled => Cardinality(Blocks(u, v)) <= 1

(* The friend list implements its promise: v is shown on u's list when u's *)
(* side has an accepted row.                                               *)
Shown == {p \in Sides : rows[p]["accepted"] > 0}

Promise == INSTANCE Friendship WITH shown <- Shown

\* Under every interleaving and every crash, nobody is on a friend list who has not,
\* by a request of their own, asked for it or accepted it: friend() turns rows into
\* accepted ones only from the incoming side, and only a request of the other user
\* creates an incoming row.
KeepsPromise == Promise!Spec
==============================================================================
