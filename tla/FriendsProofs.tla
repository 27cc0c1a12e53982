---------------------------- MODULE FriendsProofs ----------------------------
(***************************************************************************)
(* Friends keeps its types, implements Friendship, blocks at most once and *)
(* keeps the two sides of a pair alike, for any number of users, requests, *)
(* request slots and crashes.                                              *)
(***************************************************************************)
EXTENDS Friends, FiniteSetTheorems, TLAPS

LEMMA NobodyIsUser == Nobody \in Users
BY UsersAssumption DEF Nobody

LEMMA NoRequestType == NoRequest \in Request
BY NobodyIsUser DEF NoRequest, Request, Points, Actions

LEMMA SideType ==
  ASSUME TypeOK, NEW j \in Jobs
  PROVE  /\ job[j] \in Request
         /\ job[j].by \in Users /\ job[j].to \in Users
         /\ Mine(j) \in Sides /\ Theirs(j) \in Sides
         /\ Pair(j) \in SUBSET Users
BY DEF TypeOK, Request, Mine, Theirs, Pair, Sides

LEMMA BagType ==
  ASSUME NEW f \in [Status -> Nat]
  PROVE  /\ Accepted(f) \in [Status -> Nat]
         /\ \A s \in Status : [f EXCEPT ![s] = f[s] + 1] \in [Status -> Nat]
         /\ None \in [Status -> Nat]
<1>1. f["outgoing"] \in Nat /\ f["incoming"] \in Nat /\ f["accepted"] \in Nat
  BY DEF Status
<1>2. f["outgoing"] + f["incoming"] + f["accepted"] \in Nat  BY <1>1
<1>3. Accepted(f) \in [Status -> Nat]  BY <1>2 DEF Accepted
<1>4. None \in [Status -> Nat]  BY DEF None
<1>5. \A s \in Status : [f EXCEPT ![s] = f[s] + 1] \in [Status -> Nat]  OBVIOUS
<1>6. QED  BY <1>3, <1>4, <1>5

LEMMA RowsType ==
  ASSUME TypeOK, NEW p \in Sides, NEW f \in [Status -> Nat]
  PROVE  [rows EXCEPT ![p] = f] \in [Sides -> [Status -> Nat]]
BY DEF TypeOK

LEMMA GotoType ==
  ASSUME TypeOK, NEW j \in Jobs, NEW pc \in Points, Goto(j, pc)
  PROVE  job' \in [Jobs -> Request]
<1>1. job[j] \in Request  BY SideType
<1>2. [job[j] EXCEPT !.pc = pc] \in Request  BY <1>1 DEF Request
<1>3. job' = [job EXCEPT ![j] = [job[j] EXCEPT !.pc = pc]]  BY DEF Goto
<1>4. QED  BY <1>2, <1>3 DEF TypeOK

LEMMA DisturbType ==
  ASSUME TypeOK, NEW j \in Jobs, Disturb(j)
  PROVE  accidents' \subseteq SUBSET Users /\ doubled' \subseteq Sides
<1>1. Pair(j) \in SUBSET Users  BY SideType
<1>2. QED  BY <1>1 DEF Disturb, TypeOK

------------------------------------------------------------------------------
(* One lemma per action: it keeps the types. *)

LEMMA ArriveType ==
  ASSUME TypeOK, NEW j \in Jobs, Arrive(j)
  PROVE  TypeOK'
<1>1. PICK op \in {"friend", "block"}, by \in Users, to \in Users, action \in Actions :
        Enter(j, op, by, to, action)
  BY DEF Arrive
<1>2. [op |-> op, pc |-> "read", by |-> by, to |-> to, action |-> action, id |-> asked,
       found |-> 0, clash |-> Rivals(j, by, to) # {}] \in Request
  <2>1. "read" \in Points /\ asked \in Nat  BY DEF Points, TypeOK
  <2>2. QED  BY <2>1 DEF Request
<1>3. \A k \in Jobs : job[k] \in Request /\ [job[k] EXCEPT !.clash = TRUE] \in Request
  <2>1. \A k \in Jobs : job[k] \in Request  BY SideType
  <2>2. QED  BY <2>1 DEF Request
<1>4. job' \in [Jobs -> Request]
  <2> DEFINE new == [op |-> op, pc |-> "read", by |-> by, to |-> to, action |-> action,
                     id |-> asked, found |-> 0, clash |-> Rivals(j, by, to) # {}]
             later(k) == CASE k = j -> new
                           [] k \in Rivals(j, by, to) -> [job[k] EXCEPT !.clash = TRUE]
                           [] OTHER -> job[k]
  <2>1. job' = [k \in Jobs |-> later(k)]  BY <1>1 DEF Enter
  <2>2. j \notin Rivals(j, by, to)  BY DEF Rivals
  <2>3. ASSUME NEW k \in Jobs PROVE later(k) \in Request
    <3>1. CASE k = j  BY <1>2, <2>2, <3>1
    <3>2. CASE k # j /\ k \in Rivals(j, by, to)  BY <1>3, <3>2
    <3>3. CASE k # j /\ k \notin Rivals(j, by, to)  BY <1>3, <3>3
    <3>4. QED  BY <3>1, <3>2, <3>3
  <2> HIDE DEF later
  <2>4. QED  BY <2>1, <2>3
<1>5. doubled' \subseteq Sides  BY <1>1 DEF Enter, TypeOK, Sides
<1>6. QED  BY <1>4, <1>5 DEF Arrive, TypeOK

LEMMA FriendReadType ==
  ASSUME TypeOK, NEW j \in Jobs, FriendRead(j)
  PROVE  TypeOK'
<1>1. \A a, s : Decision(a, s) \in Points  BY DEF Decision, Points
<1>2. PICK pc \in Points : Goto(j, pc)  BY <1>1 DEF FriendRead, Points
<1>3. job' \in [Jobs -> Request]  BY <1>2, GotoType
<1>4. willing' \subseteq Sides  BY SideType DEF FriendRead, TypeOK
<1>5. QED  BY <1>3, <1>4 DEF FriendRead, Counted, TypeOK

LEMMA FriendCreateType ==
  ASSUME TypeOK, NEW j \in Jobs, FriendCreate(j) \/ FriendMirror(j)
  PROVE  TypeOK'
<1>1. PICK p \in {Mine(j), Theirs(j)}, s \in Status :
        rows' = [rows EXCEPT ![p][s] = rows[p][s] + 1]
  BY DEF FriendCreate, FriendMirror, Status
<1>2. p \in Sides  BY <1>1, SideType
<1>3. rows[p] \in [Status -> Nat]  BY <1>2 DEF TypeOK
<1>4. [rows[p] EXCEPT ![s] = rows[p][s] + 1] \in [Status -> Nat]  BY <1>3, BagType
<1>5. rows' \in [Sides -> [Status -> Nat]]  BY <1>1, <1>2, <1>4, RowsType
<1>6. job' \in [Jobs -> Request]  BY GotoType DEF FriendCreate, FriendMirror, Points
<1>7. QED  BY <1>5, <1>6, DisturbType DEF FriendCreate, FriendMirror, Counted, TypeOK

LEMMA FriendAcceptType ==
  ASSUME TypeOK, NEW j \in Jobs, FriendAccept(j) \/ FriendAgree(j)
  PROVE  TypeOK'
<1>1. PICK p \in {Mine(j), Theirs(j)} : rows' = [rows EXCEPT ![p] = Accepted(rows[p])]
  BY DEF FriendAccept, FriendAgree
<1>2. p \in Sides  BY <1>1, SideType
<1>3. Accepted(rows[p]) \in [Status -> Nat]  BY <1>2, BagType DEF TypeOK
<1>4. rows' \in [Sides -> [Status -> Nat]]  BY <1>1, <1>2, <1>3, RowsType
<1>5. job' \in [Jobs -> Request]  BY GotoType DEF FriendAccept, FriendAgree, Points
<1>6. QED  BY <1>4, <1>5, DisturbType DEF FriendAccept, FriendAgree, Counted, TypeOK

LEMMA RemovalType ==
  ASSUME TypeOK, NEW j \in Jobs, Unrow(j) \/ Sever(j)
  PROVE  TypeOK'
<1>1. PICK p \in {Mine(j), Theirs(j)} : rows' = [rows EXCEPT ![p] = None]
  BY DEF Unrow, Sever
<1>2. rows' \in [Sides -> [Status -> Nat]]
  <2>1. p \in Sides  BY <1>1, SideType
  <2>2. None \in [Status -> Nat]  BY DEF None
  <2>3. QED  BY <1>1, <2>1, <2>2, RowsType
<1>3. job' \in [Jobs -> Request]  BY GotoType DEF Unrow, Sever, Points
<1>4. accidents' \subseteq SUBSET Users /\ doubled' \subseteq Sides
  BY SideType DEF Unrow, Sever, Disturb, TypeOK
<1>5. QED  BY <1>2, <1>3, <1>4 DEF Unrow, Sever, Counted, TypeOK

LEMMA BlockStepType ==
  ASSUME TypeOK, NEW j \in Jobs, BlockStep(j)
  PROVE  TypeOK'
<1>1. job[j] \in Request  BY SideType
<1>2. CASE BlockRead(j)
  <2>1. job' \in [Jobs -> Request]
    <3>1. CASE Goto(j, "block")  BY <3>1, GotoType DEF Points
    <3>2. CASE \E b \in Blocks(job[j].by, job[j].to) :
                 job' = [job EXCEPT ![j].pc = "unblock", ![j].found = b.id]
      <4>1. PICK b \in blocks :
              job' = [job EXCEPT ![j] = [job[j] EXCEPT !.pc = "unblock", !.found = b.id]]
        BY <3>2, <1>1 DEF Blocks, TypeOK, Request
      <4>2. b.id \in Nat /\ "unblock" \in Points  BY DEF TypeOK, Block, Points
      <4>3. [job[j] EXCEPT !.pc = "unblock", !.found = b.id] \in Request
        BY <1>1, <4>2 DEF Request
      <4>4. QED  BY <4>1, <4>3 DEF TypeOK
    <3>3. QED  BY <1>2, <3>1, <3>2 DEF BlockRead
  <2>2. QED  BY <1>2, <2>1 DEF BlockRead, Counted, TypeOK
<1>3. CASE BlockCreate(j)
  <2>1. job' \in [Jobs -> Request]  BY <1>3, GotoType DEF BlockCreate, Points
  <2>2. [by |-> job[j].by, of |-> job[j].to, id |-> job[j].id] \in Block
    BY <1>1 DEF Request, Block
  <2>3. QED  BY <1>3, <2>1, <2>2 DEF BlockCreate, Counted, TypeOK
<1>4. CASE Unblock(j)
  <2>1. job' \in [Jobs -> Request]  BY <1>4, GotoType DEF Unblock, Points
  <2>2. QED  BY <1>4, <2>1 DEF Unblock, Counted, TypeOK
<1>5. QED  BY <1>2, <1>3, <1>4 DEF BlockStep

LEMMA EndType ==
  ASSUME TypeOK, NEW j \in Jobs, Finish(j) \/ Crash(j)
  PROVE  TypeOK'
<1>1. job' \in [Jobs -> Request]  BY NoRequestType DEF Finish, Crash, TypeOK
<1>2. accidents' \subseteq SUBSET Users  BY SideType DEF Finish, Crash, TypeOK
<1>3. QED  BY <1>1, <1>2 DEF Finish, Crash, Counted, TypeOK

\* Under every interleaving and crash the rows of a side stay a bag of the three
\* statuses, and every request record keeps its type.
THEOREM FriendsTypeCorrect == Spec => []TypeOK
<1>1. Init => TypeOK
  BY NoRequestType, LimitAssumption DEF Init, TypeOK, None, Sides
<1>2. TypeOK /\ [Next]_vars => TypeOK'
  <2> SUFFICES ASSUME TypeOK, [Next]_vars PROVE TypeOK'
    OBVIOUS
  <2>1. ASSUME NEW j \in Jobs,
               Arrive(j) \/ FriendStep(j) \/ BlockStep(j) \/ Finish(j) \/ Crash(j)
        PROVE  TypeOK'
    BY <2>1, ArriveType, FriendReadType, FriendCreateType, FriendAcceptType, RemovalType,
       BlockStepType, EndType DEF FriendStep
  <2>2. CASE UNCHANGED vars  BY <2>2 DEF vars, TypeOK
  <2>3. QED  BY <2>1, <2>2 DEF Next
<1>3. QED  BY <1>1, <1>2, PTL DEF Spec

------------------------------------------------------------------------------
(* The promise.  A row says who asked: an outgoing row its own side, an    *)
(* incoming row the other side, an accepted row both; and a request that   *)
(* is about to write such a row has what it takes, because willing only    *)
(* grows between its read and its write.                                   *)

Founded(p) ==
  LET q == <<p[2], p[1]>> IN
  /\ rows[p]["outgoing"] > 0 => p \in willing
  /\ rows[p]["incoming"] > 0 => q \in willing
  /\ rows[p]["accepted"] > 0 => p \in willing /\ q \in willing

Entitled(j) ==
  /\ job[j].pc # "done" => job[j].by # job[j].to
  /\ job[j].pc \in {"create", "mirror", "accept", "agree"} => Mine(j) \in willing
  /\ job[j].pc \in {"accept", "agree"} => Theirs(j) \in willing

Consent == (\A p \in Sides : Founded(p)) /\ (\A j \in Jobs : Entitled(j))

LEMMA SideShape ==
  ASSUME NEW p \in Sides
  PROVE  <<p[2], p[1]>> \in Sides /\ p = <<p[1], p[2]>>
BY DEF Sides

\* A step that leaves rows alone and moves one request forward keeps Consent when the
\* moved request stays entitled.
LEMMA MoveConsent ==
  ASSUME TypeOK, Consent, NEW j \in Jobs, NEW pc \in Points, Goto(j, pc), UNCHANGED rows,
         willing \subseteq willing',
         job[j].by # job[j].to,
         pc \in {"create", "mirror", "accept", "agree"} => Mine(j) \in willing',
         pc \in {"accept", "agree"} => Theirs(j) \in willing'
  PROVE  Consent'
<1>1. \A p \in Sides : Founded(p)'  BY DEF Consent, Founded
<1>2. ASSUME NEW k \in Jobs PROVE Entitled(k)'
  <2>1. CASE k = j
    <3>1. job'[j].pc = pc /\ job'[j].by = job[j].by /\ job'[j].to = job[j].to
      BY DEF Goto, TypeOK, Request
    <3>2. QED  BY <2>1, <3>1 DEF Entitled, Mine, Theirs
  <2>2. CASE k # j
    <3>1. job'[k] = job[k]  BY <2>2 DEF Goto, TypeOK
    <3>2. QED  BY <3>1 DEF Consent, Entitled, Mine, Theirs
  <2>3. QED  BY <2>1, <2>2
<1>3. QED  BY <1>1, <1>2 DEF Consent

\* The same for a step that writes the rows of one side.
LEMMA WriteConsent ==
  ASSUME TypeOK, Consent, NEW j \in Jobs, NEW pc \in {"mirror", "agree", "sever", "done"},
         Goto(j, pc), NEW p \in Sides, NEW f \in [Status -> Nat],
         rows' = [rows EXCEPT ![p] = f], willing' = willing,
         job[j].by # job[j].to,
         pc = "mirror" => Mine(j) \in willing,
         pc = "agree" => Mine(j) \in willing /\ Theirs(j) \in willing,
         f["outgoing"] > 0 => p \in willing,
         f["incoming"] > 0 => <<p[2], p[1]>> \in willing,
         f["accepted"] > 0 => p \in willing /\ <<p[2], p[1]>> \in willing
  PROVE  Consent'
<1>1. ASSUME NEW q \in Sides PROVE Founded(q)'
  <2>1. CASE q = p
    <3>1. rows'[q] = f  BY <2>1 DEF TypeOK
    <3>2. QED  BY <2>1, <3>1 DEF Founded
  <2>2. CASE q # p
    <3>1. rows'[q] = rows[q]  BY <2>2 DEF TypeOK
    <3>2. QED  BY <3>1 DEF Founded, Consent
  <2>3. QED  BY <2>1, <2>2
<1>2. ASSUME NEW k \in Jobs PROVE Entitled(k)'
  <2>1. CASE k = j
    <3>1. job'[j].pc = pc /\ job'[j].by = job[j].by /\ job'[j].to = job[j].to
      BY DEF Goto, TypeOK, Request
    <3>2. QED  BY <2>1, <3>1 DEF Entitled, Mine, Theirs
  <2>2. CASE k # j
    <3>1. job'[k] = job[k]  BY <2>2 DEF Goto, TypeOK
    <3>2. QED  BY <3>1 DEF Consent, Entitled, Mine, Theirs
  <2>3. QED  BY <2>1, <2>2
<1>3. QED  BY <1>1, <1>2 DEF Consent

LEMMA PairShape ==
  ASSUME TypeOK, NEW j \in Jobs
  PROVE  /\ Theirs(j) = <<Mine(j)[2], Mine(j)[1]>>
         /\ Mine(j) = <<Theirs(j)[2], Theirs(j)[1]>>
BY DEF Mine, Theirs

LEMMA ArriveConsent ==
  ASSUME TypeOK, Consent, NEW j \in Jobs, Arrive(j)
  PROVE  Consent'
<1>1. PICK op \in {"friend", "block"}, by \in Users, to \in Users, action \in Actions :
        by # to /\ Enter(j, op, by, to, action)
  BY DEF Arrive
<1>2. \A p \in Sides : Founded(p)'  BY DEF Arrive, Consent, Founded
<1>3. ASSUME NEW k \in Jobs PROVE Entitled(k)'
  <2>1. j \notin Rivals(j, by, to)  BY DEF Rivals
  <2>2. CASE k = j
    <3>1. job'[k].pc = "read" /\ job'[k].by = by /\ job'[k].to = to
      BY <1>1, <2>1, <2>2 DEF Enter
    <3>2. QED  BY <1>1, <3>1 DEF Entitled
  <2>3. CASE k # j
    <3>1. job[k] \in Request  BY SideType
    <3>2. job'[k] = job[k] \/ job'[k] = [job[k] EXCEPT !.clash = TRUE]
      BY <1>1, <2>3 DEF Enter
    <3>3. job'[k].pc = job[k].pc /\ job'[k].by = job[k].by /\ job'[k].to = job[k].to
      BY <3>1, <3>2 DEF Request
    <3>4. QED  BY <3>3 DEF Arrive, Consent, Entitled, Mine, Theirs
  <2>4. QED  BY <2>2, <2>3
<1>4. QED  BY <1>2, <1>3 DEF Consent

LEMMA FriendReadConsent ==
  ASSUME TypeOK, Consent, NEW j \in Jobs, FriendRead(j)
  PROVE  Consent'
<1>1. job[j].by # job[j].to  BY DEF FriendRead, At, Consent, Entitled
<1>2. Mine(j) \in Sides  BY SideType
<1>3. rows[Mine(j)] \in [Status -> Nat]  BY <1>2 DEF TypeOK
<1>4. PICK pc \in Points :
        /\ Goto(j, pc)
        /\ pc \in {"done", "create", "unrow", "accept"}
        /\ pc = "accept" => rows[Mine(j)]["incoming"] > 0
  BY DEF FriendRead, Decision, Points
<1>5. job'[j].pc = pc  BY <1>4 DEF Goto, TypeOK, Request
<1>6. willing \subseteq willing' /\ (pc \in {"create", "accept"} => Mine(j) \in willing')
  BY <1>5 DEF FriendRead
<1>7. pc = "accept" => Theirs(j) \in willing'
  BY <1>2, <1>4, <1>6, PairShape DEF Consent, Founded
<1>8. QED  BY <1>1, <1>4, <1>6, <1>7, MoveConsent DEF FriendRead

LEMMA FriendWriteConsent ==
  ASSUME TypeOK, Consent, NEW j \in Jobs,
         FriendCreate(j) \/ FriendMirror(j) \/ FriendAccept(j) \/ FriendAgree(j)
  PROVE  Consent'
<1>1. job[j].by # job[j].to /\ Mine(j) \in willing
  BY DEF FriendCreate, FriendMirror, FriendAccept, FriendAgree, At, Consent, Entitled
<1>2. Mine(j) \in Sides /\ Theirs(j) \in Sides  BY SideType
<1>3. rows[Mine(j)] \in [Status -> Nat] /\ rows[Theirs(j)] \in [Status -> Nat]
  BY <1>2 DEF TypeOK
<1>4. Founded(Mine(j)) /\ Founded(Theirs(j))  BY <1>2 DEF Consent
<1>5. CASE FriendCreate(j)
  <2> DEFINE f == [rows[Mine(j)] EXCEPT !["outgoing"] = rows[Mine(j)]["outgoing"] + 1]
  <2>1. f \in [Status -> Nat]  BY <1>3, BagType DEF Status
  <2>2. f["incoming"] = rows[Mine(j)]["incoming"] /\ f["accepted"] = rows[Mine(j)]["accepted"]
    BY <1>3 DEF Status
  <2>3. rows' = [rows EXCEPT ![Mine(j)] = f]  BY <1>5 DEF FriendCreate
  <2> HIDE DEF f
  <2>4. QED  BY <1>1, <1>2, <1>4, <1>5, <2>1, <2>2, <2>3, WriteConsent
             DEF FriendCreate, Founded
<1>6. CASE FriendMirror(j)
  <2> DEFINE f == [rows[Theirs(j)] EXCEPT !["incoming"] = rows[Theirs(j)]["incoming"] + 1]
  <2>1. f \in [Status -> Nat]  BY <1>3, BagType DEF Status
  <2>2. f["outgoing"] = rows[Theirs(j)]["outgoing"] /\ f["accepted"] = rows[Theirs(j)]["accepted"]
    BY <1>3 DEF Status
  <2>3. rows' = [rows EXCEPT ![Theirs(j)] = f]  BY <1>6 DEF FriendMirror
  <2> HIDE DEF f
  <2>4. Goto(j, "done") /\ willing' = willing  BY <1>6 DEF FriendMirror
  <2>5. Mine(j) = <<Theirs(j)[2], Theirs(j)[1]>>  BY PairShape
  <2>6. /\ f["outgoing"] > 0 => Theirs(j) \in willing
        /\ f["accepted"] > 0 => Theirs(j) \in willing
    BY <1>4, <2>2 DEF Founded
  <2>7. QED  BY <1>1, <1>2, <2>1, <2>3, <2>4, <2>5, <2>6, WriteConsent
<1>7. CASE FriendAccept(j) \/ FriendAgree(j)
  <2>1. Theirs(j) \in willing  BY <1>7 DEF FriendAccept, FriendAgree, At, Consent, Entitled
  <2>2. CASE FriendAccept(j)
    <3>1. Accepted(rows[Mine(j)]) \in [Status -> Nat]  BY <1>3, BagType
    <3>2. Accepted(rows[Mine(j)])["outgoing"] = 0 /\ Accepted(rows[Mine(j)])["incoming"] = 0
      BY DEF Accepted, Status
    <3>3. /\ Goto(j, "agree") /\ willing' = willing
          /\ rows' = [rows EXCEPT ![Mine(j)] = Accepted(rows[Mine(j)])]
      BY <2>2 DEF FriendAccept
    <3>4. Theirs(j) = <<Mine(j)[2], Mine(j)[1]>>  BY PairShape
    <3>5. QED  BY <1>1, <1>2, <2>1, <3>1, <3>2, <3>3, <3>4, WriteConsent
  <2>3. CASE FriendAgree(j)
    <3>1. Accepted(rows[Theirs(j)]) \in [Status -> Nat]  BY <1>3, BagType
    <3>2. Accepted(rows[Theirs(j)])["outgoing"] = 0 /\ Accepted(rows[Theirs(j)])["incoming"] = 0
      BY DEF Accepted, Status
    <3>3. /\ Goto(j, "done") /\ willing' = willing
          /\ rows' = [rows EXCEPT ![Theirs(j)] = Accepted(rows[Theirs(j)])]
      BY <2>3 DEF FriendAgree
    <3>4. Mine(j) = <<Theirs(j)[2], Theirs(j)[1]>>  BY PairShape
    <3>5. QED  BY <1>1, <1>2, <2>1, <3>1, <3>2, <3>3, <3>4, WriteConsent
  <2>4. QED  BY <1>7, <2>2, <2>3
<1>8. QED  BY <1>5, <1>6, <1>7

LEMMA RemovalConsent ==
  ASSUME TypeOK, Consent, NEW j \in Jobs, Unrow(j) \/ Sever(j)
  PROVE  Consent'
<1>1. job[j].by # job[j].to  BY DEF Unrow, Sever, Consent, Entitled
<1>2. PICK p \in {Mine(j), Theirs(j)} : rows' = [rows EXCEPT ![p] = None]
  BY DEF Unrow, Sever
<1>3. p \in Sides  BY <1>2, SideType
<1>4. None \in [Status -> Nat]  BY DEF None
<1>5. None["outgoing"] = 0 /\ None["incoming"] = 0 /\ None["accepted"] = 0
  BY DEF None, Status
<1>6. PICK pc \in {"sever", "done"} : Goto(j, pc) /\ willing' = willing
  BY DEF Unrow, Sever
<1>7. ~(None["outgoing"] > 0) /\ ~(None["incoming"] > 0) /\ ~(None["accepted"] > 0)
  BY <1>5
<1>8. pc \in {"mirror", "agree", "sever", "done"} /\ pc # "mirror" /\ pc # "agree"
  BY <1>6
<1>9. QED  BY <1>1, <1>2, <1>3, <1>4, <1>6, <1>7, <1>8, WriteConsent

LEMMA BlockStepConsent ==
  ASSUME TypeOK, Consent, NEW j \in Jobs, BlockStep(j)
  PROVE  Consent'
<1>1. job[j] \in Request  BY SideType
<1>2. job[j].by # job[j].to
  BY DEF BlockStep, BlockRead, BlockCreate, Unblock, At, Consent, Entitled
<1>3. CASE \E pc \in {"block", "unrow", "done"} : Goto(j, pc)
  <2>1. PICK pc \in {"block", "unrow", "done"} : Goto(j, pc)  BY <1>3
  <2>2. pc \in Points  BY DEF Points
  <2>3. UNCHANGED <<rows, willing>>  BY DEF BlockStep, BlockRead, BlockCreate, Unblock
  <2>4. QED  BY <1>2, <2>1, <2>2, <2>3, MoveConsent
<1>4. CASE \E b \in Blocks(job[j].by, job[j].to) :
             job' = [job EXCEPT ![j].pc = "unblock", ![j].found = b.id]
  <2>1. PICK b \in Blocks(job[j].by, job[j].to) :
          job' = [job EXCEPT ![j] = [job[j] EXCEPT !.pc = "unblock", !.found = b.id]]
    BY <1>4, <1>1 DEF TypeOK, Request
  <2>2. /\ job'[j].pc = "unblock" /\ job'[j].by = job[j].by /\ job'[j].to = job[j].to
        /\ \A k \in Jobs \ {j} : job'[k] = job[k]
    BY <1>1, <2>1 DEF TypeOK, Request
  <2>3. UNCHANGED <<rows, willing>>  BY DEF BlockStep, BlockRead, BlockCreate, Unblock
  <2>4. ASSUME NEW k \in Jobs PROVE Entitled(k)'
    <3>1. CASE k = j  BY <1>2, <2>2, <3>1 DEF Entitled
    <3>2. CASE k # j  BY <2>2, <2>3, <3>2 DEF Consent, Entitled, Mine, Theirs
    <3>3. QED  BY <3>1, <3>2
  <2>5. QED  BY <2>3, <2>4 DEF Consent, Founded
<1>5. QED  BY <1>3, <1>4 DEF BlockStep, BlockRead, BlockCreate, Unblock

LEMMA EndConsent ==
  ASSUME TypeOK, Consent, NEW j \in Jobs, Finish(j) \/ Crash(j)
  PROVE  Consent'
<1>1. job' = [job EXCEPT ![j] = NoRequest] /\ UNCHANGED <<rows, willing>>
  BY DEF Finish, Crash
<1>2. NoRequest.pc = "done"  BY DEF NoRequest
<1>3. ASSUME NEW k \in Jobs PROVE Entitled(k)'
  <2>1. CASE k = j
    <3>1. job'[k].pc = "done"  BY <1>1, <1>2, <2>1 DEF TypeOK
    <3>2. QED  BY <3>1 DEF Entitled
  <2>2. CASE k # j
    <3>1. job'[k] = job[k]  BY <1>1, <2>2 DEF TypeOK
    <3>2. QED  BY <1>1, <3>1 DEF Consent, Entitled, Mine, Theirs
  <2>3. QED  BY <2>1, <2>2
<1>4. QED  BY <1>1, <1>3 DEF Consent, Founded

LEMMA NextConsent == TypeOK /\ Consent /\ [Next]_vars => Consent'
<1> SUFFICES ASSUME TypeOK, Consent, [Next]_vars PROVE Consent'
  OBVIOUS
<1>1. ASSUME NEW j \in Jobs,
             Arrive(j) \/ FriendStep(j) \/ BlockStep(j) \/ Finish(j) \/ Crash(j)
      PROVE  Consent'
  BY <1>1, ArriveConsent, FriendReadConsent, FriendWriteConsent, RemovalConsent,
     BlockStepConsent, EndConsent DEF FriendStep
<1>2. CASE UNCHANGED vars
  BY <1>2 DEF vars, Consent, Founded, Entitled, Mine, Theirs
<1>3. QED  BY <1>1, <1>2 DEF Next

LEMMA InitConsent == Init => Consent
<1> SUFFICES ASSUME Init PROVE Consent
  OBVIOUS
<1>1. \A p \in Sides : \A s \in Status : rows[p][s] = 0  BY DEF Init, None
<1>2. \A p \in Sides : Founded(p)  BY <1>1 DEF Founded, Status
<1>3. \A j \in Jobs : job[j].pc = "done"  BY DEF Init, NoRequest
<1>4. QED  BY <1>2, <1>3 DEF Consent, Entitled

------------------------------------------------------------------------------
(* The steps of Friends, seen through Shown. *)

LEMMA SameShown ==
  ASSUME UNCHANGED rows
  PROVE  Shown' = Shown
BY DEF Shown

\* Writing one side adds or removes at most that side.
LEMMA WriteShown ==
  ASSUME TypeOK, NEW p \in Sides, NEW f \in [Status -> Nat], rows' = [rows EXCEPT ![p] = f]
  PROVE  /\ f["accepted"] > 0 => Shown' = Shown \cup {p}
         /\ ~(f["accepted"] > 0) => Shown' = Shown \ {p}
<1>1. rows'[p] = f  BY DEF TypeOK
<1>2. \A q \in Sides : q # p => rows'[q] = rows[q]  BY DEF TypeOK
<1>3. QED  BY <1>1, <1>2 DEF Shown

LEMMA Simulation ==
  ASSUME TypeOK, Consent, NEW j \in Jobs,
         Arrive(j) \/ FriendStep(j) \/ BlockStep(j) \/ Finish(j) \/ Crash(j)
  PROVE  [Promise!Next]_<<willing, Shown>>
<1> DEFINE by == job[j].by
           to == job[j].to
<1>1. by \in Users /\ to \in Users /\ Mine(j) = <<by, to>> /\ Theirs(j) = <<to, by>>
  BY SideType DEF Mine, Theirs
<1>2. Mine(j) \in Sides /\ Theirs(j) \in Sides  BY SideType
<1>3. rows[Mine(j)] \in [Status -> Nat] /\ rows[Theirs(j)] \in [Status -> Nat]
  BY <1>2 DEF TypeOK
<1>4. job[j].pc # "done" => by # to  BY DEF Consent, Entitled
<1> HIDE DEF by, to
<1>5. CASE Arrive(j) \/ BlockStep(j) \/ Finish(j) \/ Crash(j)
  <2>1. UNCHANGED <<rows, willing>>
    BY <1>5 DEF Arrive, BlockStep, BlockRead, BlockCreate, Unblock, Finish, Crash
  <2>2. QED  BY <2>1, SameShown
<1>6. CASE FriendRead(j)
  <2>1. UNCHANGED rows /\ willing' \in {willing, willing \cup {<<by, to>>}} /\ by # to
    BY <1>1, <1>4, <1>6 DEF FriendRead, At
  <2>2. QED  BY <1>1, <2>1, SameShown DEF Promise!Next, Promise!Declare
<1>7. CASE FriendCreate(j) \/ FriendMirror(j)
  <2>1. PICK p \in {Mine(j), Theirs(j)}, s \in {"outgoing", "incoming"} :
          rows' = [rows EXCEPT ![p] = [rows[p] EXCEPT ![s] = rows[p][s] + 1]]
    BY <1>7 DEF FriendCreate, FriendMirror
  <2>2. p \in Sides /\ rows[p] \in [Status -> Nat]  BY <1>2, <1>3, <2>1
  <2> DEFINE f == [rows[p] EXCEPT ![s] = rows[p][s] + 1]
  <2>3. f \in [Status -> Nat] /\ f["accepted"] = rows[p]["accepted"]
    BY <2>1, <2>2, BagType DEF Status
  <2>4. rows' = [rows EXCEPT ![p] = f]  BY <2>1
  <2> HIDE DEF f
  <2>5. Shown' = Shown  BY <2>2, <2>3, <2>4, WriteShown DEF Shown
  <2>6. willing' = willing  BY <1>7 DEF FriendCreate, FriendMirror
  <2>7. QED  BY <2>5, <2>6
<1>8. CASE FriendAccept(j) \/ FriendAgree(j)
  <2>1. PICK p \in {Mine(j), Theirs(j)} : rows' = [rows EXCEPT ![p] = Accepted(rows[p])]
    BY <1>8 DEF FriendAccept, FriendAgree
  <2>2. p \in Sides /\ Accepted(rows[p]) \in [Status -> Nat]  BY <1>2, <1>3, <2>1, BagType
  <2>3. Shown' = Shown \cup {p} \/ Shown' = Shown \ {p}  BY <2>1, <2>2, WriteShown
  <2>4. <<by, to>> \in willing /\ <<to, by>> \in willing /\ by # to /\ willing' = willing
    BY <1>1, <1>4, <1>8 DEF FriendAccept, FriendAgree, At, Consent, Entitled
  <2>5. p = <<by, to>> \/ p = <<to, by>>  BY <1>1, <2>1
  <2>6. QED  BY <1>1, <2>3, <2>4, <2>5 DEF Promise!Next, Promise!Show, Promise!Hide
<1>9. CASE Unrow(j) \/ Sever(j)
  <2>1. PICK p \in {Mine(j), Theirs(j)} : rows' = [rows EXCEPT ![p] = None]
    BY <1>9 DEF Unrow, Sever
  <2>2. None \in [Status -> Nat] /\ ~(None["accepted"] > 0)
    BY DEF None, Status
  <2>3. Shown' = Shown \ {p}  BY <1>2, <2>1, <2>2, WriteShown
  <2>4. by # to /\ willing' = willing  BY <1>4, <1>9 DEF Unrow, Sever
  <2>5. p = <<by, to>> \/ p = <<to, by>>  BY <1>1, <2>1
  <2>6. QED  BY <1>1, <2>3, <2>4, <2>5 DEF Promise!Next, Promise!Hide
<1>10. QED  BY <1>5, <1>6, <1>7, <1>8, <1>9 DEF FriendStep

\* The friend list implements its promise: whatever requests of whatever users overlap,
\* and wherever a worker dies, a user appears on a friend list only after both users
\* have asked for it or agreed to it in requests of their own.
THEOREM FriendsKeepPromise == Spec => KeepsPromise
<1>1. Init => TypeOK /\ Consent /\ Promise!Init
  <2> SUFFICES ASSUME Init PROVE TypeOK /\ Consent /\ Promise!Init
    OBVIOUS
  <2>1. TypeOK
    BY NoRequestType, LimitAssumption DEF Init, TypeOK, None, Sides
  <2>2. Consent  BY InitConsent
  <2>3. Shown = {}
    <3>1. \A p \in Sides : \A s \in Status : rows[p][s] = 0  BY DEF Init, None
    <3>2. QED  BY <3>1 DEF Shown, Status
  <2>4. QED  BY <2>1, <2>2, <2>3 DEF Init, Promise!Init
<1>2. TypeOK /\ Consent /\ [Next]_vars => [Promise!Next]_<<willing, Shown>>
  <2> SUFFICES ASSUME TypeOK, Consent, [Next]_vars PROVE [Promise!Next]_<<willing, Shown>>
    OBVIOUS
  <2>1. CASE Next  BY <2>1, Simulation DEF Next
  <2>2. CASE UNCHANGED vars  BY <2>2, SameShown DEF vars
  <2>3. QED  BY <2>1, <2>2
<1>3. QED  BY <1>1, <1>2, NextConsent, FriendsTypeCorrect, PTL DEF Spec, KeepsPromise, Promise!Spec

------------------------------------------------------------------------------
\* What a step of a request leaves of the requests in flight: the others, and what
\* the request itself is about.
LEMMA StepFrame ==
  ASSUME TypeOK, NEW j \in Jobs, FriendStep(j) \/ BlockStep(j)
  PROVE  /\ \A k \in Jobs \ {j} : job'[k] = job[k]
         /\ job[j].pc # "done"
         /\ job'[j].op = job[j].op /\ job'[j].by = job[j].by /\ job'[j].to = job[j].to
         /\ job'[j].id = job[j].id /\ job'[j].clash = job[j].clash
<1>1. job[j] \in Request  BY SideType
<1>2. job[j].pc # "done"
  BY DEF FriendStep, FriendRead, FriendCreate, FriendMirror, FriendAccept, FriendAgree, Unrow,
         Sever, BlockStep, BlockRead, BlockCreate, Unblock, At
<1>3. CASE \E pc : Goto(j, pc)
  <2>1. PICK pc : job' = [job EXCEPT ![j] = [job[j] EXCEPT !.pc = pc]]
    BY <1>3 DEF Goto
  <2>2. QED  BY <1>1, <1>2, <2>1 DEF TypeOK, Request
<1>4. CASE \E f : job' = [job EXCEPT ![j].pc = "unblock", ![j].found = f]
  <2>1. PICK f : job' = [job EXCEPT ![j] = [job[j] EXCEPT !.pc = "unblock", !.found = f]]
    BY <1>1, <1>4 DEF TypeOK, Request
  <2>2. QED  BY <1>1, <1>2, <2>1 DEF TypeOK, Request
<1>5. (\E pc : Goto(j, pc)) \/ \E f : job' = [job EXCEPT ![j].pc = "unblock", ![j].found = f]
  BY DEF FriendStep, FriendRead, FriendCreate, FriendMirror, FriendAccept, FriendAgree, Unrow,
         Sever, BlockStep, BlockRead, BlockCreate, Unblock
<1>6. QED  BY <1>3, <1>4, <1>5

\* A request that arrives meets the unfinished requests of the same two users: it and
\* they are marked, and nothing else of them changes.
LEMMA ArriveFrame ==
  ASSUME TypeOK, NEW j \in Jobs, Arrive(j)
  PROVE  /\ job[j].op = "none"
         /\ job'[j].pc = "read" /\ job'[j].by \in Users /\ job'[j].to \in Users
         /\ job'[j].by # job'[j].to
         /\ \A k \in Jobs \ {j} :
              /\ job'[k].op = job[k].op /\ job'[k].pc = job[k].pc /\ job'[k].by = job[k].by
              /\ job'[k].to = job[k].to /\ job'[k].id = job[k].id
              /\ job[k].clash => job'[k].clash
              /\ job[k].pc # "done" /\ Pair(k) = {job'[j].by, job'[j].to} =>
                   job'[k].clash /\ job'[j].clash
              /\ ~job'[k].clash => job'[k] = job[k]
         /\ doubled \subseteq doubled'
         /\ \A k \in Jobs \ {j} :
              /\ job[k].pc # "done" /\ job[k].op = "block" /\ job'[j].op = "block"
              /\ job[k].by = job'[j].by /\ job[k].to = job'[j].to
              => <<job[k].by, job[k].to>> \in doubled'
<1>1. PICK op \in {"friend", "block"}, by \in Users, to \in Users, action \in Actions :
        by # to /\ Enter(j, op, by, to, action)
  BY DEF Arrive
<1> DEFINE rivals == Rivals(j, by, to)
           new == [op |-> op, pc |-> "read", by |-> by, to |-> to, action |-> action,
                   id |-> asked, found |-> 0, clash |-> rivals # {}]
<1>2. j \notin rivals  BY DEF Rivals
<1>3. job'[j] = new  BY <1>1, <1>2 DEF Enter
<1>4. \A k \in Jobs \ {j} : job'[k] = IF k \in rivals THEN [job[k] EXCEPT !.clash = TRUE] ELSE job[k]
  BY <1>1, <1>2 DEF Enter
<1>5. \A k \in Jobs \ {j} : k \in rivals <=> job[k].pc # "done" /\ Pair(k) = {by, to}
  BY DEF Rivals
<1>6. doubled' = IF op = "block" /\ \E k \in rivals : job[k].op = op /\ job[k].by = by
                THEN doubled \cup {<<by, to>>} ELSE doubled
  BY <1>1 DEF Enter
<1>7. /\ job'[j].pc = "read" /\ job'[j].by = by /\ job'[j].to = to /\ job'[j].op = op
      /\ job'[j].clash = (rivals # {})
  BY <1>3
<1> HIDE DEF new, rivals
<1>8. ASSUME NEW k \in Jobs \ {j}
      PROVE  /\ job'[k].op = job[k].op /\ job'[k].pc = job[k].pc /\ job'[k].by = job[k].by
             /\ job'[k].to = job[k].to /\ job'[k].id = job[k].id
             /\ job'[k].clash = (job[k].clash \/ k \in rivals)
             /\ k \notin rivals => job'[k] = job[k]
  <2>1. job[k] \in Request  BY SideType
  <2>2. CASE k \in rivals
    <3>1. job'[k] = [job[k] EXCEPT !.clash = TRUE]  BY <1>4, <2>2
    <3>2. QED  BY <2>1, <2>2, <3>1 DEF Request
  <2>3. CASE k \notin rivals
    <3>1. job'[k] = job[k]  BY <1>4, <2>3
    <3>2. job[k].clash \in BOOLEAN  BY <2>1 DEF Request
    <3>3. QED  BY <2>3, <3>1, <3>2
  <2>4. QED  BY <2>2, <2>3
<1>9. ASSUME NEW k \in Jobs \ {j}, job[k].pc # "done", job[k].op = "block",
             job'[j].op = "block", job[k].by = job'[j].by, job[k].to = job'[j].to
      PROVE  <<job[k].by, job[k].to>> \in doubled'
  <2>1. k \in rivals  BY <1>5, <1>7, <1>9 DEF Pair
  <2>2. QED  BY <1>6, <1>7, <1>9, <2>1
<1>10. doubled \subseteq doubled'  BY <1>6
<1>11. ASSUME NEW k \in Jobs \ {j}, job[k].pc # "done", Pair(k) = {job'[j].by, job'[j].to}
       PROVE  job'[k].clash /\ job'[j].clash
  <2>1. k \in rivals  BY <1>5, <1>7, <1>11
  <2>2. QED  BY <1>7, <1>8, <2>1
<1>12. job[j].op = "none"  BY DEF Arrive, Idle
<1>13. ASSUME NEW k \in Jobs \ {j}
       PROVE  /\ job[k].clash => job'[k].clash
              /\ ~job'[k].clash => job'[k] = job[k]
  BY <1>8
<1>14. QED  BY <1>1, <1>7, <1>8, <1>9, <1>10, <1>11, <1>12, <1>13

LEMMA EndFrame ==
  ASSUME TypeOK, NEW j \in Jobs, Finish(j) \/ Crash(j)
  PROVE  /\ \A k \in Jobs \ {j} : job'[k] = job[k]
         /\ job'[j].pc = "done" /\ job'[j].op = "none" /\ ~job'[j].clash
BY DEF Finish, Crash, TypeOK, NoRequest

------------------------------------------------------------------------------
(* One block.  Two block requests of one user against another are together *)
(* in flight only after an overlap, and a request that has found no block  *)
(* still finds none when it writes, unless they overlapped.                *)

Blocking(j) == job[j].op = "block" /\ job[j].pc # "done"

Apart ==
  \A j, k \in Jobs :
    j # k /\ Blocking(j) /\ Blocking(k) /\ Mine(j) = Mine(k) => Mine(j) \in doubled

Vacant(j) ==
  At(j, "block", "block") /\ Mine(j) \notin doubled => Blocks(job[j].by, job[j].to) = {}

Single(u, v) == \A a, b \in Blocks(u, v) : a = b

BlockOnce ==
  /\ Apart
  /\ \A j \in Jobs : Vacant(j)
  /\ \A u, v \in Users : <<u, v>> \notin doubled => Single(u, v)

LEMMA ArriveBlockOnce ==
  ASSUME TypeOK, BlockOnce, NEW j \in Jobs, Arrive(j)
  PROVE  BlockOnce'
<1>1. blocks' = blocks  BY DEF Arrive
<1>2. doubled \subseteq doubled'  BY ArriveFrame
<1>3. Apart'
  <2> SUFFICES ASSUME NEW k \in Jobs, NEW l \in Jobs, k # l,
                      Blocking(k)', Blocking(l)', Mine(k)' = Mine(l)'
               PROVE  Mine(k)' \in doubled'
    BY DEF Apart
  <2>1. CASE k # j /\ l # j
    <3>1. Blocking(k) /\ Blocking(l) /\ Mine(k) = Mine(l) /\ Mine(k)' = Mine(k)
      BY <2>1, ArriveFrame DEF Blocking, Mine
    <3>2. QED  BY <1>2, <3>1 DEF BlockOnce, Apart
  <2>2. CASE k = j
    <3>1. /\ job[l].pc # "done" /\ job[l].op = "block" /\ job'[j].op = "block"
          /\ job[l].by = job'[j].by /\ job[l].to = job'[j].to
      BY <2>2, ArriveFrame DEF Blocking, Mine
    <3>2. QED  BY <2>2, <3>1, ArriveFrame DEF Mine
  <2>3. CASE l = j
    <3>1. /\ job[k].pc # "done" /\ job[k].op = "block" /\ job'[j].op = "block"
          /\ job[k].by = job'[j].by /\ job[k].to = job'[j].to
      BY <2>3, ArriveFrame DEF Blocking, Mine
    <3>2. QED  BY <2>3, <3>1, ArriveFrame DEF Mine
  <2>4. QED  BY <2>1, <2>2, <2>3
<1>4. ASSUME NEW k \in Jobs PROVE Vacant(k)'
  <2>1. CASE k = j  BY <2>1, ArriveFrame DEF Vacant, At
  <2>2. CASE k # j
    <3>1. /\ job'[k].op = job[k].op /\ job'[k].pc = job[k].pc
          /\ job'[k].by = job[k].by /\ job'[k].to = job[k].to
      BY <2>2, ArriveFrame
    <3>2. QED  BY <1>1, <1>2, <3>1 DEF BlockOnce, Vacant, At, Mine, Blocks
  <2>3. QED  BY <2>1, <2>2
<1>5. \A u, v \in Users : (<<u, v>> \notin doubled => Single(u, v))'
  BY <1>1, <1>2 DEF BlockOnce, Single, Blocks
<1>6. QED  BY <1>3, <1>4, <1>5 DEF BlockOnce

\* A step that ends a request or moves it on, and that adds no block.
LEMMA FewerBlockOnce ==
  ASSUME TypeOK, BlockOnce, NEW j \in Jobs, doubled' = doubled, blocks' \subseteq blocks,
         \A k \in Jobs \ {j} : job'[k] = job[k],
         \/ job'[j].op # "block"
         \/ /\ Blocking(j) /\ job'[j].by = job[j].by /\ job'[j].to = job[j].to
            /\ job'[j].pc = "block" => Blocks(job[j].by, job[j].to) = {}
  PROVE  BlockOnce'
<1>1. ASSUME NEW k \in Jobs, Blocking(k)' PROVE Blocking(k) /\ Mine(k)' = Mine(k)
  BY <1>1 DEF Blocking, Mine
<1>2. Apart'  BY <1>1 DEF Apart, BlockOnce
<1>3. \A u, v : Blocks(u, v)' \subseteq Blocks(u, v)  BY DEF Blocks
<1>4. ASSUME NEW k \in Jobs PROVE Vacant(k)'
  <2>1. CASE k = j  BY <1>3, <2>1 DEF Vacant, At
  <2>2. CASE k # j  BY <1>3, <2>2 DEF Vacant, At, BlockOnce, Mine
  <2>3. QED  BY <2>1, <2>2
<1>5. \A u, v \in Users : (<<u, v>> \notin doubled => Single(u, v))'
  BY <1>3 DEF BlockOnce, Single
<1>6. QED  BY <1>2, <1>4, <1>5 DEF BlockOnce

LEMMA BlockCreateOnce ==
  ASSUME TypeOK, BlockOnce, NEW j \in Jobs, BlockCreate(j)
  PROVE  BlockOnce'
<1> DEFINE new == [by |-> job[j].by, of |-> job[j].to, id |-> job[j].id]
<1>1. Blocking(j)  BY DEF BlockCreate, At, Blocking
<1>2. /\ \A k \in Jobs \ {j} : job'[k] = job[k]
      /\ job'[j].op = job[j].op /\ job'[j].by = job[j].by /\ job'[j].to = job[j].to
  BY StepFrame DEF BlockStep
<1>3. job'[j].pc = "unrow"
  BY SideType DEF BlockCreate, Goto, TypeOK, Request
<1>4. blocks' = blocks \cup {new} /\ doubled' = doubled  BY DEF BlockCreate
<1>5. \A u, v : <<u, v>> # Mine(j) => Blocks(u, v)' = Blocks(u, v)
  BY <1>4 DEF Blocks, Mine
<1>6. Blocks(job[j].by, job[j].to)' \subseteq Blocks(job[j].by, job[j].to) \cup {new}
  BY <1>2, <1>4 DEF Blocks
<1>7. Apart'
  <2>1. ASSUME NEW k \in Jobs, Blocking(k)' PROVE Blocking(k) /\ Mine(k)' = Mine(k)
    BY <1>1, <1>2, <2>1 DEF Blocking, Mine
  <2>2. QED  BY <1>4, <2>1 DEF Apart, BlockOnce
<1>8. ASSUME NEW k \in Jobs PROVE Vacant(k)'
  <2>1. CASE k = j  BY <1>3, <2>1 DEF Vacant, At
  <2>2. CASE k # j /\ Mine(k) = Mine(j)
    <3>1. At(k, "block", "block")' => Mine(k)' \in doubled'
      BY <1>1, <1>2, <1>4, <2>2 DEF At, Blocking, BlockOnce, Apart, Mine
    <3>2. QED  BY <3>1 DEF Vacant
  <2>3. CASE k # j /\ Mine(k) # Mine(j)
    <3>1. job'[k] = job[k]  BY <1>2, <2>3
    <3>2. Blocks(job[k].by, job[k].to)' = Blocks(job[k].by, job[k].to)
      BY <1>4, <2>3, <3>1 DEF Mine, Blocks
    <3>3. QED  BY <1>4, <3>1, <3>2 DEF Vacant, At, Mine, BlockOnce
  <2>4. QED  BY <2>1, <2>2, <2>3
<1>9. ASSUME NEW u \in Users, NEW v \in Users, <<u, v>> \notin doubled
      PROVE  Single(u, v)'
  <2>1. CASE <<u, v>> = Mine(j)
    <3>1. u = job[j].by /\ v = job[j].to  BY <2>1 DEF Mine
    <3>2. Blocks(u, v) = {}
      BY <1>9, <2>1, <3>1 DEF BlockOnce, Vacant, BlockCreate
    <3>3. Blocks(u, v)' \subseteq {new}  BY <1>4, <3>2 DEF Blocks
    <3>4. QED  BY <3>3 DEF Single
  <2>2. CASE <<u, v>> # Mine(j)
    BY <1>5, <1>9, <2>2 DEF BlockOnce, Single
  <2>3. QED  BY <2>1, <2>2
<1>10. QED  BY <1>4, <1>7, <1>8, <1>9 DEF BlockOnce

LEMMA NextBlockOnce == TypeOK /\ BlockOnce /\ [Next]_vars => BlockOnce'
<1> SUFFICES ASSUME TypeOK, BlockOnce, [Next]_vars PROVE BlockOnce'
  OBVIOUS
<1>1. ASSUME NEW j \in Jobs, Finish(j) \/ Crash(j) PROVE BlockOnce'
  <2>1. doubled' = doubled /\ blocks' = blocks  BY <1>1 DEF Finish, Crash
  <2>2. QED  BY <1>1, <2>1, EndFrame, FewerBlockOnce
<1>2. ASSUME NEW j \in Jobs, FriendStep(j) \/ BlockRead(j) \/ Unblock(j) PROVE BlockOnce'
  <2>1. FriendStep(j) \/ BlockStep(j)  BY <1>2 DEF BlockStep
  <2>2. doubled' = doubled /\ blocks' \subseteq blocks
    BY <1>2 DEF FriendStep, FriendRead, FriendCreate, FriendMirror, FriendAccept, FriendAgree,
                Unrow, Sever, BlockRead, Unblock, Disturb
  <2>3. job'[j].op = "block" /\ job'[j].pc = "block" => Blocks(job[j].by, job[j].to) = {}
    <3>1. job[j] \in Request  BY SideType
    <3>2. CASE FriendStep(j)
      <4>1. CASE job[j].op = "friend"  BY <2>1, <4>1, StepFrame
      <4>2. CASE Unrow(j)  BY <3>1, <4>2 DEF Unrow, Goto, TypeOK, Request
      <4>3. CASE Sever(j)  BY <3>1, <4>3 DEF Sever, Goto, TypeOK, Request
      <4>4. QED  BY <3>2, <4>1, <4>2, <4>3 DEF FriendStep, FriendRead, FriendCreate, FriendMirror,
                                         FriendAccept, FriendAgree, At
    <3>3. CASE BlockRead(j)
      <4>1. CASE Blocks(job[j].by, job[j].to) = {}  BY <4>1
      <4>2. CASE Blocks(job[j].by, job[j].to) # {}
        <5>1. PICK f : job' = [job EXCEPT ![j] = [job[j] EXCEPT !.pc = "unblock", !.found = f]]
          BY <3>1, <3>3, <4>2 DEF BlockRead, TypeOK, Request
        <5>2. job'[j].pc = "unblock"  BY <3>1, <5>1 DEF TypeOK, Request
        <5>3. QED  BY <5>2
      <4>3. QED  BY <4>1, <4>2
    <3>4. CASE Unblock(j)  BY <3>1, <3>4 DEF Unblock, Goto, TypeOK, Request
    <3>5. QED  BY <1>2, <3>2, <3>3, <3>4
  <2>4. CASE job[j].op = "block"
    BY <2>1, <2>2, <2>3, <2>4, StepFrame, FewerBlockOnce DEF Blocking
  <2>5. CASE job[j].op # "block"
    BY <2>1, <2>2, <2>5, StepFrame, FewerBlockOnce
  <2>6. QED  BY <2>4, <2>5
<1>3. ASSUME NEW j \in Jobs,
             Arrive(j) \/ FriendStep(j) \/ BlockStep(j) \/ Finish(j) \/ Crash(j)
      PROVE  BlockOnce'
  BY <1>1, <1>2, <1>3, ArriveBlockOnce, BlockCreateOnce DEF BlockStep
<1>4. CASE UNCHANGED vars
  BY <1>4 DEF vars, BlockOnce, Apart, Blocking, Vacant, At, Mine, Single, Blocks
<1>5. QED  BY <1>3, <1>4 DEF Next

\* However requests overlap and workers die, a user is blocked at most once by another
\* unless two block requests of the one against the other overlapped.
THEOREM BlockedOnce == Spec => []OneBlock
<1>1. Init => BlockOnce
  BY DEF Init, BlockOnce, Apart, Blocking, Vacant, At, Single, Blocks, NoRequest
<1>2. BlockOnce => OneBlock
  <2> SUFFICES ASSUME BlockOnce, NEW u \in Users, NEW v \in Users, <<u, v>> \notin doubled
               PROVE  Cardinality(Blocks(u, v)) <= 1
    BY DEF OneBlock
  <2>1. Single(u, v)  BY DEF BlockOnce
  <2>2. CASE Blocks(u, v) = {}
    <3>1. Cardinality(Blocks(u, v)) = 0  BY <2>2, FS_EmptySet, Zenon
    <3>2. QED  BY <3>1
  <2>3. CASE Blocks(u, v) # {}
    <3>1. PICK b : Blocks(u, v) = {b}  BY <2>1, <2>3 DEF Single
    <3>2. Cardinality({b}) = 1  BY FS_Singleton, Zenon
    <3>3. QED  BY <3>1, <3>2
  <2>4. QED  BY <2>2, <2>3
<1>3. QED  BY <1>1, <1>2, NextBlockOnce, FriendsTypeCorrect, PTL DEF Spec

------------------------------------------------------------------------------
(* The two sides of a pair.  A request that overlaps no other one of its   *)
(* two users finds the rows as its own earlier writes left them (Tale), so *)
(* that a pair is uneven only while such a request is between its two      *)
(* writes, or is counted among the accidents.                              *)

Mid == {"mirror", "agree", "sever"}

Stories ==
  {<<None, None>>, <<Only("outgoing"), Only("incoming")>>,
   <<Only("incoming"), Only("outgoing")>>, <<Only("accepted"), Only("accepted")>>}

Rivalry ==
  \A j, k \in Jobs :
    j # k /\ job[j].pc # "done" /\ job[k].pc # "done" /\ Pair(j) = Pair(k) => job[j].clash

Told(pc, mine, theirs, even) ==
  /\ pc = "sever" => mine = None
  /\ even =>
       /\ pc = "create" => mine = None /\ theirs = None
       /\ pc = "mirror" => mine = Only("outgoing") /\ theirs = None
       /\ pc = "accept" => mine = Only("incoming") /\ theirs = Only("outgoing")
       /\ pc = "agree" => mine = Only("accepted") /\ theirs = Only("outgoing")

Tale(j) ==
  job[j].pc # "done" /\ ~job[j].clash =>
    Told(job[j].pc, rows[Mine(j)], rows[Theirs(j)], Pair(j) \notin accidents)

Between(u, v) == \E j \in Jobs : job[j].pc \in Mid /\ Pair(j) = {u, v}

Even(u, v) ==
  u # v /\ {u, v} \notin accidents =>
    <<rows[<<u, v>>], rows[<<v, u>>]>> \in Stories \/ Between(u, v)

Mirrored ==
  /\ \A j \in Jobs : Idle(j) => job[j].pc = "done"
  /\ Rivalry
  /\ \A j \in Jobs : Tale(j)
  /\ \A u, v \in Users : Even(u, v)

LEMMA BagFacts ==
  /\ None \in [Status -> Nat]
  /\ \A s \in Status : None[s] = 0 /\ Only(s) \in [Status -> Nat] /\ Only(s)[s] = 1
  /\ \A s, t \in Status : Only(s)[t] > 0 => s = t
  /\ \A s \in Status : [None EXCEPT ![s] = None[s] + 1] = Only(s)
  /\ \A s \in Status : Accepted(Only(s)) = Only("accepted")
<1>1. None \in [Status -> Nat] /\ \A s \in Status : None[s] = 0  BY DEF None
<1>2. \A s \in Status : Only(s) = [t \in Status |-> IF t = s THEN 1 ELSE 0]
  BY <1>1 DEF Only, None
<1>3. ASSUME NEW s \in Status PROVE [None EXCEPT ![s] = None[s] + 1] = Only(s)
  <2>1. None[s] + 1 = 1  BY <1>1
  <2>2. QED  BY <2>1 DEF Only
<1>4. ASSUME NEW s \in Status PROVE Accepted(Only(s)) = Only("accepted")
  <2>1. "accepted" \in Status  BY DEF Status
  <2>2. Only(s)["outgoing"] + Only(s)["incoming"] + Only(s)["accepted"] = 1
    BY <1>2 DEF Status
  <2>3. QED  BY <1>2, <2>1, <2>2 DEF Accepted
<1>5. \A s \in Status : Only(s) \in [Status -> Nat] /\ Only(s)[s] = 1  BY <1>2
<1>6. \A s, t \in Status : Only(s)[t] > 0 => s = t  BY <1>2
<1>7. QED  BY <1>1, <1>3, <1>4, <1>5, <1>6

\* One row of a side of a pair that tells one story says what both sides are.
LEMMA StoryOfRow ==
  ASSUME NEW m, NEW t, <<m, t>> \in Stories
  PROVE  /\ m = None => t = None
         /\ m # None => \A s \in Status : m[s] > 0 => m = Only(s)
         /\ m = Only("incoming") => t = Only("outgoing")
         /\ <<t, m>> \in Stories
<1>1. "outgoing" \in Status /\ "incoming" \in Status /\ "accepted" \in Status  BY DEF Status
<1>2. /\ Only("outgoing") # None /\ Only("incoming") # None /\ Only("accepted") # None
      /\ Only("incoming") # Only("outgoing") /\ Only("incoming") # Only("accepted")
  <2>1. /\ Only("outgoing")["outgoing"] = 1 /\ Only("incoming")["incoming"] = 1
        /\ Only("accepted")["accepted"] = 1
    BY <1>1, BagFacts
  <2>2. None["outgoing"] = 0 /\ None["incoming"] = 0 /\ None["accepted"] = 0
    BY <1>1, BagFacts
  <2>3. ~(Only("outgoing")["incoming"] > 0) /\ ~(Only("accepted")["incoming"] > 0)
    BY <1>1, BagFacts
  <2>4. QED  BY <2>1, <2>2, <2>3
<1>3. m = None => t = None  BY <1>2 DEF Stories
<1>4. ASSUME m # None, NEW s \in Status, m[s] > 0 PROVE m = Only(s)
  <2>1. PICK q \in Status : m = Only(q)  BY <1>1, <1>4 DEF Stories
  <2>2. QED  BY <1>4, <2>1, BagFacts
<1>5. m = Only("incoming") => t = Only("outgoing")  BY <1>2 DEF Stories
<1>6. <<t, m>> \in Stories  BY DEF Stories
<1>7. QED  BY <1>3, <1>4, <1>5, <1>6

\* No other request of the two users of an undisturbed request is under way.
LEMMA Alone ==
  ASSUME Mirrored, NEW j \in Jobs, NEW k \in Jobs \ {j}, job[j].pc # "done",
         job[k].pc # "done", Pair(k) = Pair(j)
  PROVE  job[j].clash /\ job[k].clash
BY DEF Mirrored, Rivalry

\* A step of a request, reduced to what it does to its own pair.
LEMMA PairStep ==
  ASSUME TypeOK, Consent, Mirrored, NEW j \in Jobs, job[j].pc # "done",
         \A k \in Jobs \ {j} : job'[k] = job[k],
         job'[j].op = job[j].op, job'[j].by = job[j].by, job'[j].to = job[j].to,
         job'[j].clash = job[j].clash,
         \A p \in Sides : p # Mine(j) /\ p # Theirs(j) => rows'[p] = rows[p],
         \A P : P # Pair(j) => (P \in accidents' <=> P \in accidents),
         Tale(j)',
         \/ Pair(j) \in accidents'
         \/ job'[j].pc \in Mid
         \/ <<rows'[Mine(j)], rows'[Theirs(j)]>> \in Stories
         \/ rows' = rows /\ job[j].pc \notin Mid /\ accidents' = accidents
  PROVE  Mirrored'
<1>1. job[j].by # job[j].to  BY DEF Consent, Entitled
<1>2. \A k \in Jobs : Pair(k)' = Pair(k) /\ Mine(k)' = Mine(k) /\ Theirs(k)' = Theirs(k)
  BY DEF Pair, Mine, Theirs
<1>3. \A k \in Jobs : job'[k].pc # "done" => job[k].pc # "done"  OBVIOUS
<1>4. \A k \in Jobs : job'[k].clash = job[k].clash  OBVIOUS
<1>5. Rivalry'  BY <1>2, <1>3, <1>4 DEF Mirrored, Rivalry
<1>6. ASSUME NEW k \in Jobs \ {j} PROVE Tale(k)'
  <2>1. job'[k] = job[k]  OBVIOUS
  <2>2. CASE job[k].pc = "done" \/ job[k].clash  BY <2>1, <2>2 DEF Tale
  <2>3. CASE job[k].pc # "done" /\ ~job[k].clash
    <3>1. Pair(k) # Pair(j)  BY <2>3, Alone
    <3>2. /\ Mine(k) # Mine(j) /\ Mine(k) # Theirs(j)
          /\ Theirs(k) # Mine(j) /\ Theirs(k) # Theirs(j)
      BY <3>1 DEF Mine, Theirs, Pair
    <3>3. Mine(k) \in Sides /\ Theirs(k) \in Sides  BY SideType
    <3>4. rows'[Mine(k)] = rows[Mine(k)] /\ rows'[Theirs(k)] = rows[Theirs(k)]
      BY <3>2, <3>3
    <3>5. Pair(k) \in accidents' <=> Pair(k) \in accidents  BY <3>1
    <3>6. Tale(k)  BY DEF Mirrored
    <3>7. QED  BY <1>2, <2>1, <3>4, <3>5, <3>6 DEF Tale, Told
  <2>4. QED  BY <2>2, <2>3
<1>7. ASSUME NEW u \in Users, NEW v \in Users PROVE Even(u, v)'
  <2>1. CASE {u, v} # Pair(j)
    <3>1. <<u, v>> # Mine(j) /\ <<u, v>> # Theirs(j) /\ <<v, u>> # Mine(j) /\ <<v, u>> # Theirs(j)
      BY <2>1 DEF Pair, Mine, Theirs
    <3>2. <<u, v>> \in Sides /\ <<v, u>> \in Sides  BY DEF Sides
    <3>3. rows'[<<u, v>>] = rows[<<u, v>>] /\ rows'[<<v, u>>] = rows[<<v, u>>]
      BY <3>1, <3>2
    <3>4. {u, v} \in accidents' <=> {u, v} \in accidents  BY <2>1
    <3>5. Between(u, v) => Between(u, v)'
      <4>1. SUFFICES ASSUME NEW k \in Jobs, job[k].pc \in Mid, Pair(k) = {u, v}
                     PROVE  job'[k].pc \in Mid /\ Pair(k)' = {u, v}
        BY DEF Between
      <4>2. k # j  BY <2>1, <4>1
      <4>3. QED  BY <1>2, <4>1, <4>2
    <3>6. Even(u, v)  BY DEF Mirrored
    <3>7. QED  BY <3>3, <3>4, <3>5, <3>6 DEF Even, Stories
  <2>2. CASE {u, v} = Pair(j)
    <3> SUFFICES ASSUME u # v, {u, v} \notin accidents'
                 PROVE  <<rows'[<<u, v>>], rows'[<<v, u>>]>> \in Stories \/ Between(u, v)'
      BY DEF Even, Stories, None, Only
    <3>1. CASE job'[j].pc \in Mid
      BY <1>2, <2>2, <3>1 DEF Between, Mid
    <3>2. CASE <<rows'[Mine(j)], rows'[Theirs(j)]>> \in Stories
      <4>1. \/ Mine(j) = <<u, v>> /\ Theirs(j) = <<v, u>>
            \/ Mine(j) = <<v, u>> /\ Theirs(j) = <<u, v>>
        BY <1>1, <2>2 DEF Mine, Theirs, Pair
      <4>2. QED  BY <3>2, <4>1, StoryOfRow
    <3>3. CASE rows' = rows /\ job[j].pc \notin Mid /\ accidents' = accidents
      <4>1. Between(u, v) => Between(u, v)'
        <5>1. SUFFICES ASSUME NEW k \in Jobs, job[k].pc \in Mid, Pair(k) = {u, v}
                       PROVE  job'[k].pc \in Mid /\ Pair(k)' = {u, v}
          BY DEF Between
        <5>2. k # j  BY <3>3, <5>1
        <5>3. QED  BY <1>2, <5>1, <5>2
      <4>2. Even(u, v)  BY DEF Mirrored
      <4>3. QED  BY <3>3, <4>1, <4>2 DEF Even
    <3>4. QED  BY <2>2, <3>1, <3>2, <3>3
  <2>3. QED  BY <2>1, <2>2
<1>8. \A k \in Jobs : (Idle(k) => job[k].pc = "done")'  BY DEF Mirrored, Idle
<1>9. QED  BY <1>5, <1>6, <1>7, <1>8 DEF Mirrored

LEMMA ArriveMirrored ==
  ASSUME TypeOK, Mirrored, NEW j \in Jobs, Arrive(j)
  PROVE  Mirrored'
<1>1. rows' = rows /\ accidents' = accidents  BY DEF Arrive
<1>2. Pair(j)' = {job'[j].by, job'[j].to}  BY DEF Pair
<1>3. \A k \in Jobs \ {j} : Pair(k)' = Pair(k)  BY ArriveFrame DEF Pair
<1>4. Rivalry'
  <2> SUFFICES ASSUME NEW k \in Jobs, NEW l \in Jobs, k # l, job'[k].pc # "done",
                      job'[l].pc # "done", Pair(k)' = Pair(l)'
               PROVE  job'[k].clash
    BY DEF Rivalry
  <2>1. CASE k # j /\ l # j
    <3>1. job[k].clash
      BY <1>3, <2>1, ArriveFrame DEF Mirrored, Rivalry
    <3>2. QED  BY <2>1, <3>1, ArriveFrame
  <2>2. CASE k = j  BY <1>2, <1>3, <2>2, ArriveFrame
  <2>3. CASE l = j  BY <1>2, <1>3, <2>3, ArriveFrame
  <2>4. QED  BY <2>1, <2>2, <2>3
<1>5. ASSUME NEW k \in Jobs PROVE Tale(k)'
  <2>1. CASE k = j  BY <2>1, ArriveFrame DEF Tale, Told
  <2>2. CASE k # j /\ job'[k].clash  BY <2>2 DEF Tale
  <2>3. CASE k # j /\ ~job'[k].clash
    <3>1. job'[k] = job[k]  BY <2>3, ArriveFrame
    <3>2. Tale(k)  BY DEF Mirrored
    <3>3. QED  BY <1>1, <3>1, <3>2 DEF Tale, Told, Mine, Theirs, Pair
  <2>4. QED  BY <2>1, <2>2, <2>3
<1>6. ASSUME NEW u \in Users, NEW v \in Users PROVE Even(u, v)'
  <2>1. Between(u, v) => Between(u, v)'
    <3>1. SUFFICES ASSUME NEW k \in Jobs, job[k].pc \in Mid, Pair(k) = {u, v}
                   PROVE  Between(u, v)'
      BY DEF Between
    <3>2. CASE k # j  BY <1>3, <3>1, <3>2, ArriveFrame DEF Between, Mid
    <3>3. CASE k = j
      <4>1. job[j].pc = "done"  BY ArriveFrame DEF Mirrored, Idle
      <4>2. QED  BY <3>1, <3>3, <4>1 DEF Mid
    <3>4. QED  BY <3>2, <3>3
  <2>2. Even(u, v)  BY DEF Mirrored
  <2>3. QED  BY <1>1, <2>1, <2>2 DEF Even, Stories
<1>7. ASSUME NEW k \in Jobs, Idle(k)' PROVE job'[k].pc = "done"
  <2>1. k # j  BY <1>7 DEF Arrive, Enter, Idle, Rivals
  <2>2. QED  BY <1>7, <2>1, ArriveFrame DEF Mirrored, Idle
<1>8. QED  BY <1>4, <1>5, <1>6, <1>7 DEF Mirrored

LEMMA EndMirrored ==
  ASSUME TypeOK, Mirrored, NEW j \in Jobs, Finish(j) \/ Crash(j)
  PROVE  Mirrored'
<1>1. rows' = rows  BY DEF Finish, Crash
<1>2. accidents' = accidents \/ (accidents' = accidents \cup {Pair(j)})
  BY DEF Finish, Crash
<1>3. job[j].pc \in Mid => Pair(j) \in accidents'  BY DEF Finish, Crash, Mid
<1>4. \A k \in Jobs \ {j} : job'[k] = job[k]  BY EndFrame
<1>5. job'[j].pc = "done"  BY EndFrame
<1>6. Rivalry'  BY <1>4, <1>5 DEF Mirrored, Rivalry, Pair
<1>7. ASSUME NEW k \in Jobs PROVE Tale(k)'
  <2>1. CASE k = j  BY <1>5, <2>1 DEF Tale
  <2>2. CASE k # j
    <3>1. job'[k] = job[k] /\ Tale(k)  BY <1>4, <2>2 DEF Mirrored
    <3>2. Pair(k) \notin accidents' => Pair(k) \notin accidents  BY <1>2
    <3>3. QED  BY <1>1, <3>1, <3>2 DEF Tale, Told, Mine, Theirs, Pair
  <2>3. QED  BY <2>1, <2>2
<1>8. ASSUME NEW u \in Users, NEW v \in Users PROVE Even(u, v)'
  <2>1. {u, v} \notin accidents' /\ Between(u, v) => Between(u, v)'
    <3>1. SUFFICES ASSUME {u, v} \notin accidents', NEW k \in Jobs, job[k].pc \in Mid,
                          Pair(k) = {u, v}
                   PROVE  Between(u, v)'
      BY DEF Between
    <3>2. k # j  BY <1>3, <3>1
    <3>3. QED  BY <1>4, <3>1, <3>2 DEF Between, Mid, Pair
  <2>2. Even(u, v)  BY DEF Mirrored
  <2>3. QED  BY <1>1, <1>2, <2>1, <2>2 DEF Even, Stories
<1>9. \A k \in Jobs : (Idle(k) => job[k].pc = "done")'  BY <1>4, <1>5 DEF Mirrored, Idle
<1>10. QED  BY <1>6, <1>7, <1>8, <1>9 DEF Mirrored

\* The read of friend(): what it decides fits the rows it has seen, because an even
\* pair with no other request under way tells one of the stories.
LEMMA FriendReadMirrored ==
  ASSUME TypeOK, Consent, Mirrored, NEW j \in Jobs, FriendRead(j)
  PROVE  Mirrored'
<1> DEFINE m == rows[Mine(j)]
           t == rows[Theirs(j)]
<1>1. /\ job[j].pc = "read" /\ job[j].pc \notin Mid
      /\ rows' = rows /\ accidents' = accidents
  BY DEF FriendRead, At, Mid
<1>2. PICK pc \in {"done", "create", "unrow", "accept"} :
        /\ Goto(j, pc)
        /\ pc = "create" => m = None
        /\ pc = "accept" => m["incoming"] > 0
        /\ m = None => pc \in {"create", "done"}
  <2>1. None["outgoing"] = 0 /\ None["incoming"] = 0 /\ None["accepted"] = 0
    BY BagFacts DEF Status
  <2>2. CASE m = None /\ Goto(j, IF job[j].to \in Closed THEN "done" ELSE "create")
    BY <2>1, <2>2
  <2>3. CASE \E s \in Status : m[s] > 0 /\ Goto(j, Decision(job[j].action, s))
    <3>1. PICK s \in Status : m[s] > 0 /\ Goto(j, Decision(job[j].action, s))  BY <2>3
    <3>2. m # None  BY <2>1, <3>1 DEF Status
    <3>3. /\ Decision(job[j].action, s) \in {"done", "unrow", "accept"}
          /\ Decision(job[j].action, s) = "accept" => s = "incoming"
      BY DEF Decision
    <3>4. QED  BY <3>1, <3>2, <3>3
  <2>4. QED  BY <2>2, <2>3 DEF FriendRead
<1>3. job'[j].pc = pc  BY <1>2, SideType DEF Goto, TypeOK, Request
<1>4. /\ \A k \in Jobs \ {j} : job'[k] = job[k]
      /\ job[j].pc # "done"
      /\ job'[j].op = job[j].op /\ job'[j].by = job[j].by /\ job'[j].to = job[j].to
      /\ job'[j].clash = job[j].clash
  BY StepFrame DEF FriendStep
<1>5. ASSUME ~job[j].clash, Pair(j) \notin accidents PROVE <<m, t>> \in Stories
  <2>1. job[j].by \in Users /\ job[j].to \in Users /\ job[j].by # job[j].to
    BY <1>4, SideType DEF Consent, Entitled
  <2>2. Even(job[j].by, job[j].to)  BY <2>1 DEF Mirrored
  <2>3. ~Between(job[j].by, job[j].to)
    <3>1. SUFFICES ASSUME NEW k \in Jobs, job[k].pc \in Mid, Pair(k) = {job[j].by, job[j].to}
                   PROVE  FALSE
      BY DEF Between
    <3>2. k # j /\ job[k].pc # "done" /\ Pair(k) = Pair(j)  BY <1>1, <3>1 DEF Mid, Pair
    <3>3. QED  BY <1>4, <1>5, <3>2, Alone
  <2>4. QED  BY <1>5, <2>1, <2>2, <2>3 DEF Even, Mine, Theirs, Pair
<1>6. Tale(j)'
  <2> SUFFICES ASSUME pc # "done", ~job[j].clash
               PROVE  Told(pc, m, t, Pair(j) \notin accidents)
    BY <1>1, <1>3, <1>4 DEF Tale, Told, Mine, Theirs, Pair
  <2>1. pc = "create" /\ Pair(j) \notin accidents => m = None /\ t = None
    BY <1>2, <1>5, StoryOfRow
  <2>2. pc = "accept" /\ Pair(j) \notin accidents => m = Only("incoming") /\ t = Only("outgoing")
    BY <1>2, <1>5, StoryOfRow DEF Status
  <2> HIDE DEF m, t
  <2>3. QED  BY <1>2, <2>1, <2>2 DEF Told
<1> HIDE DEF m, t
<1>7. QED  BY <1>1, <1>4, <1>6, PairStep

\* Every other step of a request.
LEMMA WriteMirrored ==
  ASSUME TypeOK, Consent, Mirrored, NEW j \in Jobs,
         \/ FriendCreate(j) \/ FriendMirror(j) \/ FriendAccept(j) \/ FriendAgree(j)
         \/ Unrow(j) \/ Sever(j)
  PROVE  Mirrored'
<1> DEFINE m == rows[Mine(j)]
           t == rows[Theirs(j)]
<1>1. /\ \A k \in Jobs \ {j} : job'[k] = job[k]
      /\ job[j].pc # "done"
      /\ job'[j].op = job[j].op /\ job'[j].by = job[j].by /\ job'[j].to = job[j].to
      /\ job'[j].clash = job[j].clash
  BY StepFrame DEF FriendStep
<1>2. /\ Mine(j) \in Sides /\ Theirs(j) \in Sides /\ Mine(j) # Theirs(j)
      /\ rows \in [Sides -> [Status -> Nat]]
  BY <1>1, SideType DEF Consent, Entitled, Mine, Theirs, TypeOK
<1>3. Mine(j)' = Mine(j) /\ Theirs(j)' = Theirs(j) /\ Pair(j)' = Pair(j)
  BY <1>1 DEF Mine, Theirs, Pair
<1>4. /\ \A P : P # Pair(j) => (P \in accidents' <=> P \in accidents)
      /\ job[j].clash => Pair(j) \in accidents'
      /\ ~job[j].clash => accidents' = IF Sever(j) THEN accidents \ {Pair(j)} ELSE accidents
  <2>1. job[j].clash => (accidents' = accidents \cup {Pair(j)})
    BY DEF FriendCreate, FriendMirror, FriendAccept, FriendAgree, Unrow, Sever, Disturb
  <2>2. ~Sever(j) /\ ~job[j].clash => accidents' = accidents
    BY DEF FriendCreate, FriendMirror, FriendAccept, FriendAgree, Unrow, Disturb
  <2>3. Sever(j) /\ ~job[j].clash => (accidents' = accidents \ {Pair(j)})
    BY DEF Sever
  <2>4. QED  BY <2>1, <2>2, <2>3
<1>5. /\ job[j].pc \in {"create", "mirror", "accept", "agree", "unrow", "sever"}
      /\ Sever(j) <=> job[j].pc = "sever"
      /\ job[j].pc = "create" =>
           Goto(j, "mirror") /\ rows' = [rows EXCEPT ![Mine(j)] = [m EXCEPT !["outgoing"] = m["outgoing"] + 1]]
      /\ job[j].pc = "mirror" =>
           Goto(j, "done") /\ rows' = [rows EXCEPT ![Theirs(j)] = [t EXCEPT !["incoming"] = t["incoming"] + 1]]
      /\ job[j].pc = "accept" =>
           Goto(j, "agree") /\ rows' = [rows EXCEPT ![Mine(j)] = Accepted(m)]
      /\ job[j].pc = "agree" =>
           Goto(j, "done") /\ rows' = [rows EXCEPT ![Theirs(j)] = Accepted(t)]
      /\ job[j].pc = "unrow" => Goto(j, "sever") /\ rows' = [rows EXCEPT ![Mine(j)] = None]
      /\ job[j].pc = "sever" => Goto(j, "done") /\ rows' = [rows EXCEPT ![Theirs(j)] = None]
  <2>1. CASE FriendCreate(j)  BY <2>1 DEF FriendCreate, At, Sever
  <2>2. CASE FriendMirror(j)  BY <2>2 DEF FriendMirror, At, Sever
  <2>3. CASE FriendAccept(j)  BY <2>3 DEF FriendAccept, At, Sever
  <2>4. CASE FriendAgree(j)  BY <2>4 DEF FriendAgree, At, Sever
  <2>5. CASE Unrow(j)  BY <2>5 DEF Unrow, Sever
  <2>6. CASE Sever(j)  BY <2>6 DEF Sever
  <2>7. QED  BY <2>1, <2>2, <2>3, <2>4, <2>5, <2>6
<1>6. \A p \in Sides : p # Mine(j) /\ p # Theirs(j) => rows'[p] = rows[p]
  BY <1>2, <1>5
<1>7. \A pc : Goto(j, pc) => job'[j].pc = pc
  BY SideType DEF Goto, TypeOK, Request
<1>8. Tale(j)  BY DEF Mirrored
<1>9. "outgoing" \in Status /\ "incoming" \in Status /\ "accepted" \in Status  BY DEF Status
<1> DEFINE Kept == /\ Tale(j)'
                   /\ \/ Pair(j) \in accidents'
                      \/ job'[j].pc \in Mid
                      \/ <<rows'[Mine(j)], rows'[Theirs(j)]>> \in Stories
<1>10. ASSUME job[j].clash PROVE Kept
  BY <1>1, <1>4, <1>10 DEF Tale
<1>11. ASSUME ~job[j].clash /\ job[j].pc = "create" PROVE Kept
  <2>1. job'[j].pc = "mirror" /\ accidents' = accidents  BY <1>4, <1>5, <1>7, <1>11
  <2>2. rows'[Theirs(j)] = t /\ rows'[Mine(j)] = [m EXCEPT !["outgoing"] = m["outgoing"] + 1]
    BY <1>2, <1>5, <1>11
  <2>3. Pair(j) \notin accidents => rows'[Mine(j)] = Only("outgoing") /\ t = None
    <3>1. Pair(j) \notin accidents => m = None /\ t = None  BY <1>1, <1>8, <1>11 DEF Tale, Told
    <3>2. QED  BY <1>9, <2>2, <3>1, BagFacts
  <2>4. Tale(j)'  BY <1>3, <2>1, <2>2, <2>3 DEF Tale, Told, Only, None
  <2>5. QED  BY <2>1, <2>4 DEF Mid
<1>12. ASSUME ~job[j].clash /\ job[j].pc = "mirror" PROVE Kept
  <2>1. job'[j].pc = "done" /\ accidents' = accidents  BY <1>4, <1>5, <1>7, <1>12
  <2>2. rows'[Mine(j)] = m /\ rows'[Theirs(j)] = [t EXCEPT !["incoming"] = t["incoming"] + 1]
    BY <1>2, <1>5, <1>12
  <2>3. Pair(j) \notin accidents => m = Only("outgoing") /\ rows'[Theirs(j)] = Only("incoming")
    <3>1. Pair(j) \notin accidents => m = Only("outgoing") /\ t = None
      BY <1>1, <1>8, <1>12 DEF Tale, Told
    <3>2. QED  BY <1>9, <2>2, <3>1, BagFacts
  <2>4. Tale(j)'  BY <2>1 DEF Tale
  <2>5. QED  BY <2>1, <2>2, <2>3, <2>4 DEF Stories
<1>13. ASSUME ~job[j].clash /\ job[j].pc = "accept" PROVE Kept
  <2>1. job'[j].pc = "agree" /\ accidents' = accidents  BY <1>4, <1>5, <1>7, <1>13
  <2>2. rows'[Theirs(j)] = t /\ rows'[Mine(j)] = Accepted(m)
    BY <1>2, <1>5, <1>13
  <2>3. Pair(j) \notin accidents => rows'[Mine(j)] = Only("accepted") /\ t = Only("outgoing")
    <3>1. Pair(j) \notin accidents => m = Only("incoming") /\ t = Only("outgoing")
      BY <1>1, <1>8, <1>13 DEF Tale, Told
    <3>2. QED  BY <1>9, <2>2, <3>1, BagFacts
  <2>4. Tale(j)'  BY <1>3, <2>1, <2>2, <2>3 DEF Tale, Told, Only, None
  <2>5. QED  BY <2>1, <2>4 DEF Mid
<1>14. ASSUME ~job[j].clash /\ job[j].pc = "agree" PROVE Kept
  <2>1. job'[j].pc = "done" /\ accidents' = accidents  BY <1>4, <1>5, <1>7, <1>14
  <2>2. rows'[Mine(j)] = m /\ rows'[Theirs(j)] = Accepted(t)
    BY <1>2, <1>5, <1>14
  <2>3. Pair(j) \notin accidents => m = Only("accepted") /\ rows'[Theirs(j)] = Only("accepted")
    <3>1. Pair(j) \notin accidents => m = Only("accepted") /\ t = Only("outgoing")
      BY <1>1, <1>8, <1>14 DEF Tale, Told
    <3>2. QED  BY <1>9, <2>2, <3>1, BagFacts
  <2>4. Tale(j)'  BY <2>1 DEF Tale
  <2>5. QED  BY <2>1, <2>2, <2>3, <2>4 DEF Stories
<1>15. ASSUME ~job[j].clash /\ job[j].pc = "unrow" PROVE Kept
  <2>1. job'[j].pc = "sever" /\ rows'[Mine(j)] = None
    BY <1>2, <1>5, <1>7, <1>15
  <2>2. Tale(j)'  BY <1>3, <2>1 DEF Tale, Told, None
  <2>3. QED  BY <2>1, <2>2 DEF Mid
<1>16. ASSUME ~job[j].clash /\ job[j].pc = "sever" PROVE Kept
  <2>1. job'[j].pc = "done" /\ rows'[Theirs(j)] = None /\ rows'[Mine(j)] = m
    BY <1>2, <1>5, <1>7, <1>16
  <2>2. m = None  BY <1>1, <1>8, <1>16 DEF Tale, Told
  <2>3. Tale(j)'  BY <2>1 DEF Tale
  <2>4. QED  BY <2>1, <2>2, <2>3 DEF Stories
<1>17. Kept  BY <1>5, <1>10, <1>11, <1>12, <1>13, <1>14, <1>15, <1>16
<1> HIDE DEF m, t
<1>18. QED  BY <1>1, <1>4, <1>6, <1>17, PairStep

LEMMA BlockStepMirrored ==
  ASSUME TypeOK, Consent, Mirrored, NEW j \in Jobs, BlockStep(j)
  PROVE  Mirrored'
<1>1. /\ rows' = rows /\ accidents' = accidents
      /\ job[j].pc \in {"read", "block", "unblock"} /\ job[j].pc \notin Mid
  BY DEF BlockStep, BlockRead, BlockCreate, Unblock, At, Mid
<1>2. /\ \A k \in Jobs \ {j} : job'[k] = job[k]
      /\ job[j].pc # "done"
      /\ job'[j].op = job[j].op /\ job'[j].by = job[j].by /\ job'[j].to = job[j].to
      /\ job'[j].clash = job[j].clash
  BY StepFrame
<1>3. job'[j].pc \in {"block", "unblock", "unrow", "done"}
  <2>1. job[j] \in Request  BY SideType
  <2>2. CASE \E pc \in {"block", "unrow", "done"} : Goto(j, pc)
    BY <2>1, <2>2 DEF Goto, TypeOK, Request
  <2>3. CASE \E f : job' = [job EXCEPT ![j].pc = "unblock", ![j].found = f]
    <3>1. PICK f : job' = [job EXCEPT ![j] = [job[j] EXCEPT !.pc = "unblock", !.found = f]]
      BY <2>1, <2>3 DEF TypeOK, Request
    <3>2. QED  BY <2>1, <3>1 DEF TypeOK, Request
  <2>4. QED  BY <2>2, <2>3 DEF BlockStep, BlockRead, BlockCreate, Unblock
<1>4. Tale(j)'  BY <1>3 DEF Tale, Told
<1>5. QED  BY <1>1, <1>2, <1>4, PairStep

LEMMA NextMirrored == TypeOK /\ Consent /\ Mirrored /\ [Next]_vars => Mirrored'
<1> SUFFICES ASSUME TypeOK, Consent, Mirrored, [Next]_vars PROVE Mirrored'
  OBVIOUS
<1>1. ASSUME NEW j \in Jobs,
             Arrive(j) \/ FriendStep(j) \/ BlockStep(j) \/ Finish(j) \/ Crash(j)
      PROVE  Mirrored'
  BY <1>1, ArriveMirrored, FriendReadMirrored, WriteMirrored, BlockStepMirrored, EndMirrored
     DEF FriendStep
<1>2. CASE UNCHANGED vars
  <2>1. \A k \in Jobs : Tale(k)' <=> Tale(k)  BY <1>2 DEF vars, Tale, Told, Mine, Theirs, Pair
  <2>2. \A u, v \in Users : Even(u, v)' <=> Even(u, v)
    BY <1>2 DEF vars, Even, Stories, Between, Pair
  <2>3. QED  BY <1>2, <2>1, <2>2 DEF vars, Mirrored, Rivalry, Idle, Pair
<1>3. QED  BY <1>1, <1>2 DEF Next

LEMMA InitMirrored == Init => Mirrored
<1> SUFFICES ASSUME Init PROVE Mirrored
  OBVIOUS
<1>1. \A j \in Jobs : job[j].pc = "done"  BY DEF Init, NoRequest
<1>2. \A u, v \in Users : <<rows[<<u, v>>], rows[<<v, u>>]>> = <<None, None>>
  BY DEF Init, Sides
<1>3. QED  BY <1>1, <1>2 DEF Mirrored, Rivalry, Tale, Even, Stories

\* Whatever requests of however many users run at once and wherever workers die: at
\* rest the two sides of a pair tell the same story, with one row each, unless an
\* overlap of requests of these two users or a crash between two writes broke it.
THEOREM SidesMirror == Spec => []RowsMirror
<1>1. Mirrored => RowsMirror
  <2> SUFFICES ASSUME Mirrored, Quiet, NEW u \in Users, NEW v \in Users, u # v,
                      {u, v} \notin accidents
               PROVE  <<rows[<<u, v>>], rows[<<v, u>>]>> \in Stories
    BY DEF RowsMirror, Stories
  <2>1. ~Between(u, v)  BY DEF Quiet, Between, Mid
  <2>2. QED  BY <2>1 DEF Mirrored, Even
<1>2. QED  BY <1>1, InitConsent, InitMirrored, NextConsent, NextMirrored, FriendsTypeCorrect,
              PTL DEF Spec
==============================================================================
