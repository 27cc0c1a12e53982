---------------------------- MODULE AccountsProofs ----------------------------
(***************************************************************************)
(* Three theorems, for any users, bots, checks, lengths of time, deaths    *)
(* and failures.                                                           *)
(* DeletionIsWhole: what an account leaves in the tables only shrinks, so  *)
(* that a deletion that was cut short takes nothing from one that is done  *)
(* again.  The inductive invariant says of every deletion under way what   *)
(* is gone at its stage, and of every application that was dropped that    *)
(* its bot went first.                                                     *)
(* CopyIsTold: whoever changes what the row says forgets the copy or       *)
(* excepts it, and so does a copy that is made of an older reading.        *)
(* DeletionsAreAnnounced: each account that is to be deleted was, at the   *)
(* last midnight, either 48 hours or more from its date, with no warning   *)
(* in force that would silence the one to come, or warned since its owner  *)
(* asked.                                                                  *)
(***************************************************************************)
EXTENDS Accounts, SequenceTheorems, WellFoundedInduction, TLAPS

Stages == {"gallery", "rest", "bots", "row", "doc"}

\* Lists of L, deletions of members of S.
Shape(L, S) ==
  [pc : {"idle", "next", "work"}, list : L, work : Seq([u : S, at : Stages])]

\* What is gone from the tables when the deletion w is where it is.
Cleared(w, p, a) == w.u \in Users =>
  /\ w.at # "gallery" => "uploads" \notin p[w.u]
  /\ w.at \in {"bots", "row", "doc"} => p[w.u] = {}
  /\ w.at \in {"row", "doc"} => a[w.u] = {}

\* A check and the deletions that it is in: a bot's on top of its owner's.
Progress(c, p, a) ==
  /\ c.pc = "work" => c.work # <<>>
  /\ \A i \in 1 .. Len(c.work) : Cleared(c.work[i], p, a)

Tables ==
  /\ now \in Nat
  /\ row \in [Users -> Account]
  /\ parts \in [Users -> SUBSET Rest]
  /\ apps \in [Users -> SUBSET Users]

BotsFirst == \A u \in Users : \A b \in BotsOf[u] \ apps[u] : ~row[b].here
Emptied == \A u \in Users : ~row[u].here => parts[u] = {} /\ apps[u] = {}

IInv ==
  /\ Tables /\ BotsFirst /\ Emptied
  /\ \E L, S : check \in [Checks -> Shape(L, S)]
  /\ \A k \in Checks : Progress(check[k], parts, apps)

\* Tables of which something may be gone, and nothing has come back.
Wanes ==
  /\ Tables'
  /\ \A u \in Users : parts'[u] \subseteq parts[u] /\ apps'[u] \subseteq apps[u]

Alike ==
  /\ Tables' /\ parts' = parts /\ apps' = apps
  /\ \A u \in Users : row'[u].here = row[u].here

------------------------------------------------------------------------------
LEMMA ClearedStays == ASSUME IInv, Wanes, NEW w, Cleared(w, parts, apps) PROVE Cleared(w, parts', apps')
  BY DEF Cleared, Wanes, IInv, Tables, Rest

\* The checks go on as they are, or end.
LEMMA TablesStep ==
  ASSUME AccountsAssumption, IInv, Alike, check' = check
  PROVE  IInv'
<1>1. Wanes
  BY DEF Alike, Wanes
<1>2. BotsFirst' /\ Emptied'
  <2>1. \A u \in Users : \A b \in BotsOf[u] : b \in Users
    BY DEF AccountsAssumption
  <2> QED BY <2>1 DEF Alike, IInv, BotsFirst, Emptied
<1>3. \A k \in Checks : Progress(check'[k], parts', apps')
  BY <1>1, ClearedStays DEF IInv, Progress
<1> QED
  BY <1>1, <1>2, <1>3 DEF IInv, Wanes

\* One check goes on, and may take something away.
LEMMA CheckStep ==
  ASSUME AccountsAssumption, IInv, Wanes, BotsFirst', Emptied',
         NEW k \in Checks, NEW L, NEW S, NEW c \in Shape(L, S),
         check' = [check EXCEPT ![k] = c], Progress(c, parts', apps')
  PROVE  IInv'
<1>1. PICK L0, S0 : check \in [Checks -> Shape(L0, S0)]
  BY DEF IInv
<1>2. Shape(L, S) \subseteq Shape(L \cup L0, S \cup S0)
        /\ Shape(L0, S0) \subseteq Shape(L \cup L0, S \cup S0)
  <2>1. \A A, B : A \subseteq B => [u : A, at : Stages] \subseteq [u : B, at : Stages]
    OBVIOUS
  <2>2. \A A, B : A \subseteq B => Seq([u : A, at : Stages]) \subseteq Seq([u : B, at : Stages])
    BY <2>1, SeqMonotonic
  <2> QED BY <2>2 DEF Shape
<1>3. check' \in [Checks -> Shape(L \cup L0, S \cup S0)]
  BY <1>1, <1>2
<1>4. \A j \in Checks : Progress(check'[j], parts', apps')
  <2> TAKE j \in Checks
  <2>1. CASE j = k
    BY <2>1, <1>1
  <2>2. CASE j # k
    <3>1. check'[j] = check[j]
      BY <2>2, <1>1
    <3> QED BY <3>1, ClearedStays DEF IInv, Progress
  <2> QED BY <2>1, <2>2
<1> QED
  BY <1>3, <1>4 DEF IInv, Wanes

\* A check goes on and the tables stay.
LEMMA IdleStep ==
  ASSUME AccountsAssumption, IInv, UNCHANGED <<row, parts, apps, now>>,
         NEW k \in Checks, NEW L, NEW S, NEW c \in Shape(L, S),
         check' = [check EXCEPT ![k] = c], Progress(c, parts, apps)
  PROVE  IInv'
<1>1. Wanes
  BY DEF Wanes, IInv, Tables
<1>2. BotsFirst' /\ Emptied'
  BY DEF IInv, BotsFirst, Emptied
<1>3. Progress(c, parts', apps')
  BY <1>1, ClearedStays DEF Progress
<1> QED
  BY <1>1, <1>2, <1>3, CheckStep

\* The deletion on top, if there is one.
LEMMA TopOfWork ==
  ASSUME IInv, NEW k \in Checks, NEW a, AtWork(k, a)
  PROVE  /\ Len(check[k].work) \in Nat \ {0}
         /\ Cleared(Top(k), parts, apps) /\ Top(k).at = a
         /\ check[k].pc = "work" /\ Progress(check[k], parts, apps)
<1>1. PICK L, S : check \in [Checks -> Shape(L, S)]
  BY DEF IInv
<1>2. check[k].work \in Seq([u : S, at : Stages]) /\ check[k].work # <<>>
  BY <1>1 DEF Shape, AtWork, IInv, Progress
<1>3. Len(check[k].work) \in Nat \ {0}
  BY <1>2, EmptySeq
<1> QED
  BY <1>3 DEF IInv, Progress, AtWork, Top

\* It comes to its next stage, when what that needs is gone.
LEMMA MoveStep ==
  ASSUME AccountsAssumption, IInv, Wanes, BotsFirst', Emptied',
         NEW k \in Checks, NEW a, AtWork(k, a), NEW b \in Stages, check' = MoveTo(k, b),
         Cleared([u |-> Top(k).u, at |-> b], parts', apps')
  PROVE  IInv'
<1>1. PICK L, S : check \in [Checks -> Shape(L, S)]
  BY DEF IInv
<1> DEFINE n == Len(check[k].work)
           w == [check[k].work EXCEPT ![n] = [u |-> Top(k).u, at |-> b]]
           c == [check[k] EXCEPT !.work = w]
<1>2. n \in Nat \ {0} /\ check[k].pc = "work"
  BY TopOfWork
<1>3. check[k].work \in Seq([u : S, at : Stages]) /\ check[k] \in Shape(L, S)
  BY <1>1 DEF Shape
<1>4. Top(k) \in [u : S, at : Stages]
  <2>1. n \in 1 .. n
    BY <1>2
  <2>2. check[k].work[n] \in [u : S, at : Stages]
    BY <2>1, <1>3, ElementOfSeq
  <2> QED BY <2>2 DEF Top
<1>5. /\ w \in Seq([u : S, at : Stages]) /\ Len(w) = n
      /\ \A i \in 1 .. n : w[i] = IF i = n THEN [u |-> Top(k).u, at |-> b] ELSE check[k].work[i]
  BY <1>2, <1>3, <1>4, ExceptSeq
<1>6. c \in Shape(L, S) /\ c.work = w /\ c.pc = "work"
  BY <1>2, <1>3, <1>5 DEF Shape
<1>7. [Top(k) EXCEPT !.at = b] = [u |-> Top(k).u, at |-> b]
  BY <1>4
<1>8. MoveTo(k, b) = [check EXCEPT ![k] = c]
  <2>1. [check[k].work[n] EXCEPT !.at = b] = [u |-> Top(k).u, at |-> b]
    BY <1>7 DEF Top
  <2>2. MoveTo(k, b) =
          [check EXCEPT ![k] = [check[k] EXCEPT !.work =
            [check[k].work EXCEPT ![n] = [check[k].work[n] EXCEPT !.at = b]]]]
    BY Zenon DEF MoveTo
  <2> QED BY <2>1, <2>2, Zenon
<1>9. w # <<>>
  BY <1>5, <1>2, EmptySeq
<1>10. Progress(c, parts', apps')
  <2> SUFFICES ASSUME NEW i \in 1 .. n PROVE Cleared(w[i], parts', apps')
    BY <1>5, <1>6, <1>9 DEF Progress
  <2>1. CASE i = n
    <3>1. w[i] = [u |-> Top(k).u, at |-> b]
      BY <2>1, <1>5
    <3> QED BY <3>1
  <2>2. CASE i # n
    <3>1. w[i] = check[k].work[i] /\ Cleared(check[k].work[i], parts, apps)
      BY <2>2, <1>5 DEF IInv, Progress
    <3> QED BY <3>1, ClearedStays
  <2> QED BY <2>1, <2>2
<1> HIDE DEF c
<1> QED
  BY <1>6, <1>8, <1>10, CheckStep

------------------------------------------------------------------------------
LEMMA RowChanges ==
  ASSUME IInv, NEW u \in Users, NEW r \in Account, r.here = row[u].here,
         row' = [row EXCEPT ![u] = r], UNCHANGED <<parts, apps, now>>
  PROVE  Alike
  BY DEF Alike, IInv, Tables

\* Requests: the rows change, none comes back.
LEMMA RequestsKeep ==
  ASSUME AccountsAssumption, IInv, Ask \/ Finish \/ Bring \/ Tick
  PROVE  IInv'
<1>1. ASSUME NEW u \in Users, QueueDelete(u) \/ Revive(u) \/ \E b \in BOOLEAN : UpdateBanned(u, b)
      PROVE  Alike /\ check' = check
  <2>1. row[u] \in Account
    BY DEF IInv, Tables
  <2>2. CASE row' = row
    BY <1>1, <2>2 DEF QueueDelete, Revive, UpdateBanned, clock, Alike, IInv, Tables
  <2>3. CASE QueueDelete(u) /\ row' # row
    <3> DEFINE r == [row[u] EXCEPT !.banned = TRUE, !.due = now + Grace, !.type = ask[u]]
    <3>0. Grace \in Nat
      BY DEF AccountsAssumption
    <3>1. now + Grace \in Nat /\ ask[u] \in {"none", "manual", "age"}
      BY <2>3, <3>0 DEF QueueDelete, IInv, Tables
    <3>2. r \in Account /\ r.here = row[u].here
      BY <2>1, <3>1, Zenon DEF Account
    <3>3. row' = [row EXCEPT ![u] = r] /\ UNCHANGED <<parts, apps, now, check>>
      BY <2>3, Zenon DEF QueueDelete, clock
    <3> QED BY <3>2, <3>3, RowChanges
  <2>4. CASE Revive(u) /\ row' # row
    <3> DEFINE r == [here |-> TRUE, banned |-> FALSE, due |-> Never, type |-> "none"]
    <3>1. row' = [row EXCEPT ![u] = r] /\ UNCHANGED <<parts, apps, now, check>> /\ row[u].here
      BY <2>4, Zenon DEF Revive, clock
    <3>2. r \in Account /\ r.here = row[u].here
      BY <2>1, <3>1 DEF Account
    <3> QED BY <3>1, <3>2, RowChanges
  <2>5. ASSUME NEW b \in BOOLEAN, UpdateBanned(u, b) PROVE Alike /\ check' = check
    <3> DEFINE r == [row[u] EXCEPT !.banned = b]
    <3>1. row' = [row EXCEPT ![u] = r] /\ UNCHANGED <<parts, apps, now, check>>
      BY <2>5, Zenon DEF UpdateBanned, clock
    <3>2. r \in Account /\ r.here = row[u].here
      BY <2>1, Zenon DEF Account
    <3> QED BY <3>1, <3>2, RowChanges
  <2> QED BY <1>1, <2>2, <2>3, <2>4, <2>5
<1>2. ASSUME NEW u \in Users,
             \/ AskDelete(u) \/ ConfirmDateOfBirth(u) \/ ForgetCopy(u) \/ PutCopy(u)
             \/ Reactivate(u) \/ ReadRow(u)
      PROVE  Alike /\ check' = check
  BY <1>2 DEF AskDelete, ConfirmDateOfBirth, ForgetCopy, PutCopy, Reactivate, ReadRow,
     data, clock, Alike, IInv, Tables
<1>3. Tick => Alike /\ check' = check
  BY DEF Tick, data, Alike, IInv, Tables
<1> QED
  BY <1>1, <1>2, <1>3, TablesStep DEF Ask, Finish, Bring

\* A check that is in no deletion.
LEMMA NoWork ==
  ASSUME NEW c, NEW L, NEW S, c \in Shape(L, S), c.pc # "work", c.work = <<>>
  PROVE  Progress(c, parts, apps)
  BY EmptySeq DEF Progress

\* A check starts, ends, throws, or the main worker dies.
LEMMA EdgesKeep ==
  ASSUME AccountsAssumption, IInv, NEW k \in Checks,
         Midnight(k) \/ Start(k) \/ EndCheck(k) \/ Throw(k)
  PROVE  IInv'
<1>1. Idle \in Shape({{}}, {}) /\ Running \in Shape({Banned}, {})
  BY EmptySeq DEF Shape, Idle, Running
<1>2. Progress(Idle, parts, apps) /\ Progress(Running, parts, apps)
  BY <1>1, NoWork DEF Idle, Running
<1>3. /\ UNCHANGED <<row, parts, apps, now>>
      /\ check' = [check EXCEPT ![k] = Idle] \/ check' = [check EXCEPT ![k] = Running]
  BY DEF Midnight, Start, EndCheck, Throw, data, clock
<1> QED
  BY <1>1, <1>2, <1>3, IdleStep

LEMMA CrashKeeps == ASSUME AccountsAssumption, IInv, Crash PROVE IInv'
<1>1. Idle \in Shape({{}}, {}) /\ Progress(Idle, parts, apps)
  BY EmptySeq, NoWork DEF Shape, Idle
<1>2. check' \in [Checks -> Shape({{}}, {})] /\ \A k \in Checks : Progress(check'[k], parts, apps)
  BY <1>1 DEF Crash
<1>3. UNCHANGED <<row, parts, apps, now>>
  BY DEF Crash, data
<1> QED
  BY <1>2, <1>3 DEF IInv, Tables, BotsFirst, Emptied

\* The next account of the list needs nothing, or is warned.
LEMMA NextKeepsOn ==
  ASSUME AccountsAssumption, IInv, NEW k \in Checks, Skip(k) \/ WarnOwner(k)
  PROVE  IInv'
<1>1. PICK L, S : check \in [Checks -> Shape(L, S)]
  BY DEF IInv
<1>0. PICK u : check' = After(k, u)
  BY Zenon DEF Skip, WarnOwner
<1> DEFINE l == Without(check[k].list, u)
           c == [check[k] EXCEPT !.list = l]
<1>2. check' = [check EXCEPT ![k] = c] /\ UNCHANGED <<row, parts, apps, now>>
  BY <1>0, Zenon DEF Skip, WarnOwner, After, data, clock
<1>3. c \in Shape(L \cup {l}, S) /\ c.pc = check[k].pc /\ c.work = check[k].work
  BY <1>1 DEF Shape
<1>4. Progress(c, parts, apps)
  BY <1>3 DEF IInv, Progress
<1> HIDE DEF c
<1> QED
  BY <1>2, <1>3, <1>4, IdleStep

\* A deletion begins: of an account of the list, or of a bot.
LEMMA EnterKeeps ==
  ASSUME AccountsAssumption, IInv, NEW k \in Checks, Condemn(k) \/ DropBot(k)
  PROVE  IInv'
<1>1. PICK L, S : check \in [Checks -> Shape(L, S)]
  BY DEF IInv
<1>2. PICK u : check' = Enter(k, u)
  BY Zenon DEF Condemn, DropBot
<1> DEFINE new == [u |-> u, at |-> "gallery"]
           w == Append(check[k].work, new)
           c == [check[k] EXCEPT !.pc = "work", !.work = w]
<1>3. check' = [check EXCEPT ![k] = c]
  BY <1>2, Zenon DEF Enter
<1>4. check[k].work \in Seq([u : S \cup {u}, at : Stages]) /\ new \in [u : S \cup {u}, at : Stages]
  <2>1. check[k].work \in Seq([u : S, at : Stages])
    BY <1>1 DEF Shape
  <2>2. [u : S, at : Stages] \subseteq [u : S \cup {u}, at : Stages]
    OBVIOUS
  <2> QED BY <2>1, <2>2, SeqMonotonic DEF Stages
<1>5. /\ w \in Seq([u : S \cup {u}, at : Stages]) /\ w # <<>>
      /\ Len(w) = Len(check[k].work) + 1 /\ Len(check[k].work) \in Nat
      /\ \A i \in 1 .. Len(w) : w[i] = IF i = Len(w) THEN new ELSE check[k].work[i]
  <2> HIDE DEF new
  <2> QED BY <1>4, LenProperties, EmptySeq, AppendProperties
<1>6. c \in Shape(L, S \cup {u}) /\ c.pc = "work" /\ c.work = w
  BY <1>1, <1>5 DEF Shape
<1>7. Progress(c, parts, apps)
  <2> SUFFICES ASSUME NEW i \in 1 .. Len(w) PROVE Cleared(w[i], parts, apps)
    BY <1>5, <1>6 DEF Progress
  <2>1. CASE i = Len(w)
    BY <2>1, <1>5 DEF Cleared
  <2>2. CASE i # Len(w)
    BY <2>2, <1>5 DEF IInv, Progress
  <2> QED BY <2>1, <2>2
<1>8. UNCHANGED <<row, parts, apps, now>>
  BY DEF Condemn, DropBot, data, clock
<1> HIDE DEF c
<1> QED
  BY <1>3, <1>6, <1>7, <1>8, IdleStep

\* The deletion on top is over.
LEMMA DropCopyKeeps ==
  ASSUME AccountsAssumption, IInv, NEW k \in Checks, DropCopy(k)
  PROVE  IInv'
<1>1. PICK L, S : check \in [Checks -> Shape(L, S)]
  BY DEF IInv
<1>2. UNCHANGED <<row, parts, apps, now>>
  BY DEF DropCopy, data, clock
<1>3. check[k].work \in Seq([u : S, at : Stages]) /\ Len(check[k].work) \in Nat
  <2>1. check[k].work \in Seq([u : S, at : Stages])
    BY <1>1 DEF Shape
  <2> QED BY <2>1, LenProperties
<1>4. CASE Len(check[k].work) > 1
  <2> DEFINE w == Front(check[k].work)
             c == [check[k] EXCEPT !.work = w]
  <2>1. check' = [check EXCEPT ![k] = c]
    BY <1>4, Zenon DEF DropCopy
  <2>2. /\ w \in Seq([u : S, at : Stages]) /\ w # <<>> /\ Len(w) = Len(check[k].work) - 1
        /\ \A i \in 1 .. Len(w) : w[i] = check[k].work[i]
    <3>1. \A i \in 1 .. Len(check[k].work) - 1 : check[k].work[i] \in [u : S, at : Stages]
      <4> TAKE i \in 1 .. Len(check[k].work) - 1
      <4>1. i \in 1 .. Len(check[k].work)
        BY <1>3
      <4> QED BY <4>1, <1>3, ElementOfSeq
    <3>2. /\ w \in Seq([u : S, at : Stages]) /\ Len(w) = Len(check[k].work) - 1
          /\ \A i \in 1 .. Len(check[k].work) - 1 : w[i] = check[k].work[i]
      BY <3>1, <1>3, <1>4, SubSeqProperties DEF Front
    <3>3. w # <<>>
      BY <3>2, <1>4, EmptySeq
    <3> QED BY <3>2, <3>3
  <2>3. c \in Shape(L, S) /\ c.work = w
    BY <1>1, <2>2 DEF Shape
  <2>4. Progress(c, parts, apps)
    <3> SUFFICES ASSUME NEW i \in 1 .. Len(w) PROVE Cleared(w[i], parts, apps)
      BY <2>2, <2>3 DEF Progress
    <3> QED BY <2>2, <1>3 DEF IInv, Progress
  <2> HIDE DEF c
  <2> QED BY <1>2, <2>1, <2>3, <2>4, IdleStep
<1>5. CASE ~(Len(check[k].work) > 1)
  <2> DEFINE l == Without(check[k].list, Top(k).u)
             c == [pc |-> "next", list |-> l, work |-> <<>>]
  <2>1. check' = [check EXCEPT ![k] = c]
    BY <1>5, Zenon DEF DropCopy
  <2>2. c \in Shape({l}, S)
    BY EmptySeq DEF Shape
  <2>3. Progress(c, parts, apps)
    BY <2>2, NoWork
  <2> HIDE DEF c
  <2> QED BY <1>2, <2>1, <2>2, <2>3, IdleStep
<1> QED
  BY <1>4, <1>5

------------------------------------------------------------------------------
\* A deletion takes something away and comes to its next stage.
LEMMA DropsKeep ==
  ASSUME AccountsAssumption, IInv, NEW k \in Checks,
         DropGallery(k) \/ DropRest(k) \/ DropApps(k) \/ DropRow(k)
  PROVE  IInv'
<1> DEFINE u == Top(k).u
<1>1. Tables /\ BotsFirst /\ Emptied
  BY DEF IInv
<1>2. CASE DropGallery(k)
  <2>1. AtWork(k, "gallery") /\ check' = MoveTo(k, "rest") /\ UNCHANGED <<row, apps, now>>
    BY <1>2 DEF DropGallery, clock
  <2>2. parts' = [parts EXCEPT ![u] = @ \ {"uploads"}]
    BY <1>2 DEF DropGallery
  <2>3. Wanes /\ BotsFirst' /\ Emptied'
    BY <1>1, <2>1, <2>2 DEF Wanes, Tables, BotsFirst, Emptied
  <2>4. Cleared([u |-> u, at |-> "rest"], parts', apps')
    BY <1>1, <2>2 DEF Cleared, Tables
  <2> QED BY <2>1, <2>3, <2>4, MoveStep DEF Stages
<1>3. CASE DropRest(k)
  <2>1. AtWork(k, "rest") /\ check' = MoveTo(k, "bots") /\ UNCHANGED <<row, apps, now>>
    BY <1>3 DEF DropRest, clock
  <2>2. parts' = [parts EXCEPT ![u] = @ \ {"rest"}]
    BY <1>3 DEF DropRest
  <2>3. Wanes /\ BotsFirst' /\ Emptied'
    BY <1>1, <2>1, <2>2 DEF Wanes, Tables, BotsFirst, Emptied
  <2>4. Cleared(Top(k), parts, apps) /\ Top(k).at = "rest"
    BY <2>1, TopOfWork
  <2>5. Cleared([u |-> u, at |-> "bots"], parts', apps')
    BY <1>1, <2>2, <2>4 DEF Cleared, Tables, Rest
  <2> QED BY <2>1, <2>3, <2>5, MoveStep DEF Stages
<1>4. CASE DropApps(k)
  <2>1. /\ AtWork(k, "bots") /\ LiveBots(u) = {} /\ check' = MoveTo(k, "row")
        /\ UNCHANGED <<row, parts, now>>
    BY <1>4 DEF DropApps, clock
  <2>2. apps' = [apps EXCEPT ![u] = {}]
    BY <1>4 DEF DropApps
  <2>3. Wanes /\ Emptied'
    BY <1>1, <2>1, <2>2 DEF Wanes, Tables, Emptied
  <2>4. BotsFirst'
    BY <1>1, <2>1, <2>2 DEF BotsFirst, LiveBots, Tables
  <2>5. Cleared(Top(k), parts, apps) /\ Top(k).at = "bots"
    BY <2>1, TopOfWork
  <2>6. Cleared([u |-> u, at |-> "row"], parts', apps')
    BY <1>1, <2>1, <2>2, <2>5 DEF Cleared, Tables
  <2> QED BY <2>1, <2>3, <2>4, <2>6, MoveStep DEF Stages
<1>5. CASE DropRow(k)
  <2>1. AtWork(k, "row") /\ check' = MoveTo(k, "doc") /\ UNCHANGED <<parts, apps, now>>
    BY <1>5 DEF DropRow, clock
  <2>2. row' = [row EXCEPT ![u] = [here |-> FALSE, banned |-> FALSE, due |-> Never, type |-> "none"]]
    BY <1>5 DEF DropRow
  <2>3. Cleared(Top(k), parts, apps) /\ Top(k).at = "row"
    BY <2>1, TopOfWork
  <2>4. row' \in [Users -> Account] /\ \A v \in Users : row'[v].here => row[v].here
    BY <1>1, <2>2 DEF Tables, Account
  <2>5. Wanes /\ Emptied'
    BY <1>1, <2>1, <2>2, <2>3, <2>4 DEF Wanes, Tables, Emptied, Cleared
  <2>6. BotsFirst'
    BY <1>1, <2>1, <2>4 DEF BotsFirst, AccountsAssumption
  <2>7. Cleared([u |-> u, at |-> "doc"], parts', apps')
    BY <2>1, <2>3 DEF Cleared
  <2> QED BY <2>1, <2>5, <2>6, <2>7, MoveStep DEF Stages
<1> QED
  BY <1>2, <1>3, <1>4, <1>5

LEMMA InitHolds == ASSUME AccountsAssumption, Init PROVE IInv
<1>1. Tables
  BY DEF AccountsAssumption, Init, Tables, Account, Rest
<1>2. BotsFirst /\ Emptied
  BY DEF AccountsAssumption, Init, BotsFirst, Emptied
<1>3. Idle \in Shape({{}}, {}) /\ Progress(Idle, parts, apps)
  BY EmptySeq, NoWork DEF Shape, Idle
<1> QED
  BY <1>1, <1>2, <1>3 DEF IInv, Init

LEMMA NextKeeps == ASSUME AccountsAssumption, IInv, [Next]_vars PROVE IInv'
<1>1. CASE UNCHANGED vars
  BY <1>1 DEF vars, data, clock, IInv, Tables, BotsFirst, Emptied
<1>2. CASE Next
  <2>1. ASSUME NEW k \in Checks, Midnight(k) \/ Start(k) \/ Work(k) \/ Throw(k)
        PROVE  IInv'
    BY <2>1, EdgesKeep, NextKeepsOn, EnterKeeps, DropCopyKeeps, DropsKeep DEF Work
  <2> QED BY <1>2, <2>1, RequestsKeep, CrashKeeps DEF Next
<1> QED
  BY <1>1, <1>2

\* deletion.service 75-339: whatever throws or dies and is done again, however many checks
\* work at once, once the row of an account is gone nothing of it is left and its bots are gone.
THEOREM DeletionIsWhole == ASSUME AccountsAssumption PROVE Spec => []LeavesNothing
<1>1. Init => IInv
  BY InitHolds
<1>2. IInv /\ [Next]_vars => IInv'
  BY NextKeeps
<1>3. IInv => LeavesNothing
  BY DEF IInv, BotsFirst, Emptied, LeavesNothing
<1> QED
  BY <1>1, <1>2, <1>3, PTL DEF Spec

------------------------------------------------------------------------------
(* The copy of the row.                                                    *)

Answers == {NoDoc} \cup BOOLEAN

CopyInv ==
  /\ IInv /\ CopyTellsTheRow
  /\ doc \in [Users -> Answers] /\ fill \in [Users -> Answers]
  /\ ask \in [Users -> {"no", "manual", "age", "forget"}]

\* A step that leaves copies, rows and requests, or removes some.
LEMMA CopyStays ==
  ASSUME AccountsAssumption, CopyInv, IInv', UNCHANGED <<fill, loose>>,
         ask' \in [Users -> {"no", "manual", "age", "forget"}],
         \A u \in Users : ask'[u] = "forget" <=> ask[u] = "forget",
         doc' \in [Users -> Answers], \A u \in Users : doc'[u] \in {doc[u], NoDoc},
         \A u \in Users : row'[u] = row[u] \/ ~row'[u].here
  PROVE  CopyInv'
  BY DEF CopyInv, CopyTellsTheRow, Kept

\* A step that writes the row or the copy of v.
LEMMA CopyChanges ==
  ASSUME AccountsAssumption, CopyInv, IInv', NEW v \in Users,
         fill' \in [Users -> Answers], doc' \in [Users -> Answers],
         ask' \in [Users -> {"no", "manual", "age", "forget"}],
         \A u \in Users \ {v} : /\ row'[u] = row[u] /\ doc'[u] = doc[u] /\ ask'[u] = ask[u]
                                /\ <<u, "copy">> \in loose => <<u, "copy">> \in loose',
         \/ <<v, "copy">> \in loose' \/ ~row'[v].here \/ ask'[v] = "forget"
         \/ doc'[v] = NoDoc \/ doc'[v] = row'[v].banned
  PROVE  CopyInv'
  BY DEF CopyInv, CopyTellsTheRow, Kept

LEMMA RequestsCopy ==
  ASSUME AccountsAssumption, CopyInv, IInv', NEW u \in Users,
         \/ AskDelete(u) \/ ConfirmDateOfBirth(u) \/ QueueDelete(u) \/ ForgetCopy(u)
         \/ Reactivate(u) \/ Revive(u) \/ ReadRow(u) \/ PutCopy(u)
         \/ \E b \in BOOLEAN : UpdateBanned(u, b)
  PROVE  CopyInv'
<1>1. /\ doc \in [Users -> Answers] /\ fill \in [Users -> Answers]
      /\ ask \in [Users -> {"no", "manual", "age", "forget"}]
      /\ row \in [Users -> Account] /\ row[u].banned \in BOOLEAN
  BY DEF CopyInv, IInv, Tables, Account
<1>2. CASE AskDelete(u) \/ ConfirmDateOfBirth(u) \/ Reactivate(u)
  <2>1. UNCHANGED <<fill, loose, doc, row>>
    BY <1>2 DEF AskDelete, ConfirmDateOfBirth, Reactivate, data, redis, history
  <2>2. ask' = ask \/ \E how \in {"manual", "age"} : ask[u] = "no" /\ ask' = [ask EXCEPT ![u] = how]
    BY <1>2 DEF AskDelete, ConfirmDateOfBirth, Reactivate
  <2>3. /\ ask' \in [Users -> {"no", "manual", "age", "forget"}]
        /\ \A v \in Users : ask'[v] = "forget" <=> ask[v] = "forget"
    BY <1>1, <2>2
  <2> QED
    BY <1>1, <2>1, <2>3, CopyStays
<1>3. CASE QueueDelete(u)
  <2>1. UNCHANGED <<doc, fill>>
    BY <1>3 DEF QueueDelete, redis
  <2>2. CASE row[u].here
    <3>1. /\ \A v \in Users \ {u} : row'[v] = row[v] /\ ask'[v] = ask[v]
          /\ ask' \in [Users -> {"no", "manual", "age", "forget"}] /\ ask'[u] = "forget"
          /\ loose \subseteq loose'
      BY <1>1, <1>3, <2>2 DEF QueueDelete
    <3> QED
      BY <1>1, <2>1, <3>1, CopyChanges
  <2>3. CASE ~row[u].here
    <3>1. /\ UNCHANGED <<row, loose>> /\ ask' = [ask EXCEPT ![u] = "no"]
      BY <1>3, <2>3 DEF QueueDelete
    <3> QED
      BY <1>1, <2>1, <2>3, <3>1, CopyChanges
  <2> QED
    BY <2>2, <2>3
<1>4. CASE ForgetCopy(u)
  <2>1. /\ UNCHANGED <<row, fill>> /\ doc' = [doc EXCEPT ![u] = NoDoc]
        /\ ask' = [ask EXCEPT ![u] = "no"] /\ loose' = loose \ {<<u, "copy">>}
    BY <1>4 DEF ForgetCopy, data
  <2>2. doc' \in [Users -> Answers] /\ doc'[u] = NoDoc
    BY <1>1, <2>1 DEF Answers
  <2> QED
    BY <1>1, <2>1, <2>2, CopyChanges
<1>5. CASE Revive(u)
  <2>1. UNCHANGED <<doc, fill, ask>>
    BY <1>5 DEF Revive, redis
  <2>2. CASE row[u].here
    <3>1. /\ \A v \in Users \ {u} : row'[v] = row[v]
          /\ loose \subseteq loose' /\ <<u, "copy">> \in loose'
      BY <1>1, <1>5, <2>2 DEF Revive
    <3> QED
      BY <1>1, <2>1, <3>1, CopyChanges
  <2>3. CASE ~row[u].here
    BY <1>1, <1>5, <2>1, <2>3, CopyStays DEF Revive
  <2> QED
    BY <2>2, <2>3
<1>6. CASE ReadRow(u)
  <2>1. /\ UNCHANGED <<row, doc, ask, loose>> /\ fill' = [fill EXCEPT ![u] = row[u].banned]
    BY <1>6 DEF ReadRow, data, redis, history
  <2>2. fill' \in [Users -> Answers]
    BY <1>1, <2>1 DEF Answers
  <2> QED
    BY <1>1, <2>1, <2>2 DEF CopyInv, CopyTellsTheRow, Kept
<1>7. CASE PutCopy(u)
  <2>0. PICK copy \in {fill[u]} \cup (IF fill[u] = TRUE THEN {NoDoc} ELSE {}) :
          doc' = [doc EXCEPT ![u] = copy]
    BY <1>7 DEF PutCopy
  <2>1. /\ UNCHANGED <<row, ask>> /\ doc' = [doc EXCEPT ![u] = copy]
        /\ copy \in {fill[u], NoDoc}
        /\ fill' = [fill EXCEPT ![u] = NoDoc]
        /\ loose' = IF fill[u] = row[u].banned /\ row[u].here
                    THEN loose \ {<<u, "copy">>} ELSE loose \cup {<<u, "copy">>}
    BY <1>7, <2>0 DEF PutCopy, data
  <2>2. doc' \in [Users -> Answers] /\ fill' \in [Users -> Answers] /\ doc'[u] = copy
    BY <1>1, <2>1 DEF Answers
  <2>3. \A v \in Users \ {u} : /\ row'[v] = row[v] /\ doc'[v] = doc[v] /\ ask'[v] = ask[v]
                               /\ <<v, "copy">> \in loose => <<v, "copy">> \in loose'
    BY <1>1, <2>1
  <2>4. <<u, "copy">> \in loose' \/ doc'[u] = NoDoc \/ doc'[u] = row'[u].banned
    BY <2>1, <2>2
  <2> QED
    BY <1>1, <2>1, <2>2, <2>3, <2>4, CopyChanges
<1>8. ASSUME NEW b \in BOOLEAN, UpdateBanned(u, b) PROVE CopyInv'
  <2>1. /\ UNCHANGED <<doc, fill, ask>> /\ row' = [row EXCEPT ![u].banned = b]
        /\ loose \subseteq loose' /\ <<u, "copy">> \in loose'
    BY <1>8 DEF UpdateBanned, redis, calls
  <2> QED
    BY <1>1, <2>1, CopyChanges
<1> QED
  BY <1>2, <1>3, <1>4, <1>5, <1>6, <1>7, <1>8

\* The checks remove rows and copies, and the clock leaves them.
LEMMA ChecksCopy ==
  ASSUME AccountsAssumption, CopyInv, IInv',
         Crash \/ Tick \/ \E k \in Checks : Midnight(k) \/ Start(k) \/ Work(k) \/ Throw(k)
  PROVE  CopyInv'
<1>1. doc \in [Users -> Answers] /\ row \in [Users -> Account]
      /\ ask \in [Users -> {"no", "manual", "age", "forget"}]
  BY DEF CopyInv, IInv, Tables
<1>2. CASE Crash \/ Tick \/ \E k \in Checks : Midnight(k) \/ Start(k) \/ Throw(k)
  BY <1>1, <1>2, CopyStays DEF Crash, Tick, Midnight, Start, Throw, data, redis, calls, history
<1>3. ASSUME NEW k \in Checks,
             \/ Skip(k) \/ WarnOwner(k) \/ Condemn(k) \/ DropGallery(k) \/ DropRest(k)
             \/ DropBot(k) \/ DropApps(k) \/ EndCheck(k)
      PROVE  CopyInv'
  <2>1. UNCHANGED <<row, doc, ask, fill, loose>>
    BY <1>3 DEF Skip, WarnOwner, Condemn, DropGallery, DropRest, DropBot, DropApps, EndCheck,
       data, redis, calls, history
  <2> QED
    BY <1>1, <2>1, CopyStays
<1>4. ASSUME NEW k \in Checks, DropRow(k) PROVE CopyInv'
  <2>1. UNCHANGED <<doc, ask, fill, loose>>
    BY <1>4 DEF DropRow, redis, calls, history
  <2>2. \A u \in Users : row'[u] = row[u] \/ ~row'[u].here
    BY <1>1, <1>4 DEF DropRow
  <2> QED
    BY <1>1, <2>1, <2>2, CopyStays
<1>5. ASSUME NEW k \in Checks, DropCopy(k) PROVE CopyInv'
  <2>1. UNCHANGED <<row, ask, fill, loose>> /\ doc' = [doc EXCEPT ![Top(k).u] = NoDoc]
    BY <1>5 DEF DropCopy, data, calls, history
  <2>2. doc' \in [Users -> Answers] /\ \A u \in Users : doc'[u] \in {doc[u], NoDoc}
    BY <1>1, <2>1 DEF Answers
  <2> QED
    BY <1>1, <2>1, <2>2, CopyStays
<1> QED
  BY <1>2, <1>3, <1>4, <1>5 DEF Work

\* userUtils.service 82: whatever requests, moderators, reads of the row and deletions overlap,
\* a copy that nothing has left behind lets nobody in whom the row bans, and nobody else out.
THEOREM CopyIsTold == ASSUME AccountsAssumption PROVE Spec => []CopyTellsTheRow
<1>1. Init => CopyInv
  BY InitHolds DEF Init, CopyInv, CopyTellsTheRow, Answers
<1>2. CopyInv /\ [Next]_vars => CopyInv'
  <2>1. ASSUME CopyInv, Next PROVE CopyInv'
    BY <2>1, NextKeeps, RequestsCopy, ChecksCopy DEF Next, Ask, Finish, Bring, CopyInv
  <2>2. ASSUME CopyInv, UNCHANGED vars PROVE CopyInv'
    BY <2>2, NextKeeps DEF vars, data, redis, calls, history, CopyInv, CopyTellsTheRow, Kept
  <2> QED
    BY <2>1, <2>2
<1>3. CopyInv => CopyTellsTheRow
  BY DEF CopyInv
<1> QED
  BY <1>1, <1>2, <1>3, PTL DEF Spec

------------------------------------------------------------------------------
(* The warnings.                                                           *)

Lists == SUBSET [u : Users, due : Times]
CheckTypes == Shape(Lists, Users)

AccountTypes ==
  /\ now \in Nat /\ row \in [Users -> Account]
  /\ \A u \in Users : apps[u] \subseteq BotsOf[u]
  /\ key \in [Users -> Times] /\ asked \in [Users -> Times] /\ mail \in [Users -> Times]
  /\ DOMAIN began = Users
  /\ \A u \in Users : began[u] # NoDoc => began[u] \in [at : Nat, asked : Times, mail : Times]
  /\ check \in [Checks -> CheckTypes]
  /\ up \in BOOLEAN /\ rung \in BOOLEAN /\ throws \in Nat /\ crashes \in Nat

\* The properties except nothing that this account has done.
Steady(u) == Kept(u, "list") /\ Kept(u, "date")

InList(u) == \E k \in Checks : \E e \in check[k].list : e.u = u

\* When the accounts that are in no list were last looked at.
LastMidnight == IF rung THEN now - (now % Day) ELSE now - Day

\* Of an account that was looked at, at t, and is to be deleted at d.
Warned(u, d, t) ==
  /\ d - t >= Hour
  /\ d - t < Warn => mail[u] # Never /\ asked[u] <= mail[u] /\ mail[u] <= t /\ d - mail[u] < Warn
  /\ d - t >= Warn => key[u] <= asked[u] + Warn

AskedFor(u, d) == asked[u] # Never /\ d = asked[u] + Grace

\* What a row and a list say of when an account goes.
Dated ==
  /\ \A u \in Users : row[u].due # Never => row[u].here
  /\ \A u \in Users : Steady(u) /\ row[u].due # Never => row[u].banned /\ AskedFor(u, row[u].due)
  /\ \A k \in Checks : \A e \in check[k].list :
       Steady(e.u) => /\ e.due # Never => AskedFor(e.u, e.due)
                      /\ row[e.u].here => row[e.u].due = e.due

\* The deletions of a check: of an account, and of its bots, in the order that they began.
WorkIsRight(c, r) ==
  /\ c.pc = "work" => c.work # <<>>
  /\ c.pc # "work" => c.work = <<>>
  /\ c.pc = "idle" => c.list = {}
  /\ \A i \in 1 .. Len(c.work) : /\ i > 1 => c.work[i].u \in Bots
                                 /\ c.work[i].at = "doc" => ~r[c.work[i].u].here

Regular ==
  /\ \A u \in Users : asked[u] <= now /\ key[u] <= now + Warn
  /\ \A k \in Checks : WorkIsRight(check[k], row)

\* No midnight was missed, no deletion threw, no worker died.
Smooth == ~missed /\ throws = 0 /\ crashes = 0

OneCheck ==
  /\ up /\ (~rung => now >= Day /\ now % Day = 0)
  /\ \A k \in Checks : check[k].pc # "idle" =>
       /\ rung /\ now >= Day /\ now % Day = 0
       /\ \A j \in Checks \ {k} : check[j].pc = "idle"

\* The account of the list that is being deleted.
AtTop(c, u) == c.pc = "work" /\ c.work[1].u = u

InTime ==
  /\ OneCheck
  /\ \A u \in Owners :
       Steady(u) /\ row[u].due # Never /\ ~InList(u) => Warned(u, row[u].due, LastMidnight)
  /\ \A k \in Checks : \A e \in check[k].list :
       e.u \in Owners /\ Steady(e.u) /\ ~AtTop(check[k], e.u) /\ e.due # Never =>
         row[e.u].here /\ Warned(e.u, e.due, now - Day)

NoticeInv == AccountTypes /\ Dated /\ Regular /\ (Smooth => InTime) /\ DeletionIsAnnounced

LEMMA Numbers ==
  ASSUME AccountsAssumption
  PROVE  /\ Hour \in Nat /\ Day \in Nat /\ Warn \in Nat /\ Grace \in Nat
         /\ 0 < Hour /\ Hour < Day /\ Day + Hour <= Warn /\ 2 * Warn <= Grace
  BY DEF AccountsAssumption

LEMMA People ==
  ASSUME AccountsAssumption
  PROVE  /\ Users \subseteq Nat /\ Bots \subseteq Users /\ Owners \subseteq Users
         /\ \A u \in Owners : u \notin Bots
         /\ \A u \in Users : BotsOf[u] \subseteq Bots
<1>1. Users \subseteq Nat
  BY DEF AccountsAssumption
<1>2. Bots \subseteq Users /\ \A u \in Users : BotsOf[u] \subseteq Bots
  <2>1. \A u \in Users : BotsOf[u] \subseteq Users
    <3>1. BotsOf \in [Users -> SUBSET Users]
      BY DEF AccountsAssumption
    <3> QED
      BY <3>1
  <2>2. \A u \in Users : BotsOf[u] \subseteq Bots
    BY DEF Bots
  <2>3. \A b \in Bots : \E u \in Users : b \in BotsOf[u]
    BY DEF Bots
  <2> QED
    BY <2>1, <2>2, <2>3
<1> QED
  BY <1>1, <1>2 DEF Owners

LEMMA WholeHours ==
  ASSUME NEW h \in Nat \ {0}, NEW w \in Nat, w % h = 0, h <= w, NEW n \in Nat
  PROVE  /\ n \div h \in Nat /\ (n \div h <= 0 <=> n < h)
         /\ w \div h >= 1 /\ (n \div h < w \div h <=> n < w)
  BY Z3

LEMMA HoursLeft ==
  ASSUME AccountsAssumption, now \in Nat, NEW t \in Nat
  PROVE  (Due(t) <=> t - now < Hour) /\ (Soon(t) <=> t - now < Warn)
<1>1. Hour \in Nat \ {0} /\ Warn \in Nat /\ Hour <= Warn
  BY Numbers
<1>2. Warn % Hour = 0
  BY DEF AccountsAssumption
<1>3. CASE t >= now
  <2>1. PICK n \in Nat : n = t - now
    BY <1>3
  <2>2. (n \div Hour <= 0 <=> n < Hour) /\ (n \div Hour < Warn \div Hour <=> n < Warn)
    BY <1>1, <1>2, WholeHours
  <2>3. HoursUntil(t) = n \div Hour
    BY <1>3, <2>1 DEF HoursUntil
  <2> QED
    BY <2>1, <2>2, <2>3 DEF Due, Soon
<1>4. CASE ~(t >= now)
  <2>1. PICK n \in Nat : n = now - t
    BY <1>4
  <2>2. PICK q \in Nat : q = n \div Hour
    BY <1>1, <1>2, WholeHours
  <2>3. PICK s \in Int : s = Warn \div Hour
    BY <1>1
  <2>4. s >= 1
    BY <1>1, <1>2, <2>3, WholeHours
  <2>5. HoursUntil(t) = -q
    BY <1>4, <2>1, <2>2 DEF HoursUntil
  <2>6. Due(t) /\ Soon(t)
    BY <2>2, <2>3, <2>4, <2>5 DEF Due, Soon
  <2> QED
    BY <1>1, <1>4, <2>6
<1> QED
  BY <1>3, <1>4

\* Euclid's division.
Splits(n, d, q, r) == n = d * q + r

LEMMA Division ==
  ASSUME NEW n \in Nat, NEW d \in Nat \ {0}
  PROVE  \E q \in Nat, r \in 0 .. (d - 1) : Splits(n, d, q, r) /\ r = n % d
  BY Z3 DEF Splits

LEMMA Remainder ==
  ASSUME NEW n \in Nat, NEW d \in Nat \ {0}, NEW q \in Nat, NEW r \in 0 .. (d - 1), Splits(n, d, q, r)
  PROVE  n % d = r
  BY SMT DEF Splits

\* From one tick to the next.
LEMMA NextTick ==
  ASSUME NEW n \in Nat, NEW d \in Nat \ {0}
  PROVE  /\ n % d \in 0 .. (d - 1) /\ n % d <= n
         /\ (n + 1) % d # 0 => (n + 1) % d = (n % d) + 1
         /\ (n + 1) % d = 0 => n % d = d - 1 /\ n + 1 >= d
<1>1. PICK q \in Nat, r \in 0 .. (d - 1) : Splits(n, d, q, r) /\ r = n % d
  BY Division
<1>2. r <= n /\ (r = d - 1 => n + 1 >= d)
  BY <1>1 DEF Splits
<1>3. CASE r = d - 1
  <2>1. Splits(n + 1, d, q + 1, 0) /\ 0 \in 0 .. (d - 1) /\ q + 1 \in Nat /\ n + 1 \in Nat
    BY <1>1, <1>3 DEF Splits
  <2>2. (n + 1) % d = 0
    BY <2>1, Remainder
  <2> QED
    BY <1>1, <1>2, <1>3, <2>2
<1>4. CASE r # d - 1
  <2>1. Splits(n + 1, d, q, r + 1) /\ r + 1 \in 0 .. (d - 1) /\ n + 1 \in Nat
    BY <1>1, <1>4 DEF Splits
  <2>2. (n + 1) % d = r + 1
    BY <2>1, Remainder
  <2> QED
    BY <1>1, <1>2, <1>4, <2>2
<1> QED
  BY <1>3, <1>4

------------------------------------------------------------------------------
\* The deletions of a check.

LEMMA Appended ==
  ASSUME NEW S, NEW s \in Seq(S), NEW x \in S
  PROVE  /\ Append(s, x) \in Seq(S) /\ Append(s, x) # <<>> /\ Len(s) \in Nat
         /\ Len(Append(s, x)) = Len(s) + 1
         /\ \A i \in 1 .. Len(s) + 1 : Append(s, x)[i] = IF i = Len(s) + 1 THEN x ELSE s[i]
  BY LenProperties, EmptySeq, AppendProperties

LEMMA AllButLast ==
  ASSUME NEW S, NEW s \in Seq(S), Len(s) > 1
  PROVE  /\ Front(s) \in Seq(S) /\ Front(s) # <<>> /\ Len(Front(s)) = Len(s) - 1
         /\ \A i \in 1 .. Len(s) - 1 : Front(s)[i] = s[i]
<1>1. Len(s) \in Nat
  BY LenProperties
<1>2. \A i \in 1 .. Len(s) - 1 : s[i] \in S
  <2> TAKE i \in 1 .. Len(s) - 1
  <2>1. i \in 1 .. Len(s)
    BY <1>1
  <2> QED BY <2>1, <1>1, ElementOfSeq
<1>3. /\ Front(s) \in Seq(S) /\ Len(Front(s)) = Len(s) - 1
      /\ \A i \in 1 .. Len(s) - 1 : Front(s)[i] = s[i]
  BY <1>1, <1>2, SubSeqProperties DEF Front
<1> QED
  BY <1>1, <1>3, EmptySeq

LEMMA WorkOfUsers ==
  ASSUME NoticeInv, NEW k \in Checks, NEW i \in 1 .. Len(check[k].work)
  PROVE  check[k].work[i] \in [u : Users, at : Stages] /\ check[k].work[i].u \in Users
<1> DEFINE S == [u : Users, at : Stages]
           s == check[k].work
<1>1. s \in Seq(S) /\ i \in 1 .. Len(s)
  BY DEF NoticeInv, AccountTypes, CheckTypes, Shape
<1> HIDE DEF S, s
<1>2. s[i] \in S
  BY <1>1, ElementOfSeq
<1> QED
  BY <1>2 DEF S, s

LEMMA AtWorkHas ==
  ASSUME NoticeInv, NEW k \in Checks, NEW a, AtWork(k, a)
  PROVE  /\ check[k] \in CheckTypes /\ check[k].pc = "work" /\ WorkIsRight(check[k], row)
         /\ check[k].work \in Seq([u : Users, at : Stages])
         /\ Len(check[k].work) \in Nat \ {0}
         /\ Top(k) \in [u : Users, at : Stages] /\ Top(k).at = a
         /\ Top(k) = check[k].work[Len(check[k].work)]
<1>1. check[k] \in CheckTypes /\ check[k].pc = "work" /\ WorkIsRight(check[k], row)
  BY DEF NoticeInv, AccountTypes, Regular, AtWork
<1>2. check[k].work \in Seq([u : Users, at : Stages]) /\ check[k].work # <<>>
  BY <1>1 DEF CheckTypes, Shape, WorkIsRight
<1>3. Len(check[k].work) \in Nat \ {0}
  BY <1>2, EmptySeq
<1>4. Len(check[k].work) \in 1 .. Len(check[k].work)
  BY <1>3
<1>5. check[k].work[Len(check[k].work)] \in [u : Users, at : Stages]
  BY <1>2, <1>4, ElementOfSeq
<1> QED
  BY <1>1, <1>2, <1>3, <1>5 DEF Top, AtWork

\* One of them comes to its next stage.
LEMMA Moved ==
  ASSUME NoticeInv, NEW k \in Checks, NEW a, AtWork(k, a), NEW b \in Stages, check' = MoveTo(k, b),
         \A u \in Users : row'[u].here => row[u].here,
         b = "doc" => ~row'[Top(k).u].here
  PROVE  \E c \in CheckTypes :
           /\ check' = [check EXCEPT ![k] = c] /\ c.pc = "work" /\ c.list = check[k].list
           /\ c.work[1].u = check[k].work[1].u /\ WorkIsRight(c, row')
<1> DEFINE n == Len(check[k].work)
           x == [u |-> Top(k).u, at |-> b]
           w == [check[k].work EXCEPT ![n] = x]
           c == [check[k] EXCEPT !.work = w]
<1>1. /\ check[k] \in CheckTypes /\ check[k].pc = "work" /\ WorkIsRight(check[k], row)
      /\ check[k].work \in Seq([u : Users, at : Stages]) /\ n \in Nat \ {0}
      /\ Top(k) \in [u : Users, at : Stages] /\ Top(k) = check[k].work[n]
  BY AtWorkHas
<1>2. x \in [u : Users, at : Stages] /\ x.u = Top(k).u /\ x.at = b
  BY <1>1
<1> HIDE DEF x
<1>3. /\ w \in Seq([u : Users, at : Stages]) /\ Len(w) = n
      /\ \A i \in 1 .. n : w[i] = IF i = n THEN x ELSE check[k].work[i]
  BY <1>1, <1>2, ExceptSeq
<1>4. c \in CheckTypes /\ c.work = w /\ c.pc = "work" /\ c.list = check[k].list
  BY <1>1, <1>3 DEF CheckTypes, Shape
<1>5. MoveTo(k, b) = [check EXCEPT ![k] = c]
  <2>1. [check[k].work[n] EXCEPT !.at = b] = x
    BY <1>1 DEF x
  <2>2. MoveTo(k, b) =
          [check EXCEPT ![k] = [check[k] EXCEPT !.work =
            [check[k].work EXCEPT ![n] = [check[k].work[n] EXCEPT !.at = b]]]]
    BY Zenon DEF MoveTo
  <2> QED BY <2>1, <2>2, Zenon
<1>6. w # <<>> /\ 1 \in 1 .. n
  BY <1>3, <1>1, EmptySeq
<1>7. c.work[1].u = check[k].work[1].u
  BY <1>1, <1>2, <1>3, <1>4, <1>6
<1>8. ASSUME NEW i \in 1 .. Len(w)
      PROVE (i > 1 => w[i].u \in Bots) /\ (w[i].at = "doc" => ~row'[w[i].u].here)
  <2>1. /\ i > 1 => check[k].work[i].u \in Bots
        /\ check[k].work[i].at = "doc" => ~row[check[k].work[i].u].here
    BY <1>1, <1>3 DEF WorkIsRight
  <2>2. check[k].work[i] \in [u : Users, at : Stages]
    BY <1>1, <1>3, ElementOfSeq
  <2>3. CASE i = n
    BY <1>1, <1>2, <1>3, <2>1, <2>3
  <2>4. CASE i # n
    BY <1>3, <2>1, <2>2, <2>4
  <2> QED
    BY <2>3, <2>4
<1> HIDE DEF c, w
<1>9. WorkIsRight(c, row')
  BY <1>4, <1>6, <1>8 DEF WorkIsRight
<1> QED
  BY <1>4, <1>5, <1>7, <1>9

\* A deletion begins, of the account of the list or of a bot.
LEMMA Entered ==
  ASSUME NoticeInv, NEW k \in Checks, check[k].pc # "idle", NEW u \in Users, check' = Enter(k, u),
         check[k].pc = "work" => u \in Bots, row' = row
  PROVE  \E c \in CheckTypes :
           /\ check' = [check EXCEPT ![k] = c] /\ c.pc = "work" /\ c.list = check[k].list
           /\ c.work[1].u = IF check[k].pc = "work" THEN check[k].work[1].u ELSE u
           /\ WorkIsRight(c, row')
<1> DEFINE x == [u |-> u, at |-> "gallery"]
           w == Append(check[k].work, x)
           c == [check[k] EXCEPT !.pc = "work", !.work = w]
<1>1. check[k] \in CheckTypes /\ WorkIsRight(check[k], row)
  BY DEF NoticeInv, AccountTypes, Regular
<1>2. check[k].work \in Seq([u : Users, at : Stages])
  BY <1>1 DEF CheckTypes, Shape
<1>3. x \in [u : Users, at : Stages] /\ x.u = u /\ x.at = "gallery"
  BY DEF Stages
<1>4. check' = [check EXCEPT ![k] = c]
  BY Zenon DEF Enter
<1> HIDE DEF x
<1>5. /\ w \in Seq([u : Users, at : Stages]) /\ w # <<>>
      /\ Len(w) = Len(check[k].work) + 1 /\ Len(check[k].work) \in Nat
      /\ \A i \in 1 .. Len(w) : w[i] = IF i = Len(w) THEN x ELSE check[k].work[i]
  <2> DEFINE S == [u : Users, at : Stages]
             s == check[k].work
  <2>1. s \in Seq(S) /\ x \in S
    BY <1>2, <1>3
  <2> HIDE DEF S, s
  <2>2. /\ Append(s, x) \in Seq(S) /\ Append(s, x) # <<>> /\ Len(s) \in Nat
        /\ Len(Append(s, x)) = Len(s) + 1
        /\ \A i \in 1 .. Len(s) + 1 : Append(s, x)[i] = IF i = Len(s) + 1 THEN x ELSE s[i]
    BY <2>1, Appended
  <2> QED
    BY <2>2 DEF S, s
<1> HIDE DEF w
<1>6. c \in CheckTypes /\ c.pc = "work" /\ c.work = w /\ c.list = check[k].list
  BY <1>1, <1>5 DEF CheckTypes, Shape
<1> HIDE DEF c
<1>7. check[k].pc = "work" <=> Len(check[k].work) # 0
  BY <1>1, <1>2, EmptySeq DEF WorkIsRight
<1>8. c.work[1].u = IF check[k].pc = "work" THEN check[k].work[1].u ELSE u
  BY <1>3, <1>5, <1>6, <1>7
<1>9. ASSUME NEW i \in 1 .. Len(w)
      PROVE (i > 1 => w[i].u \in Bots) /\ (w[i].at = "doc" => ~row'[w[i].u].here)
  <2>1. CASE i = Len(w)
    BY <1>3, <1>5, <1>7, <2>1
  <2>2. CASE i # Len(w)
    <3>1. i \in 1 .. Len(check[k].work) /\ w[i] = check[k].work[i]
      BY <1>5, <2>2
    <3> QED
      BY <1>1, <3>1 DEF WorkIsRight
  <2> QED
    BY <2>1, <2>2
<1>10. WorkIsRight(c, row')
  BY <1>5, <1>6, <1>9 DEF WorkIsRight
<1> QED
  BY <1>4, <1>6, <1>8, <1>10

\* The deletion of a bot is over.
LEMMA Left ==
  ASSUME NoticeInv, NEW k \in Checks, AtWork(k, "doc"), Len(check[k].work) > 1, row' = row,
         check' = [check EXCEPT ![k] = [check[k] EXCEPT !.work = Front(check[k].work)]]
  PROVE  \E c \in CheckTypes :
           /\ check' = [check EXCEPT ![k] = c] /\ c.pc = "work" /\ c.list = check[k].list
           /\ c.work[1].u = check[k].work[1].u /\ WorkIsRight(c, row')
<1> DEFINE n == Len(check[k].work)
           w == Front(check[k].work)
           c == [check[k] EXCEPT !.work = w]
<1>1. /\ check[k] \in CheckTypes /\ check[k].pc = "work" /\ WorkIsRight(check[k], row)
      /\ check[k].work \in Seq([u : Users, at : Stages]) /\ n \in Nat \ {0}
  BY AtWorkHas
<1>2. /\ w \in Seq([u : Users, at : Stages]) /\ w # <<>> /\ Len(w) = n - 1
      /\ \A i \in 1 .. Len(w) : w[i] = check[k].work[i]
  BY <1>1, AllButLast
<1> HIDE DEF w
<1>3. c \in CheckTypes /\ c.pc = "work" /\ c.work = w /\ c.list = check[k].list
  BY <1>1, <1>2 DEF CheckTypes, Shape
<1>4. c.work[1].u = check[k].work[1].u
  <2>1. 1 \in 1 .. Len(w)
    BY <1>1, <1>2
  <2> QED
    BY <1>2, <1>3, <2>1
<1>5. check' = [check EXCEPT ![k] = c]
  BY DEF w
<1> HIDE DEF c
<1>6. WorkIsRight(c, row')
  BY <1>1, <1>2, <1>3 DEF WorkIsRight
<1> QED
  BY <1>3, <1>4, <1>5, <1>6

------------------------------------------------------------------------------
\* What was announced stays announced.
LEMMA AnnouncedStays ==
  ASSUME NoticeInv, began' = began, \A u \in Users : Steady(u)' => Steady(u), Smooth' => Smooth
  PROVE  DeletionIsAnnounced'
<1>1. NotBeforeGrace /\ WarnedInTime
  BY DEF NoticeInv, DeletionIsAnnounced
<1>2. NotBeforeGrace'
  BY <1>1 DEF NotBeforeGrace, Begun, Steady
<1>3. WarnedInTime'
  BY <1>1 DEF WarnedInTime, Begun, Steady, Smooth
<1> QED
  BY <1>2, <1>3 DEF DeletionIsAnnounced

LEMMA LastMidnightIsPast ==
  ASSUME AccountsAssumption, now \in Nat
  PROVE  LastMidnight \in Int /\ LastMidnight <= now
<1>1. Day \in Nat \ {0}
  BY Numbers
<1>2. now % Day \in Nat
  BY <1>1, NextTick
<1> QED
  BY <1>1, <1>2 DEF LastMidnight

\* Nothing that matters here.
LEMMA SilentNotice ==
  ASSUME NoticeInv, UNCHANGED <<row, apps, check, up, rung, now, key, asked, mail, began>>,
         UNCHANGED <<missed, throws, crashes>>, \A u \in Users : Steady(u)' <=> Steady(u)
  PROVE  NoticeInv'
<1>1. AccountTypes'
  BY DEF NoticeInv, AccountTypes
<1>2. Smooth' => Smooth
  BY DEF Smooth
<1>3. Dated'
  <2>1. \A k \in Checks : \A e \in check[k].list : e.u \in Users
    BY DEF NoticeInv, AccountTypes, CheckTypes, Shape, Lists
  <2> QED
    BY <2>1 DEF NoticeInv, Dated, AskedFor
<1>4. Regular'
  BY DEF NoticeInv, Regular
<1>5. Smooth' => InTime'
  <2> SUFFICES ASSUME Smooth' PROVE InTime'
    OBVIOUS
  <2>1. InTime
    BY <1>2 DEF NoticeInv
  <2>2. \A u \in Owners : u \in Users
    BY DEF Owners
  <2>3. OneCheck' /\ LastMidnight' = LastMidnight
    BY <2>1 DEF InTime, OneCheck, LastMidnight
  <2>4. \A u \in Owners : (Steady(u)' <=> Steady(u)) /\ (InList(u)' <=> InList(u))
    BY <2>2 DEF InList
  <2> QED
    BY <2>1, <2>2, <2>3, <2>4 DEF InTime, Warned
<1>6. DeletionIsAnnounced'
  BY <1>2, AnnouncedStays
<1> QED
  BY <1>1, <1>3, <1>4, <1>5, <1>6 DEF NoticeInv

\* The row of u changes: it is asked to be deleted, brought back, or a moderator steps in.
LEMMA RowNotice ==
  ASSUME AccountsAssumption, NoticeInv, NEW u \in Users, NEW r \in Account, NEW a \in Times,
         row' = [row EXCEPT ![u] = r], r.here, row[u].here,
         asked' = [asked EXCEPT ![u] = a], a <= now,
         UNCHANGED <<apps, check, up, rung, now, key, mail, began, missed, throws, crashes>>,
         \A v \in Users : Steady(v)' => Steady(v),
         Held(u) => ~Steady(u)',
         Steady(u)' /\ r.due # Never => r.banned /\ a = now /\ r.due = now + Grace
  PROVE  NoticeInv'
<1>1. AccountTypes'
  BY DEF NoticeInv, AccountTypes
<1>2. Smooth' => Smooth
  BY DEF Smooth
<1>3. /\ now \in Nat /\ row \in [Users -> Account] /\ asked \in [Users -> Times] /\ Grace \in Nat
      /\ \A k \in Checks : \A e \in check[k].list : e.u \in Users
      /\ row'[u] = r /\ asked'[u] = a
      /\ \A v \in Users \ {u} : row'[v] = row[v] /\ asked'[v] = asked[v]
      /\ \A v \in Users : row'[v].here <=> row[v].here
  BY Numbers DEF NoticeInv, AccountTypes, CheckTypes, Shape, Lists
<1>4. ASSUME NEW k \in Checks, NEW e \in check[k].list, Steady(e.u)'
      PROVE  e.u \in Users \ {u} /\ Steady(e.u)
  <2>1. e.u \in Users
    BY <1>3
  <2>2. e.u # u
    BY <1>4 DEF Held
  <2>3. PICK v \in Users : v = e.u
    BY <2>1
  <2>4. Steady(v)'
    BY <1>4, <2>3 DEF Steady, Kept
  <2>5. Steady(v)
    BY <2>4
  <2> QED
    BY <2>1, <2>2, <2>3, <2>5
<1>5. Dated'
  <2>1. ASSUME NEW v \in Users PROVE row'[v].due # Never => row'[v].here
    BY <1>3 DEF NoticeInv, Dated
  <2>2. ASSUME NEW v \in Users, Steady(v)', row'[v].due # Never
        PROVE  row'[v].banned /\ asked'[v] # Never /\ row'[v].due = asked'[v] + Grace
    <3>1. CASE v = u
      BY <1>3, <2>2, <3>1 DEF Never
    <3>2. CASE v # u
      <4>1. Steady(v)
        BY <2>2
      <4> QED
        BY <1>3, <2>2, <3>2, <4>1 DEF NoticeInv, Dated, AskedFor
    <3> QED
      BY <3>1, <3>2
  <2>3. ASSUME NEW k \in Checks, NEW e \in check[k].list, Steady(e.u)'
        PROVE  /\ e.due # Never => asked'[e.u] # Never /\ e.due = asked'[e.u] + Grace
               /\ row'[e.u].here => row'[e.u].due = e.due
    <3>1. e.u \in Users \ {u} /\ Steady(e.u)
      BY <2>3, <1>4
    <3> QED
      BY <1>3, <3>1 DEF NoticeInv, Dated, AskedFor
  <2> QED
    BY <2>1, <2>2, <2>3 DEF Dated, AskedFor
<1>6. Regular'
  <2>1. \A v \in Users : asked'[v] <= now' /\ key'[v] <= now' + Warn
    BY <1>3 DEF NoticeInv, Regular
  <2>2. ASSUME NEW k \in Checks PROVE WorkIsRight(check[k], row')
    <3>1. \A i \in 1 .. Len(check[k].work) : check[k].work[i].u \in Users
      BY WorkOfUsers
    <3> QED
      BY <1>3, <3>1 DEF NoticeInv, Regular, WorkIsRight
  <2> QED
    BY <2>1, <2>2 DEF Regular
<1>7. Smooth' => InTime'
  <2> SUFFICES ASSUME Smooth' PROVE InTime'
    OBVIOUS
  <2>1. InTime
    BY <1>2 DEF NoticeInv
  <2>2. OneCheck' /\ LastMidnight' = LastMidnight
    BY <2>1 DEF InTime, OneCheck, LastMidnight
  <2>3. \A v \in Owners : v \in Users
    BY DEF Owners
  <2>4. ASSUME NEW v \in Owners, Steady(v)', row'[v].due # Never, ~InList(v)'
        PROVE  Warned(v, row[v].due, LastMidnight)'
    <3>1. v \in Users /\ Steady(v) /\ ~InList(v)
      BY <2>3, <2>4 DEF InList
    <3>2. CASE v = u
      <4>1. row'[v].due = now + Grace /\ asked'[v] = now
        BY <1>3, <2>4, <3>2
      <4>2. LastMidnight \in Int /\ LastMidnight <= now
        BY <1>3, LastMidnightIsPast
      <4>3. /\ key[v] <= now + Warn /\ Warn \in Nat /\ Hour \in Nat
            /\ 2 * Warn <= Grace /\ Hour <= Warn /\ 0 < Hour
        BY <3>1, Numbers DEF NoticeInv, Regular
      <4> QED
        BY <1>3, <2>2, <4>1, <4>2, <4>3 DEF Warned
    <3>3. CASE v # u
      <4>1. row'[v].due = row[v].due /\ asked'[v] = asked[v]
        BY <1>3, <3>1, <3>3
      <4>2. Warned(v, row[v].due, LastMidnight)
        BY <2>1, <2>4, <3>1, <4>1 DEF InTime
      <4> QED
        BY <2>2, <4>1, <4>2 DEF Warned
    <3> QED
      BY <3>2, <3>3
  <2>5. ASSUME NEW k \in Checks, NEW e \in check[k].list, e.u \in Owners, Steady(e.u)',
               ~AtTop(check[k], e.u), e.due # Never
        PROVE  row'[e.u].here /\ Warned(e.u, e.due, now - Day)'
    <3>1. e.u \in Users \ {u} /\ Steady(e.u)
      BY <2>5, <1>4
    <3>2. row[e.u].here /\ Warned(e.u, e.due, now - Day)
      BY <2>1, <2>5, <3>1 DEF InTime
    <3>3. asked'[e.u] = asked[e.u]
      BY <1>3, <3>1
    <3> QED
      BY <1>3, <3>1, <3>2, <3>3 DEF Warned
  <2> QED
    BY <2>2, <2>4, <2>5 DEF InTime, AtTop
<1>8. DeletionIsAnnounced'
  BY <1>2, AnnouncedStays
<1> QED
  BY <1>1, <1>5, <1>6, <1>7, <1>8 DEF NoticeInv

\* The requests.
LEMMA RequestsNotice ==
  ASSUME AccountsAssumption, NoticeInv, NEW u \in Users,
         \/ AskDelete(u) \/ ConfirmDateOfBirth(u) \/ QueueDelete(u) \/ ForgetCopy(u)
         \/ Reactivate(u) \/ Revive(u) \/ ReadRow(u) \/ PutCopy(u)
         \/ \E b \in BOOLEAN : UpdateBanned(u, b)
  PROVE  NoticeInv'
<1>1. /\ row \in [Users -> Account] /\ asked \in [Users -> Times] /\ now \in Nat
      /\ Grace \in Nat /\ \A v \in Users : asked[v] <= now
  BY Numbers DEF NoticeInv, AccountTypes, Regular
<1>2. CASE \/ AskDelete(u) \/ ConfirmDateOfBirth(u) \/ ForgetCopy(u) \/ Reactivate(u) \/ ReadRow(u)
           \/ PutCopy(u)
  <2>1. /\ UNCHANGED <<row, apps, check, up, rung, now, key, asked, mail, began>>
        /\ UNCHANGED <<missed, throws, crashes>>
    BY <1>2 DEF AskDelete, ConfirmDateOfBirth, ForgetCopy, Reactivate, ReadRow, PutCopy,
       data, redis, clock, bounds, history
  <2>2. loose' \in {loose, loose \ {<<u, "copy">>}, loose \cup {<<u, "copy">>}}
    BY <1>2 DEF AskDelete, ConfirmDateOfBirth, ForgetCopy, Reactivate, ReadRow, PutCopy, history
  <2>3. \A v \in Users : Steady(v)' <=> Steady(v)
    BY <2>2 DEF Steady, Kept
  <2> QED
    BY <2>1, <2>3, SilentNotice
<1>3. CASE QueueDelete(u) \/ Revive(u)
  <2>1. UNCHANGED <<apps, check, up, rung, now, key, mail, began, missed, throws, crashes>>
    BY <1>3 DEF QueueDelete, Revive, redis, clock, bounds
  <2>2. CASE ~row[u].here
    <3>1. UNCHANGED <<row, asked, loose>>
      BY <1>3, <2>2 DEF QueueDelete, Revive
    <3>2. \A v \in Users : Steady(v)' <=> Steady(v)
      BY <3>1 DEF Steady, Kept
    <3> QED
      BY <2>1, <3>1, <3>2, SilentNotice
  <2>3. CASE row[u].here /\ QueueDelete(u)
    <3> DEFINE r == [row[u] EXCEPT !.banned = TRUE, !.due = now + Grace, !.type = ask[u]]
    <3>1. /\ row' = [row EXCEPT ![u] = r] /\ asked' = [asked EXCEPT ![u] = now]
          /\ ask[u] \in {"manual", "age"}
          /\ loose' = IF Held(u) THEN loose \cup {<<u, "list">>} ELSE loose
      BY <2>3 DEF QueueDelete
    <3>2. r \in Account /\ r.here = row[u].here /\ r.banned /\ r.due = now + Grace
      <4>1. row[u] \in Account /\ now + Grace \in Nat
        BY <1>1
      <4> QED
        BY <3>1, <4>1 DEF Account
    <3> HIDE DEF r
    <3>3. \A v \in Users : Steady(v)' => Steady(v)
      BY <3>1 DEF Steady, Kept
    <3>4. Held(u) => ~Steady(u)'
      BY <3>1 DEF Steady, Kept
    <3>5. now \in Times /\ now <= now
      BY <1>1 DEF Times
    <3> QED
      BY <2>1, <2>3, <3>1, <3>2, <3>3, <3>4, <3>5, RowNotice
  <2>4. CASE row[u].here /\ Revive(u)
    <3> DEFINE r == [here |-> TRUE, banned |-> FALSE, due |-> Never, type |-> "none"]
    <3>1. /\ row' = [row EXCEPT ![u] = r] /\ asked' = [asked EXCEPT ![u] = Never]
          /\ loose' = loose \cup {<<u, "copy">>} \cup (IF Held(u) THEN {<<u, "list">>} ELSE {})
      BY <2>4 DEF Revive
    <3>2. r \in Account /\ r.here /\ r.due = Never
      BY DEF Account
    <3> HIDE DEF r
    <3>3. \A v \in Users : Steady(v)' => Steady(v)
      BY <3>1 DEF Steady, Kept
    <3>4. Held(u) => ~Steady(u)'
      BY <3>1 DEF Steady, Kept
    <3>5. Never \in Times /\ Never <= now
      BY <1>1 DEF Times, Never
    <3> QED
      BY <2>1, <2>4, <3>1, <3>2, <3>3, <3>4, <3>5, RowNotice
  <2> QED
    BY <1>3, <2>2, <2>3, <2>4
<1>4. ASSUME NEW b \in BOOLEAN, UpdateBanned(u, b) PROVE NoticeInv'
  <2> DEFINE r == [row[u] EXCEPT !.banned = b]
             a == IF b THEN asked[u] ELSE Never
  <2>1. /\ row' = [row EXCEPT ![u] = r] /\ row[u].here
        /\ loose' = loose \cup {<<u, "copy">>}
                          \cup (IF row[u].due # Never THEN {<<u, "date">>} ELSE {})
                          \cup (IF Held(u) THEN {<<u, "list">>} ELSE {})
        /\ UNCHANGED <<apps, check, up, rung, now, key, mail, began, missed, throws, crashes>>
    BY <1>4 DEF UpdateBanned, redis, clock
  <2>2. asked' = [asked EXCEPT ![u] = a]
    BY <1>1, <1>4 DEF UpdateBanned
  <2>3. r \in Account /\ r.here = row[u].here /\ r.due = row[u].due
    <3>1. row[u] \in Account
      BY <1>1
    <3> QED
      BY <3>1 DEF Account
  <2>4. a \in Times /\ a <= now
    BY <1>1 DEF Times, Never
  <2> HIDE DEF r, a
  <2>5. \A v \in Users : Steady(v)' => Steady(v)
    BY <2>1 DEF Steady, Kept
  <2>6. (Held(u) => ~Steady(u)') /\ (row[u].due # Never => ~Steady(u)')
    BY <2>1 DEF Steady, Kept
  <2> QED
    BY <2>1, <2>2, <2>3, <2>4, <2>5, <2>6, RowNotice
<1> QED
  BY <1>2, <1>3, <1>4

\* A tick is longer than a check.
LEMMA TickNotice ==
  ASSUME AccountsAssumption, NoticeInv, Tick
  PROVE  NoticeInv'
<1>1. /\ now' = now + 1 /\ rung' = (now' % Day # 0) /\ missed' = (missed \/ ~rung)
      /\ \A k \in Checks : check[k] = Idle
      /\ UNCHANGED <<row, apps, check, up, key, asked, mail, began, loose, throws, crashes>>
  BY DEF Tick, data, redis, bounds
<1>2. now \in Nat /\ Day \in Nat \ {0} /\ Warn \in Nat
  BY Numbers DEF NoticeInv, AccountTypes
<1>3. AccountTypes'
  BY <1>1, <1>2 DEF NoticeInv, AccountTypes
<1>4. Smooth' => Smooth /\ rung
  BY <1>1 DEF Smooth
<1>5. \A u \in Users : Steady(u)' <=> Steady(u)
  BY <1>1 DEF Steady, Kept
<1>6. \A k \in Checks : check[k].list = {} /\ check[k].pc = "idle"
  BY <1>1 DEF Idle
<1>7. Dated'
  BY <1>1, <1>5, <1>6 DEF NoticeInv, Dated, AskedFor
<1>8. Regular'
  <2>1. \A u \in Users : asked[u] \in Int /\ key[u] \in Int
    BY DEF NoticeInv, AccountTypes, Times, Never
  <2>2. \A u \in Users : asked[u] <= now + 1 /\ key[u] <= now + 1 + Warn
    BY <1>2, <2>1 DEF NoticeInv, Regular
  <2> QED
    BY <1>1, <2>2 DEF NoticeInv, Regular
<1>9. Smooth' => InTime'
  <2> SUFFICES ASSUME Smooth' PROVE InTime'
    OBVIOUS
  <2>1. InTime /\ rung
    BY <1>4 DEF NoticeInv
  <2>2. /\ now % Day \in 0 .. (Day - 1)
        /\ (now + 1) % Day # 0 => (now + 1) % Day = (now % Day) + 1
        /\ (now + 1) % Day = 0 => now % Day = Day - 1 /\ now + 1 >= Day
    BY <1>2, NextTick
  <2>3. OneCheck'
    BY <1>1, <1>6, <2>1, <2>2 DEF InTime, OneCheck
  <2>4. LastMidnight' = LastMidnight
    <3>1. PICK m \in Int : m = now % Day
      BY <2>2
    <3>2. PICK n \in Int : n = (now + 1) % Day
      BY <1>2
    <3>3. LastMidnight = now - m
      BY <2>1, <3>1 DEF LastMidnight
    <3>4. LastMidnight' = IF n # 0 THEN now + 1 - n ELSE now + 1 - Day
      <4>1. now' % Day = n /\ rung' = (n # 0) /\ now' = now + 1
        BY <1>1, <3>2
      <4>2. LastMidnight' = IF rung' THEN now' - (now' % Day) ELSE now' - Day
        BY DEF LastMidnight
      <4>3. LastMidnight' = IF rung' THEN now' - n ELSE now' - Day
        BY <4>1, <4>2
      <4>4. CASE n # 0
        <5>1. rung'
          BY <4>1, <4>4
        <5> QED
          BY <1>2, <4>1, <4>3, <4>4, <5>1
      <4>5. CASE n = 0
        <5>1. ~rung'
          BY <4>1, <4>5
        <5> QED
          BY <1>2, <4>1, <4>3, <4>5, <5>1
      <4> QED
        BY <4>4, <4>5
    <3>5. (n # 0 => n = m + 1) /\ (n = 0 => m = Day - 1)
      BY <2>2, <3>1, <3>2
    <3> QED
      BY <1>2, <3>1, <3>3, <3>4, <3>5
  <2>5. \A u \in Owners : u \in Users
    BY DEF Owners
  <2>6. \A u \in Users : ~InList(u)
    BY <1>6 DEF InList
  <2>7. ASSUME NEW u \in Owners, Steady(u)', row'[u].due # Never
        PROVE  Warned(u, row[u].due, LastMidnight)'
    <3>1. Warned(u, row[u].due, LastMidnight)
      BY <1>1, <1>5, <2>1, <2>5, <2>6, <2>7 DEF InTime
    <3> QED
      BY <1>1, <2>4, <3>1 DEF Warned
  <2> QED
    BY <1>1, <1>6, <2>3, <2>7 DEF InTime
<1>10. DeletionIsAnnounced'
  BY <1>1, <1>4, <1>5, AnnouncedStays
<1> QED
  BY <1>3, <1>7, <1>8, <1>9, <1>10 DEF NoticeInv

------------------------------------------------------------------------------
\* One check goes on: its list shrinks, or holds what the rows say.
LEMMA CheckDated ==
  ASSUME AccountsAssumption, NoticeInv, AccountTypes', NEW k \in Checks, NEW c \in CheckTypes,
         check' = [check EXCEPT ![k] = c], WorkIsRight(c, row'),
         \A e \in c.list : e \in check[k].list \/ (e \in Banned /\ row' = row),
         \A u \in Users : row'[u] = row[u] \/ (~row'[u].here /\ row'[u].due = Never),
         \A u \in Users : key'[u] <= now + Warn,
         UNCHANGED <<asked, loose, now>>
  PROVE  Dated' /\ Regular'
<1>1. \A u \in Users : Steady(u)' <=> Steady(u)
  BY DEF Steady, Kept
<1>2. /\ check \in [Checks -> CheckTypes] /\ check'[k] = c
      /\ \A j \in Checks \ {k} : check'[j] = check[j]
  BY DEF NoticeInv, AccountTypes
<1>3. ASSUME NEW j \in Checks, NEW e \in check'[j].list, Steady(e.u)'
      PROVE  /\ e.due # Never => AskedFor(e.u, e.due)'
             /\ row'[e.u].here => row'[e.u].due = e.due
  <2>1. e.u \in Users /\ check'[j] \in CheckTypes
    BY <1>3 DEF AccountTypes, CheckTypes, Shape, Lists
  <2>2. Steady(e.u)
    BY <1>3 DEF Steady, Kept
  <2>3. CASE e \in check[j].list
    BY <2>1, <2>2, <2>3 DEF NoticeInv, Dated, AskedFor
  <2>4. CASE j = k /\ e \in Banned /\ row' = row
    <3>1. e.due = row[e.u].due
      BY <2>4 DEF Banned, Listed
    <3> QED
      BY <2>1, <2>2, <2>4, <3>1 DEF NoticeInv, Dated, AskedFor
  <2> QED
    BY <1>2, <1>3, <2>3, <2>4
<1>4. Dated'
  <2>1. \A u \in Users : row'[u].due # Never => row'[u] = row[u]
    OBVIOUS
  <2>2. ASSUME NEW u \in Users, row'[u].due # Never
        PROVE row'[u].here /\ (Steady(u)' => row'[u].banned /\ AskedFor(u, row[u].due)')
    BY <1>1, <2>1, <2>2 DEF NoticeInv, Dated, AskedFor
  <2> QED
    BY <1>3, <2>2 DEF Dated, AskedFor
<1>5. ASSUME NEW j \in Checks PROVE WorkIsRight(check'[j], row')
  <2>1. CASE j = k
    BY <1>2, <2>1
  <2>2. CASE j # k
    <3>1. WorkIsRight(check[j], row)
      BY DEF NoticeInv, Regular
    <3>2. \A i \in 1 .. Len(check[j].work) : check[j].work[i].u \in Users
      BY WorkOfUsers
    <3> QED
      BY <1>2, <2>2, <3>1, <3>2 DEF WorkIsRight
  <2> QED
    BY <2>1, <2>2
<1>6. Regular'
  BY <1>5 DEF NoticeInv, Regular
<1> QED
  BY <1>4, <1>6

\* A check that runs is the only one.
LEMMA Alone ==
  ASSUME NoticeInv, Smooth, NEW k \in Checks, check[k].pc # "idle"
  PROVE  /\ InTime /\ OneCheck /\ rung /\ now >= Day /\ now % Day = 0 /\ up
         /\ \A j \in Checks \ {k} : check[j].pc = "idle" /\ check[j].list = {}
<1>1. InTime /\ OneCheck
  BY DEF NoticeInv, InTime
<1> QED
  BY <1>1 DEF OneCheck, NoticeInv, Regular, WorkIsRight

\* It goes on, and nothing changes but for the account w.
LEMMA CheckInTime ==
  ASSUME AccountsAssumption, NoticeInv, Smooth, NEW k \in Checks, check[k].pc # "idle",
         NEW c \in CheckTypes, check' = [check EXCEPT ![k] = c],
         UNCHANGED <<up, rung, now, asked, loose>>, NEW w,
         \A u \in Users \ {w} : key'[u] = key[u] /\ mail'[u] = mail[u] /\ row'[u] = row[u],
         \A e \in c.list : /\ e \in check[k].list
                           /\ AtTop(check[k], e.u) => AtTop(c, e.u)
                           /\ e.u = w /\ w \in Owners => AtTop(c, w),
         \A e \in check[k].list : e \notin c.list => e.u = w,
         w \in Owners /\ Steady(w) /\ row'[w].due # Never => Warned(w, row[w].due, now)'
  PROVE  InTime'
<1>1. /\ InTime /\ OneCheck /\ rung /\ now >= Day /\ now % Day = 0 /\ up
      /\ \A j \in Checks \ {k} : check[j].pc = "idle" /\ check[j].list = {}
  BY Alone
<1>2. check'[k] = c /\ \A j \in Checks \ {k} : check'[j] = check[j]
  BY DEF NoticeInv, AccountTypes
<1>3. OneCheck'
  BY <1>1, <1>2 DEF OneCheck
<1>4. now \in Nat /\ LastMidnight = now /\ LastMidnight' = now
  <2>1. now \in Nat
    BY DEF NoticeInv, AccountTypes
  <2>2. now - 0 = now
    BY <2>1
  <2> QED
    BY <1>1, <2>1, <2>2 DEF LastMidnight
<1>5. \A u \in Owners : u \in Users /\ (Steady(u)' <=> Steady(u))
  BY DEF Owners, Steady, Kept
<1>6. ASSUME NEW u \in Owners, Steady(u)', row'[u].due # Never, ~InList(u)'
      PROVE  Warned(u, row[u].due, LastMidnight)'
  <2>1. CASE u = w
    <3>1. Warned(w, row[w].due, now)'
      BY <1>5, <1>6, <2>1
    <3> QED
      BY <1>4, <2>1, <3>1 DEF Warned
  <2>2. CASE u # w
    <3>1. ~InList(u)
      BY <1>1, <1>2, <1>6, <2>2 DEF InList
    <3>2. row'[u] = row[u] /\ key'[u] = key[u] /\ mail'[u] = mail[u]
      BY <1>5, <2>2
    <3>3. Warned(u, row[u].due, LastMidnight)
      BY <1>1, <1>5, <1>6, <3>1, <3>2 DEF InTime
    <3> QED
      BY <1>4, <3>2, <3>3 DEF Warned
  <2> QED
    BY <2>1, <2>2
<1>7. ASSUME NEW j \in Checks, NEW e \in check'[j].list, e.u \in Owners, Steady(e.u)',
             ~AtTop(check'[j], e.u), e.due # Never
      PROVE  row'[e.u].here /\ Warned(e.u, e.due, now - Day)'
  <2>1. j = k /\ e \in c.list
    BY <1>1, <1>2, <1>7
  <2>2. e \in check[k].list /\ ~AtTop(check[k], e.u) /\ e.u # w
    BY <1>2, <1>7, <2>1
  <2>3. e.u \in Users /\ Steady(e.u)
    BY <1>5, <1>7 DEF Steady, Kept
  <2>4. row[e.u].here /\ Warned(e.u, e.due, now - Day)
    BY <1>1, <1>7, <2>2, <2>3 DEF InTime
  <2>5. row'[e.u] = row[e.u] /\ key'[e.u] = key[e.u] /\ mail'[e.u] = mail[e.u]
    BY <2>2, <2>3
  <2> QED
    BY <2>4, <2>5 DEF Warned
<1>8. \A j \in Checks : \A u : AtTop(check[j], u)' <=> AtTop(check'[j], u)
  BY DEF AtTop
<1> QED
  BY <1>3, <1>6, <1>7, <1>8 DEF InTime

\* The next account of a list: what was true of it a day ago, and what is true today.
LEMMA NextOfList ==
  ASSUME AccountsAssumption, NoticeInv, Smooth, NEW k \in Checks, check[k].pc = "next",
         NEW e \in check[k].list, e.u \in Owners, Steady(e.u), e.due # Never
  PROVE  /\ e.u \in Users /\ e.due \in Nat /\ asked[e.u] \in Nat
         /\ mail[e.u] \in Int /\ key[e.u] \in Int
         /\ now \in Nat /\ asked[e.u] <= now /\ e.due = asked[e.u] + Grace
         /\ row[e.u].here /\ Warned(e.u, e.due, now - Day)
         /\ Due(e.due) <=> e.due - now < Hour
         /\ Soon(e.due) <=> e.due - now < Warn
<1>1. now \in Nat /\ e.u \in Users /\ e.due \in Times
  BY DEF NoticeInv, AccountTypes, CheckTypes, Shape, Lists
<1>2. e.due \in Nat
  BY <1>1 DEF Times
<1>3. InTime
  BY DEF NoticeInv
<1>4. row[e.u].here /\ Warned(e.u, e.due, now - Day)
  BY <1>3 DEF InTime, AtTop
<1>5. asked[e.u] # Never /\ e.due = asked[e.u] + Grace
  BY DEF NoticeInv, Dated, AskedFor
<1>6. asked[e.u] \in Nat /\ mail[e.u] \in Int /\ key[e.u] \in Int /\ asked[e.u] <= now
  BY <1>1, <1>5 DEF NoticeInv, AccountTypes, Regular, Times, Never
<1>7. (Due(e.due) <=> e.due - now < Hour) /\ (Soon(e.due) <=> e.due - now < Warn)
  BY <1>1, <1>2, HoursLeft
<1> QED
  BY <1>1, <1>2, <1>4, <1>5, <1>6, <1>7

LEMMA SkipWarns ==
  ASSUME AccountsAssumption, NoticeInv, Smooth, NEW k \in Checks, check[k].pc = "next",
         NEW e \in check[k].list, e.u \in Owners, Steady(e.u), e.due # Never,
         ~Due(e.due), ~Soon(e.due) \/ key[e.u] > now
  PROVE  Warned(e.u, e.due, now)
<1>1. /\ e.due \in Nat /\ asked[e.u] \in Nat /\ mail[e.u] \in Int /\ key[e.u] \in Int /\ now \in Nat
      /\ e.due = asked[e.u] + Grace /\ e.due - now >= Hour
      /\ e.due - now >= Warn \/ key[e.u] > now
  BY NextOfList, Numbers
<1>2. Warned(e.u, e.due, now - Day)
  BY NextOfList
<1>3. /\ Hour \in Nat /\ Day \in Nat /\ Warn \in Nat /\ Grace \in Nat
      /\ 0 < Hour /\ Hour < Day /\ Day + Hour <= Warn /\ 2 * Warn <= Grace
  BY Numbers
<1> QED
  BY <1>1, <1>2, <1>3 DEF Warned

\* What is going to be deleted has been announced.
LEMMA DueWarned ==
  ASSUME AccountsAssumption, NoticeInv, Smooth, NEW k \in Checks, check[k].pc = "next",
         NEW e \in check[k].list, e.u \in Owners, Steady(e.u), e.due # Never, Due(e.due)
  PROVE  /\ mail[e.u] # Never /\ mail[e.u] >= asked[e.u]
         /\ now - mail[e.u] \in Day .. Warn + Day
<1>1. /\ e.due \in Nat /\ asked[e.u] \in Nat /\ mail[e.u] \in Int /\ key[e.u] \in Int /\ now \in Nat
      /\ e.due = asked[e.u] + Grace /\ e.due - now < Hour
  BY NextOfList, Numbers
<1>2. Warned(e.u, e.due, now - Day)
  BY NextOfList
<1>3. /\ Hour \in Nat /\ Day \in Nat /\ Warn \in Nat /\ Grace \in Nat
      /\ 0 < Hour /\ Hour < Day /\ Day + Hour <= Warn /\ 2 * Warn <= Grace
  BY Numbers
<1>4. /\ e.due - (now - Day) >= Hour /\ mail[e.u] # Never /\ asked[e.u] <= mail[e.u]
      /\ mail[e.u] <= now - Day /\ e.due - mail[e.u] < Warn
  BY <1>1, <1>2, <1>3 DEF Warned
<1> QED
  BY <1>1, <1>3, <1>4

\* A check goes on; w is the account that it is done with, if there is one.
LEMMA CheckNotice ==
  ASSUME AccountsAssumption, NoticeInv, AccountTypes', NEW k \in Checks, check[k].pc # "idle",
         NEW c \in CheckTypes, check' = [check EXCEPT ![k] = c], WorkIsRight(c, row'),
         UNCHANGED <<up, rung, now, asked, loose, missed, throws, crashes>>, NEW w,
         \A u \in Users : row'[u] = row[u] \/ (~row'[u].here /\ row'[u].due = Never),
         \A u \in Users : key'[u] <= now + Warn,
         \A u \in Users \ {w} : key'[u] = key[u] /\ mail'[u] = mail[u] /\ row'[u] = row[u],
         \A e \in c.list : /\ e \in check[k].list
                           /\ AtTop(check[k], e.u) => AtTop(c, e.u)
                           /\ e.u = w /\ w \in Owners => AtTop(c, w),
         \A e \in check[k].list : e \notin c.list => e.u = w,
         Smooth /\ w \in Owners /\ Steady(w) /\ row'[w].due # Never => Warned(w, row[w].due, now)',
         DeletionIsAnnounced'
  PROVE  NoticeInv'
<1>1. Dated' /\ Regular'
  BY CheckDated
<1>2. Smooth' => InTime'
  <2> SUFFICES ASSUME Smooth' PROVE InTime'
    OBVIOUS
  <2>1. Smooth
    BY DEF Smooth
  <2>2. w \in Owners /\ Steady(w) /\ row'[w].due # Never => Warned(w, row[w].due, now)'
    BY <2>1
  <2> QED
    BY <2>1, <2>2, CheckInTime
<1> QED
  BY <1>1, <1>2 DEF NoticeInv

\* A deletion goes on; w is the account whose row goes, if there is one.
LEMMA StageNotice ==
  ASSUME AccountsAssumption, NoticeInv, NEW k \in Checks, check[k].pc = "work", NEW c \in CheckTypes,
         check' = [check EXCEPT ![k] = c], c.pc = "work", c.list = check[k].list,
         c.work[1].u = check[k].work[1].u, WorkIsRight(c, row'),
         UNCHANGED <<key, mail, began, up, rung, now, asked, loose, missed, throws, crashes>>,
         row' \in [Users -> Account], \A u \in Users : apps'[u] \subseteq BotsOf[u], NEW w,
         \A u \in Users \ {w} : row'[u] = row[u],
         w \in Users => ~row'[w].here /\ row'[w].due = Never,
         w \in Owners => w = check[k].work[1].u
  PROVE  NoticeInv'
<1>1. AccountTypes'
  BY DEF NoticeInv, AccountTypes
<1>2. \A u \in Users : key'[u] <= now + Warn
  BY DEF NoticeInv, Regular
<1>3. \A u \in Users : Steady(u)' => Steady(u)
  BY DEF Steady, Kept
<1>4. DeletionIsAnnounced'
  BY <1>3, AnnouncedStays DEF Smooth
<1>5. \A u : AtTop(check[k], u) <=> AtTop(c, u)
  BY DEF AtTop
<1>6. w \in Owners => w \in Users /\ AtTop(c, w)
  BY DEF Owners, AtTop
<1> QED
  BY <1>1, <1>2, <1>4, <1>5, <1>6, CheckNotice

\* The account w of a list is done with, and nothing is deleted.
LEMMA DoneNotice ==
  ASSUME AccountsAssumption, NoticeInv, NEW k \in Checks, check[k].pc # "idle", NEW w,
         NEW c \in CheckTypes, check' = [check EXCEPT ![k] = c], c.list = Without(check[k].list, w),
         c.pc # "work", check[k].pc = "work" => check[k].work[1].u = w, WorkIsRight(c, row),
         UNCHANGED <<row, apps, began, up, rung, now, asked, loose, missed, throws, crashes>>,
         key' \in [Users -> Times], mail' \in [Users -> Times],
         \A u \in Users : key'[u] <= now + Warn,
         \A u \in Users \ {w} : key'[u] = key[u] /\ mail'[u] = mail[u],
         Smooth /\ w \in Owners /\ Steady(w) /\ row[w].due # Never => Warned(w, row[w].due, now)'
  PROVE  NoticeInv'
<1>1. AccountTypes'
  BY DEF NoticeInv, AccountTypes
<1>2. \A u \in Users : Steady(u)' => Steady(u)
  BY DEF Steady, Kept
<1>3. DeletionIsAnnounced'
  BY <1>2, AnnouncedStays DEF Smooth
<1>4. \A e \in c.list : /\ e \in check[k].list
                        /\ AtTop(check[k], e.u) => AtTop(c, e.u)
                        /\ e.u = w /\ w \in Owners => AtTop(c, w)
  BY DEF Without, AtTop
<1>5. \A e \in check[k].list : e \notin c.list => e.u = w
  BY DEF Without
<1>6. /\ WorkIsRight(c, row') /\ \A u \in Users : key'[u] <= now + Warn
      /\ \A u \in Users : row'[u] = row[u] \/ (~row'[u].here /\ row'[u].due = Never)
  OBVIOUS
<1>7. Smooth /\ w \in Owners /\ Steady(w) /\ row'[w].due # Never => Warned(w, row[w].due, now)'
  OBVIOUS
<1>8. \A u \in Users \ {w} : key'[u] = key[u] /\ mail'[u] = mail[u] /\ row'[u] = row[u]
  OBVIOUS
<1> QED
  BY <1>1, <1>3, <1>4, <1>5, <1>6, <1>7, <1>8, CheckNotice

\* Whoever is in no account's place.
LEMMA NobodyIsHe == ASSUME AccountsAssumption PROVE Never \notin Users /\ Never \notin Owners
<1>1. Users \subseteq Nat /\ Owners \subseteq Users
  BY People
<1> QED
  BY <1>1 DEF Never

LEMMA NextOf ==
  ASSUME NoticeInv, NEW k \in Checks, check[k].pc = "next", NEW e \in Foremost(check[k].list)
  PROVE  /\ e \in check[k].list /\ e.u \in Users /\ e.due \in Times
         /\ [check[k] EXCEPT !.list = Without(check[k].list, e.u)] \in CheckTypes
         /\ WorkIsRight([check[k] EXCEPT !.list = Without(check[k].list, e.u)], row)
         /\ check[k].work = <<>>
<1>1. e \in check[k].list
  BY DEF Foremost
<1>2. check[k] \in CheckTypes /\ WorkIsRight(check[k], row)
  BY DEF NoticeInv, AccountTypes, Regular
<1>3. e.u \in Users /\ e.due \in Times
  BY <1>1, <1>2 DEF CheckTypes, Shape, Lists
<1>4. Without(check[k].list, e.u) \in Lists
  BY <1>2 DEF CheckTypes, Shape, Lists, Without
<1>5. [check[k] EXCEPT !.list = Without(check[k].list, e.u)] \in CheckTypes
  BY <1>2, <1>4 DEF CheckTypes, Shape
<1>6. check[k].work = <<>>
  BY <1>2 DEF WorkIsRight
<1>7. WorkIsRight([check[k] EXCEPT !.list = Without(check[k].list, e.u)], row)
  BY <1>2, <1>6 DEF WorkIsRight, CheckTypes, Shape
<1> QED
  BY <1>1, <1>3, <1>5, <1>6, <1>7

LEMMA AfterIs ==
  ASSUME NEW k \in Checks, NEW u
  PROVE  After(k, u) = [check EXCEPT ![k] = [check[k] EXCEPT !.list = Without(check[k].list, u)]]
  BY Zenon DEF After

LEMMA SkipNotice ==
  ASSUME AccountsAssumption, NoticeInv, NEW k \in Checks, Skip(k)
  PROVE  NoticeInv'
<1>1. PICK e \in Foremost(check[k].list) :
        /\ check[k].pc = "next" /\ check' = After(k, e.u)
        /\ e.due # Never => ~Due(e.due) /\ (~Soon(e.due) \/ key[e.u] > now)
  BY DEF Skip
<1>2. UNCHANGED <<row, apps, key, mail, began, up, rung, now, asked, loose, missed, throws, crashes>>
  BY DEF Skip, data, redis, clock, bounds, history
<1> DEFINE c == [check[k] EXCEPT !.list = Without(check[k].list, e.u)]
<1>3. /\ e \in check[k].list /\ e.u \in Users /\ c \in CheckTypes /\ WorkIsRight(c, row)
  BY <1>1, NextOf
<1>4. check' = [check EXCEPT ![k] = c]
  BY <1>1, AfterIs
<1>5. c.list = Without(check[k].list, e.u) /\ c.pc = "next"
  BY <1>1 DEF NoticeInv, AccountTypes, CheckTypes, Shape
<1> HIDE DEF c
<1>6. ASSUME Smooth, e.u \in Owners, Steady(e.u), row[e.u].due # Never
      PROVE  Warned(e.u, row[e.u].due, now)'
  <2>1. row[e.u].due = e.due
    BY <1>3, <1>6 DEF NoticeInv, Dated
  <2>2. Warned(e.u, e.due, now)
    BY <1>1, <1>3, <1>6, <2>1, SkipWarns
  <2> QED
    BY <1>2, <2>1, <2>2 DEF Warned
<1>7. /\ key' \in [Users -> Times] /\ mail' \in [Users -> Times]
      /\ \A u \in Users : key'[u] <= now + Warn
  BY <1>2 DEF NoticeInv, AccountTypes, Regular
<1> QED
  BY <1>1, <1>2, <1>3, <1>4, <1>5, <1>6, <1>7, DoneNotice

LEMMA WarnNotice ==
  ASSUME AccountsAssumption, NoticeInv, NEW k \in Checks, WarnOwner(k)
  PROVE  NoticeInv'
<1>1. PICK e \in Foremost(check[k].list) :
        /\ check[k].pc = "next" /\ check' = After(k, e.u)
        /\ e.due # Never /\ ~Due(e.due) /\ Soon(e.due)
        /\ key' = [key EXCEPT ![e.u] = now + Warn]
        /\ mail' = IF row[e.u].here THEN [mail EXCEPT ![e.u] = now] ELSE mail
  BY DEF WarnOwner
<1>2. UNCHANGED <<row, apps, began, up, rung, now, asked, loose, missed, throws, crashes>>
  BY DEF WarnOwner, data, clock, bounds
<1> DEFINE c == [check[k] EXCEPT !.list = Without(check[k].list, e.u)]
<1>3. /\ e \in check[k].list /\ e.u \in Users /\ e.due \in Times
      /\ c \in CheckTypes /\ WorkIsRight(c, row)
  BY <1>1, NextOf
<1>4. check' = [check EXCEPT ![k] = c]
  BY <1>1, AfterIs
<1>5. c.list = Without(check[k].list, e.u) /\ c.pc = "next"
  BY <1>1 DEF NoticeInv, AccountTypes, CheckTypes, Shape
<1> HIDE DEF c
<1>6. /\ now \in Nat /\ now + Warn \in Times /\ now \in Times /\ now # Never
      /\ key \in [Users -> Times] /\ mail \in [Users -> Times]
  BY Numbers DEF NoticeInv, AccountTypes, Times, Never
<1>7. /\ key' \in [Users -> Times] /\ mail' \in [Users -> Times]
      /\ \A u \in Users : key'[u] <= now + Warn
      /\ \A u \in Users \ {e.u} : key'[u] = key[u] /\ mail'[u] = mail[u]
  <2>1. key' = [key EXCEPT ![e.u] = now + Warn] /\ mail' \in {mail, [mail EXCEPT ![e.u] = now]}
    BY <1>1
  <2>2. key' \in [Users -> Times] /\ mail' \in [Users -> Times]
    BY <1>3, <1>6, <2>1
  <2>3. \A u \in Users : key[u] <= now + Warn
    BY DEF NoticeInv, Regular
  <2>4. \A u \in Users \ {e.u} : key'[u] = key[u] /\ mail'[u] = mail[u]
    BY <1>6, <2>1
  <2>5. key'[e.u] = now + Warn /\ now + Warn \in Nat
    BY <1>3, <1>6, <2>1, Numbers
  <2> QED
    BY <2>2, <2>3, <2>4, <2>5
<1>8. ASSUME Smooth, e.u \in Owners, Steady(e.u), row[e.u].due # Never
      PROVE  Warned(e.u, row[e.u].due, now)'
  <2>1. row[e.u].here /\ row[e.u].due = e.due
    BY <1>3, <1>8 DEF NoticeInv, Dated
  <2>2. mail'[e.u] = now /\ key'[e.u] = now + Warn
    BY <1>1, <1>3, <1>6, <2>1
  <2>3. e.due \in Nat /\ e.due - now >= Hour /\ e.due - now < Warn
    <3>1. e.due \in Nat
      BY <1>1, <1>3 DEF Times
    <3>2. (Due(e.due) <=> e.due - now < Hour) /\ (Soon(e.due) <=> e.due - now < Warn)
      BY <1>6, <3>1, HoursLeft
    <3>3. Hour \in Nat
      BY Numbers
    <3> QED
      BY <1>1, <1>6, <3>1, <3>2, <3>3
  <2>4. asked'[e.u] <= now
    BY <1>2, <1>3 DEF NoticeInv, Regular
  <2>5. row'[e.u].due = e.due /\ now' = now /\ Warn \in Nat
    BY <1>2, <2>1, Numbers
  <2> QED
    BY <1>6, <2>2, <2>3, <2>4, <2>5 DEF Warned
<1>9. check[k].pc = "next" /\ c.pc # "work"
  BY <1>1, <1>5
<1> QED
  BY <1>2, <1>3, <1>4, <1>5, <1>7, <1>8, <1>9, DoneNotice

LEMMA Least ==
  ASSUME NEW T \in SUBSET Nat, T # {}
  PROVE  \E x \in T : \A y \in T : x <= y
<1> DEFINE R == OpToRel(<, Nat)
<1>1. IsWellFoundedOn(R, Nat)
  BY NatLessThanWellFounded
<1>2. \A x, y \in Nat : <<y, x>> \in R <=> y < x
  BY DEF OpToRel
<1> HIDE DEF R
<1>3. PICK x \in T : \A y \in T : ~(<<y, x>> \in R)
  BY <1>1, WFMin
<1>4. ASSUME NEW y \in T PROVE x <= y
  <2>1. x \in Nat /\ y \in Nat /\ <<y, x>> \notin R
    BY <1>3
  <2> QED
    BY <1>2, <2>1
<1> QED
  BY <1>4

LEMMA EndNotice ==
  ASSUME AccountsAssumption, NoticeInv, NEW k \in Checks, EndCheck(k)
  PROVE  NoticeInv'
<1>1. /\ check[k].pc = "next" /\ check[k].list = {} /\ check' = [check EXCEPT ![k] = Idle]
      /\ UNCHANGED <<row, apps, key, mail, began, up, rung, now, asked, loose, missed, throws, crashes>>
  BY DEF EndCheck, data, redis, clock, bounds, history
<1>2. Idle \in CheckTypes /\ Idle.pc = "idle" /\ Idle.list = {} /\ WorkIsRight(Idle, row)
  <2>1. Idle \in CheckTypes
    BY DEF Idle, CheckTypes, Shape, Lists
  <2> QED
    BY <2>1 DEF Idle, WorkIsRight
<1>3. Idle.list = Without(check[k].list, Never)
  BY <1>1, <1>2 DEF Without
<1>4. /\ key' \in [Users -> Times] /\ mail' \in [Users -> Times]
      /\ \A u \in Users : key'[u] <= now + Warn
  BY <1>1 DEF NoticeInv, AccountTypes, Regular
<1>5. Never \notin Owners
  BY NobodyIsHe
<1> HIDE DEF Idle
<1> QED
  BY <1>1, <1>2, <1>3, <1>4, <1>5, DoneNotice

\* What a deletion does before and after it takes the row.
LEMMA StagesNotice ==
  ASSUME AccountsAssumption, NoticeInv, NEW k \in Checks,
         DropGallery(k) \/ DropRest(k) \/ DropBot(k) \/ DropApps(k) \/ DropRow(k)
  PROVE  NoticeInv'
<1>1. Never \notin Users /\ Never \notin Owners
  BY NobodyIsHe
<1>2. /\ row \in [Users -> Account] /\ \A u \in Users : apps[u] \subseteq BotsOf[u]
      /\ BotsOf \in [Users -> SUBSET Users]
  BY DEF NoticeInv, AccountTypes, AccountsAssumption
<1>3. ASSUME NEW a, AtWork(k, a), NEW b \in Stages \ {"doc"}, check' = MoveTo(k, b), row' = row,
             UNCHANGED <<key, mail, began, up, rung, now, asked, loose, missed, throws, crashes>>,
             \A u \in Users : apps'[u] \subseteq BotsOf[u]
      PROVE  NoticeInv'
  <2>1. PICK c \in CheckTypes :
          /\ check' = [check EXCEPT ![k] = c] /\ c.pc = "work" /\ c.list = check[k].list
          /\ c.work[1].u = check[k].work[1].u /\ WorkIsRight(c, row')
    BY <1>3, Moved
  <2>2. check[k].pc = "work" /\ row' \in [Users -> Account]
    BY <1>2, <1>3 DEF AtWork
  <2> QED
    BY <1>1, <1>3, <2>1, <2>2, StageNotice
<1>4. CASE DropGallery(k) \/ DropRest(k)
  <2>1. PICK b \in Stages \ {"doc"} : check' = MoveTo(k, b) /\ \E a : AtWork(k, a)
    BY <1>4 DEF DropGallery, DropRest, Stages
  <2>2. UNCHANGED <<row, apps, key, mail, began, up, rung, now, asked, loose, missed, throws, crashes>>
    BY <1>4 DEF DropGallery, DropRest, redis, clock, bounds, history
  <2> QED
    BY <1>2, <1>3, <2>1, <2>2
<1>5. CASE DropApps(k)
  <2>1. /\ check' = MoveTo(k, "row") /\ AtWork(k, "bots") /\ "row" \in Stages \ {"doc"}
        /\ apps' = [apps EXCEPT ![Top(k).u] = {}]
        /\ UNCHANGED <<row, key, mail, began, up, rung, now, asked, loose, missed, throws, crashes>>
    BY <1>5 DEF DropApps, redis, clock, bounds, history, Stages
  <2>2. \A u \in Users : apps'[u] \in {apps[u], {}}
    BY <2>1
  <2>3. \A u \in Users : apps'[u] \subseteq BotsOf[u]
    BY <1>2, <2>2
  <2> QED
    BY <1>3, <2>1, <2>3
<1>6. CASE DropBot(k)
  <2>1. /\ AtWork(k, "bots") /\ LiveBots(Top(k).u) # {} /\ check' = Enter(k, Min(LiveBots(Top(k).u)))
        /\ UNCHANGED <<row, apps, key, mail, began, up, rung, now, asked, loose>>
        /\ UNCHANGED <<missed, throws, crashes>>
    BY <1>6 DEF DropBot, data, redis, clock, bounds, history
  <2>2. check[k].pc = "work" /\ Top(k).u \in Users
    BY <2>1, AtWorkHas
  <2>3. LiveBots(Top(k).u) \subseteq Bots /\ Bots \subseteq Users /\ Users \subseteq Nat
    <3>1. Users \subseteq Nat /\ Bots \subseteq Users /\ BotsOf[Top(k).u] \subseteq Bots
      BY <2>2, People
    <3>2. LiveBots(Top(k).u) \subseteq apps[Top(k).u]
      BY DEF LiveBots
    <3> QED
      BY <1>2, <2>2, <3>1, <3>2
  <2>4. PICK b \in LiveBots(Top(k).u) : b = Min(LiveBots(Top(k).u))
    <3> DEFINE L == LiveBots(Top(k).u)
    <3>1. L \subseteq Nat /\ L # {}
      BY <2>1, <2>3
    <3> HIDE DEF L
    <3>2. \E x \in L : \A y \in L : x <= y
      BY <3>1, Least
    <3>3. Min(L) \in L
      BY <3>2 DEF Min
    <3> QED
      BY <3>3 DEF L
  <2>5. b \in Bots /\ b \in Users
    BY <2>3, <2>4
  <2>6. check' = Enter(k, b)
    BY <2>1, <2>4
  <2>7. PICK c \in CheckTypes :
          /\ check' = [check EXCEPT ![k] = c] /\ c.pc = "work" /\ c.list = check[k].list
          /\ c.work[1].u = check[k].work[1].u /\ WorkIsRight(c, row')
    BY <2>1, <2>2, <2>5, <2>6, Entered
  <2> QED
    BY <1>1, <1>2, <2>1, <2>2, <2>7, StageNotice
<1>7. CASE DropRow(k)
  <2> DEFINE w == Top(k).u
             none == [here |-> FALSE, banned |-> FALSE, due |-> Never, type |-> "none"]
  <2>1. /\ AtWork(k, "row") /\ row' = [row EXCEPT ![w] = none] /\ check' = MoveTo(k, "doc")
        /\ UNCHANGED <<apps, key, mail, began, up, rung, now, asked, loose, missed, throws, crashes>>
    BY <1>7 DEF DropRow, redis, clock, bounds, history
  <2>2. /\ check[k].pc = "work" /\ WorkIsRight(check[k], row) /\ w \in Users
        /\ Len(check[k].work) \in Nat \ {0} /\ Top(k) = check[k].work[Len(check[k].work)]
    BY <2>1, AtWorkHas
  <2>3. none \in Account /\ ~none.here /\ none.due = Never
    BY DEF Account
  <2> HIDE DEF none
  <2>4. w \in Owners => w = check[k].work[1].u
    <3>1. Len(check[k].work) \in 1 .. Len(check[k].work)
      BY <2>2
    <3>2. CASE Len(check[k].work) = 1
      BY <2>2, <3>2
    <3>3. CASE Len(check[k].work) > 1
      <4>1. w \in Bots
        BY <2>2, <3>1, <3>3 DEF WorkIsRight
      <4> QED
        BY <4>1, People
    <3> QED
      BY <2>2, <3>2, <3>3
  <2> HIDE DEF w
  <2>5. /\ row' \in [Users -> Account] /\ row'[w] = none /\ \A u \in Users \ {w} : row'[u] = row[u]
        /\ \A u \in Users : row'[u].here => row[u].here
    BY <1>2, <2>1, <2>2, <2>3
  <2>6. PICK c \in CheckTypes :
          /\ check' = [check EXCEPT ![k] = c] /\ c.pc = "work" /\ c.list = check[k].list
          /\ c.work[1].u = check[k].work[1].u /\ WorkIsRight(c, row')
    <3>1. "doc" \in Stages /\ ~row'[Top(k).u].here
      BY <2>3, <2>5 DEF Stages, w
    <3> QED
      BY <2>1, <2>5, <3>1, Moved
  <2>7. \A u \in Users : apps'[u] \subseteq BotsOf[u]
    BY <1>2, <2>1
  <2> QED
    BY <2>1, <2>2, <2>3, <2>4, <2>5, <2>6, <2>7, StageNotice
<1> QED
  BY <1>4, <1>5, <1>6, <1>7

LEMMA CopyNotice ==
  ASSUME AccountsAssumption, NoticeInv, NEW k \in Checks, DropCopy(k)
  PROVE  NoticeInv'
<1>1. /\ AtWork(k, "doc")
      /\ UNCHANGED <<row, apps, key, mail, began, up, rung, now, asked, loose, missed, throws, crashes>>
      /\ check' = [check EXCEPT ![k] =
                    IF Len(check[k].work) > 1
                    THEN [check[k] EXCEPT !.work = Front(check[k].work)]
                    ELSE [pc |-> "next", list |-> Without(check[k].list, Top(k).u), work |-> <<>>]]
  BY DEF DropCopy, data, clock, bounds, history
<1>2. /\ check[k] \in CheckTypes /\ check[k].pc = "work" /\ WorkIsRight(check[k], row)
      /\ Len(check[k].work) \in Nat \ {0} /\ Top(k) \in [u : Users, at : Stages] /\ Top(k).at = "doc"
      /\ Top(k) = check[k].work[Len(check[k].work)]
  BY <1>1, AtWorkHas
<1>3. /\ row \in [Users -> Account] /\ \A u \in Users : apps[u] \subseteq BotsOf[u]
      /\ key \in [Users -> Times] /\ mail \in [Users -> Times]
      /\ \A u \in Users : key[u] <= now + Warn
  BY DEF NoticeInv, AccountTypes, Regular
<1>4. CASE Len(check[k].work) > 1
  <2>1. PICK c \in CheckTypes :
          /\ check' = [check EXCEPT ![k] = c] /\ c.pc = "work" /\ c.list = check[k].list
          /\ c.work[1].u = check[k].work[1].u /\ WorkIsRight(c, row')
    <3>1. check' = [check EXCEPT ![k] = [check[k] EXCEPT !.work = Front(check[k].work)]] /\ row' = row
      BY <1>1, <1>4
    <3> QED
      BY <1>1, <1>4, <3>1, Left
  <2>2. Never \notin Users /\ Never \notin Owners
    BY NobodyIsHe
  <2>3. /\ row' \in [Users -> Account] /\ \A u \in Users : apps'[u] \subseteq BotsOf[u]
        /\ \A u \in Users : row'[u] = row[u]
        /\ UNCHANGED <<key, mail, began, up, rung, now, asked, loose, missed, throws, crashes>>
    BY <1>1, <1>3
  <2>4. /\ check[k].pc = "work" /\ \A u \in Users \ {Never} : row'[u] = row[u]
        /\ Never \in Users => ~row'[Never].here /\ row'[Never].due = Never
        /\ Never \in Owners => Never = check[k].work[1].u
    BY <1>2, <2>2, <2>3
  <2> QED
    BY <2>1, <2>3, <2>4, StageNotice
<1>5. CASE Len(check[k].work) = 1
  <2> DEFINE w == Top(k).u
             c == [pc |-> "next", list |-> Without(check[k].list, w), work |-> <<>>]
  <2>1. check' = [check EXCEPT ![k] = c]
    <3>1. ~(Len(check[k].work) > 1)
      BY <1>5
    <3> QED
      BY <1>1, <3>1
  <2>2. Len(check[k].work) = 1 /\ w = check[k].work[1].u /\ w \in Users
    <3>1. Len(check[k].work) = 1
      BY <1>5
    <3>2. Top(k) = check[k].work[1]
      BY <3>1 DEF Top
    <3>3. w \in Users
      BY <1>2
    <3> QED
      BY <3>1, <3>2, <3>3
  <2>3. c \in CheckTypes /\ c.pc = "next" /\ c.list = Without(check[k].list, w) /\ WorkIsRight(c, row)
    <3>1. Without(check[k].list, w) \in Lists
      BY <1>2 DEF CheckTypes, Shape, Lists, Without
    <3>2. <<>> \in Seq([u : Users, at : Stages])
      BY EmptySeq
    <3>3. c \in CheckTypes
      BY <3>1, <3>2 DEF CheckTypes, Shape
    <3> QED
      BY <3>3 DEF WorkIsRight
  <2>4. ~row[w].here
    <3>1. 1 \in 1 .. Len(check[k].work) /\ check[k].work[1].at = "doc"
      BY <1>2, <2>2
    <3> QED
      BY <1>2, <2>2, <3>1 DEF WorkIsRight
  <2>5. row[w].due = Never
    BY <2>2, <2>4 DEF NoticeInv, Dated
  <2> HIDE DEF c, w
  <2>6. /\ key' \in [Users -> Times] /\ mail' \in [Users -> Times]
        /\ \A u \in Users : key'[u] <= now + Warn
    BY <1>1, <1>3
  <2> QED
    BY <1>1, <1>2, <2>1, <2>2, <2>3, <2>5, <2>6, DoneNotice
<1> QED
  <2>1. PICK n \in Nat \ {0} : n = Len(check[k].work)
    BY <1>2, Zenon
  <2>2. n > 1 \/ n = 1
    OBVIOUS
  <2>3. Len(check[k].work) > 1 \/ Len(check[k].work) = 1
    BY <2>1, <2>2, Zenon
  <2> QED
    BY <1>4, <1>5, <2>3

\* A deletion begins.
LEMMA CondemnNotice ==
  ASSUME AccountsAssumption, NoticeInv, NEW k \in Checks, Condemn(k)
  PROVE  NoticeInv'
<1>1. PICK e \in Foremost(check[k].list) :
        /\ check[k].pc = "next" /\ e.due # Never /\ Due(e.due) /\ check' = Enter(k, e.u)
        /\ began' = [began EXCEPT ![e.u] = [at |-> now, asked |-> asked[e.u], mail |-> mail[e.u]]]
  BY DEF Condemn
<1>2. UNCHANGED <<row, apps, key, mail, up, rung, now, asked, loose, missed, throws, crashes>>
  BY DEF Condemn, data, redis, clock, bounds
<1>3. e \in check[k].list /\ e.u \in Users /\ e.due \in Times
  BY <1>1, NextOf
<1>4. PICK c \in CheckTypes :
        /\ check' = [check EXCEPT ![k] = c] /\ c.pc = "work" /\ c.list = check[k].list
        /\ c.work[1].u = e.u /\ WorkIsRight(c, row')
  <2>1. PICK u \in Users : u = e.u
    BY <1>3
  <2>2. /\ check[k].pc = "next" /\ check[k].pc # "work" /\ check[k].pc # "idle"
        /\ check' = Enter(k, u) /\ row' = row
    BY <1>1, <1>2, <2>1
  <2>3. \E c \in CheckTypes :
          /\ check' = [check EXCEPT ![k] = c] /\ c.pc = "work" /\ c.list = check[k].list
          /\ c.work[1].u = IF check[k].pc = "work" THEN check[k].work[1].u ELSE u
          /\ WorkIsRight(c, row')
    BY <2>2, Entered
  <2> QED
    BY <2>1, <2>2, <2>3
<1> DEFINE b == [at |-> now, asked |-> asked[e.u], mail |-> mail[e.u]]
<1>5. /\ now \in Nat /\ key \in [Users -> Times] /\ DOMAIN began = Users
      /\ b \in [at : Nat, asked : Times, mail : Times]
      /\ b.at = now /\ b.asked = asked[e.u] /\ b.mail = mail[e.u]
  <2>1. now \in Nat /\ asked[e.u] \in Times /\ mail[e.u] \in Times
    BY <1>3 DEF NoticeInv, AccountTypes
  <2>2. key \in [Users -> Times] /\ DOMAIN began = Users
    BY DEF NoticeInv, AccountTypes
  <2> QED
    BY <2>1, <2>2
<1>6. began' = [began EXCEPT ![e.u] = b]
  BY <1>1
<1> HIDE DEF b
<1>7. began'[e.u] = b /\ \A u \in Users \ {e.u} : began'[u] = began[u]
  BY <1>3, <1>5, <1>6
<1>8. AccountTypes'
  <2>1. DOMAIN began' = Users
    BY <1>5, <1>6
  <2>2. \A u \in Users : began'[u] # NoDoc => began'[u] \in [at : Nat, asked : Times, mail : Times]
    BY <1>5, <1>7 DEF NoticeInv, AccountTypes
  <2>3. check' \in [Checks -> CheckTypes]
    BY <1>4 DEF NoticeInv, AccountTypes
  <2> QED
    BY <1>2, <2>1, <2>2, <2>3 DEF NoticeInv, AccountTypes
<1>9. \A u \in Users : Steady(u)' <=> Steady(u)
  BY <1>2 DEF Steady, Kept
<1>10. ASSUME e.u \in Owners, Steady(e.u)
       PROVE  asked[e.u] # Never /\ now + Hour > asked[e.u] + Grace
  <2>1. asked[e.u] # Never /\ e.due = asked[e.u] + Grace
    BY <1>1, <1>3, <1>10 DEF NoticeInv, Dated, AskedFor
  <2>2. e.due \in Nat /\ Hour \in Nat
    BY <1>1, <1>3, Numbers DEF Times
  <2>3. e.due - now < Hour
    BY <1>1, <1>5, <2>2, HoursLeft
  <2> QED
    BY <1>5, <2>1, <2>2, <2>3
<1>11. NotBeforeGrace'
  <2> SUFFICES ASSUME NEW u \in Users, u \in Owners, began'[u] # NoDoc, Steady(u)
               PROVE  began'[u].asked # Never /\ began'[u].at + Hour > began'[u].asked + Grace
    BY <1>9 DEF NotBeforeGrace, Begun, Steady
  <2>1. CASE u = e.u
    BY <1>5, <1>7, <1>10, <2>1
  <2>2. CASE u # e.u
    <3>1. NotBeforeGrace /\ began'[u] = began[u]
      BY <1>7, <2>2 DEF NoticeInv, DeletionIsAnnounced
    <3> QED
      BY <3>1 DEF NotBeforeGrace, Begun, Steady
  <2> QED
    BY <2>1, <2>2
<1>12. WarnedInTime'
  <2> SUFFICES ASSUME NEW u \in Users, u \in Owners, began'[u] # NoDoc, Steady(u), Smooth
               PROVE  /\ began'[u].mail # Never /\ began'[u].mail >= began'[u].asked
                      /\ began'[u].at - began'[u].mail \in Day .. Warn + Day
    BY <1>2, <1>9 DEF WarnedInTime, Begun, Steady, Smooth
  <2>1. CASE u = e.u
    <3>1. /\ mail[e.u] # Never /\ mail[e.u] >= asked[e.u]
          /\ now - mail[e.u] \in Day .. Warn + Day
      BY <1>1, <1>3, <2>1, DueWarned
    <3> QED
      BY <1>5, <1>7, <2>1, <3>1
  <2>2. CASE u # e.u
    <3>1. WarnedInTime /\ began'[u] = began[u]
      BY <1>7, <2>2 DEF NoticeInv, DeletionIsAnnounced
    <3> QED
      BY <3>1 DEF WarnedInTime, Begun, Steady, Smooth
  <2> QED
    BY <2>1, <2>2
<1>13. DeletionIsAnnounced'
  BY <1>11, <1>12 DEF DeletionIsAnnounced
<1>14. Never \notin Owners
  BY NobodyIsHe
<1>15. /\ check[k].pc # "idle" /\ \A u : ~AtTop(check[k], u)
       /\ \A u \in Users : key'[u] <= now + Warn
       /\ \A u \in Users : row'[u] = row[u] /\ key'[u] = key[u] /\ mail'[u] = mail[u]
  BY <1>1, <1>2 DEF AtTop, NoticeInv, Regular
<1> QED
  BY <1>2, <1>4, <1>8, <1>13, <1>14, <1>15, CheckNotice

\* A check begins.
LEMMA StartNotice ==
  ASSUME AccountsAssumption, NoticeInv, NEW k \in Checks, Midnight(k) \/ Start(k)
  PROVE  NoticeInv'
<1>1. /\ check[k] = Idle /\ check' = [check EXCEPT ![k] = Running]
      /\ UNCHANGED <<row, apps, key, mail, began, now, asked, loose, missed, throws, crashes>>
      /\ \/ up /\ ~rung /\ rung' = TRUE /\ up' = up
         \/ ~up /\ up' = TRUE /\ rung' = rung
  BY DEF Midnight, Start, data, redis, bounds, history
<1>2. row \in [Users -> Account]
  BY DEF NoticeInv, AccountTypes
<1>3. /\ Running \in CheckTypes /\ Running.pc = "next" /\ Running.list = Banned /\ Running.work = <<>>
      /\ WorkIsRight(Running, row')
  <2>1. \A u \in Users : row[u].due \in Times
    BY <1>2 DEF Account, Times
  <2>2. Banned \in Lists
    BY <2>1 DEF Banned, Listed, Lists
  <2>3. <<>> \in Seq([u : Users, at : Stages])
    BY EmptySeq
  <2>4. Running \in CheckTypes
    BY <2>2, <2>3 DEF Running, CheckTypes, Shape
  <2> QED
    BY <2>4 DEF Running, WorkIsRight
<1> HIDE DEF Running
<1>4. AccountTypes'
  BY <1>1, <1>3 DEF NoticeInv, AccountTypes
<1>5. \A u \in Users : key'[u] <= now + Warn
  BY <1>1 DEF NoticeInv, Regular
<1>6. \A e \in Running.list : e \in Banned /\ row' = row
  BY <1>1, <1>3
<1>7. Dated' /\ Regular'
  BY <1>1, <1>3, <1>4, <1>5, <1>6, CheckDated
<1>8. \A u \in Users : Steady(u)' <=> Steady(u)
  BY <1>1 DEF Steady, Kept
<1>9. Smooth' => InTime'
  <2> SUFFICES ASSUME Smooth' PROVE InTime'
    OBVIOUS
  <2>1. InTime /\ OneCheck /\ up
    BY <1>1 DEF Smooth, NoticeInv, InTime, OneCheck
  <2>2. /\ ~rung /\ rung' = TRUE /\ up' = TRUE /\ now >= Day /\ now % Day = 0
        /\ \A j \in Checks : check[j].pc = "idle"
    BY <1>1, <2>1 DEF OneCheck
  <2>3. /\ check'[k] = Running /\ \A j \in Checks \ {k} : check'[j] = check[j]
        /\ \A j \in Checks : check[j].list = {}
    BY <1>1, <2>2 DEF NoticeInv, AccountTypes, Regular, WorkIsRight
  <2>4. OneCheck'
    BY <1>1, <1>3, <2>2, <2>3 DEF OneCheck
  <2>5. \A u \in Owners : u \in Users
    BY DEF Owners
  <2>6. LastMidnight = now - Day
    BY <2>2 DEF LastMidnight
  <2>7. \A u \in Users : ~InList(u)
    BY <2>3 DEF InList
  <2>8. ASSUME NEW u \in Owners, Steady(u)', row'[u].due # Never PROVE InList(u)'
    <3>1. row[u].here /\ row[u].banned
      BY <1>1, <1>8, <2>5, <2>8 DEF NoticeInv, Dated
    <3>2. [u |-> u, due |-> row[u].due] \in Banned
      BY <2>5, <3>1 DEF Banned, Listed
    <3>3. \E e \in check'[k].list : e.u = u
      BY <1>3, <2>3, <3>2
    <3> QED
      BY <3>3 DEF InList
  <2>9. ASSUME NEW j \in Checks, NEW e \in check'[j].list, e.u \in Owners, Steady(e.u)', e.due # Never
        PROVE  row'[e.u].here /\ Warned(e.u, e.due, now - Day)'
    <3>1. e \in Banned
      BY <1>3, <2>3, <2>9
    <3>2. e.due = row[e.u].due /\ row[e.u].here
      BY <3>1 DEF Banned, Listed
    <3>3. Steady(e.u) /\ e.u \in Users
      BY <2>5, <2>9 , <1>1 DEF Steady, Kept
    <3>4. Warned(e.u, e.due, LastMidnight)
      BY <2>1, <2>7, <2>9, <3>2, <3>3 DEF InTime
    <3> QED
      BY <1>1, <2>6, <3>2, <3>4 DEF Warned
  <2> QED
    BY <2>4, <2>8, <2>9 DEF InTime
<1>10. DeletionIsAnnounced'
  BY <1>1, <1>8, AnnouncedStays DEF Smooth
<1> QED
  BY <1>4, <1>7, <1>9, <1>10 DEF NoticeInv

\* A deletion throws, or the worker dies.
LEMMA BreakNotice ==
  ASSUME AccountsAssumption, NoticeInv, Crash \/ \E k \in Checks : Throw(k)
  PROVE  NoticeInv'
<1>1. /\ UNCHANGED <<row, apps, key, mail, began, now, asked, loose, rung, missed>>
      /\ throws' \in Nat /\ crashes' \in Nat /\ (throws' # 0 \/ crashes' # 0) /\ up' \in BOOLEAN
      /\ check' \in [Checks -> CheckTypes]
      /\ \A j \in Checks : check'[j] \in {check[j], Idle}
  <2>1. throws \in Nat /\ crashes \in Nat /\ check \in [Checks -> CheckTypes] /\ up \in BOOLEAN
    BY DEF NoticeInv, AccountTypes
  <2>2. Idle \in CheckTypes
    BY DEF Idle, CheckTypes, Shape, Lists
  <2> HIDE DEF Idle
  <2>3. CASE Crash
    <3>1. check' = [k \in Checks |-> Idle] /\ crashes' = crashes + 1 /\ up' = FALSE
      BY <2>3 DEF Crash
    <3>2. UNCHANGED <<row, apps, key, mail, began, now, asked, loose, rung, missed, throws>>
      BY <2>3 DEF Crash, data, redis, history
    <3>3. check' \in [Checks -> CheckTypes] /\ \A j \in Checks : check'[j] = Idle
      BY <2>2, <3>1
    <3>4. throws' \in Nat
      BY <2>1, <3>2
    <3>5. crashes' \in Nat /\ crashes' # 0
      <4>1. crashes \in Nat
        BY <2>1
      <4> QED
        BY <3>1, <4>1
    <3>6. up' \in BOOLEAN
      BY <3>1
    <3> QED
      BY <3>2, <3>3, <3>4, <3>5, <3>6
  <2>4. ASSUME NEW k \in Checks, Throw(k) PROVE <1>1!:
    BY <2>1, <2>2, <2>4 DEF Throw, data, redis, clock, history
  <2> QED
    BY <2>3, <2>4
<1>2. AccountTypes'
  BY <1>1 DEF NoticeInv, AccountTypes
<1>3. ~Smooth'
  BY <1>1 DEF Smooth
<1>4. \A u \in Users : Steady(u)' <=> Steady(u)
  BY <1>1 DEF Steady, Kept
<1>5. Dated'
  <2>1. ASSUME NEW j \in Checks, NEW e \in check'[j].list, Steady(e.u)'
        PROVE  /\ e.due # Never => AskedFor(e.u, e.due)'
               /\ row'[e.u].here => row'[e.u].due = e.due
    <3>1. e \in check[j].list
      BY <1>1, <2>1 DEF Idle
    <3>2. Steady(e.u)
      BY <1>1, <2>1 DEF Steady, Kept
    <3> QED
      BY <1>1, <3>1, <3>2 DEF NoticeInv, Dated, AskedFor
  <2>2. \A u \in Users : Steady(u)' /\ row'[u].due # Never => row'[u].banned /\ AskedFor(u, row[u].due)'
    BY <1>1, <1>4 DEF NoticeInv, Dated, AskedFor
  <2> QED
    BY <1>1, <2>1, <2>2 DEF NoticeInv, Dated, AskedFor
<1>6. Regular'
  <2>1. WorkIsRight(Idle, row)
    BY DEF Idle, WorkIsRight
  <2> QED
    BY <1>1, <2>1 DEF NoticeInv, Regular
<1>7. DeletionIsAnnounced'
  BY <1>1, <1>3, <1>4, AnnouncedStays
<1> QED
  BY <1>2, <1>3, <1>5, <1>6, <1>7 DEF NoticeInv

LEMMA NoticeInit == ASSUME AccountsAssumption, Init PROVE NoticeInv
<1>1. Idle \in CheckTypes /\ WorkIsRight(Idle, row) /\ Idle.pc = "idle" /\ Idle.list = {}
  <2>1. Idle \in CheckTypes
    BY DEF Idle, CheckTypes, Shape, Lists
  <2> QED
    BY <2>1 DEF Idle, WorkIsRight
<1> HIDE DEF Idle
<1>2. /\ check = [k \in Checks |-> Idle] /\ now = 0 /\ rung = TRUE /\ up = TRUE /\ missed = FALSE
      /\ throws = 0 /\ crashes = 0 /\ began = [u \in Users |-> NoDoc] /\ apps = BotsOf
      /\ row = [u \in Users |-> [here |-> TRUE, banned |-> FALSE, due |-> Never, type |-> "none"]]
      /\ key = [u \in Users |-> Never]
      /\ asked = [u \in Users |-> Never] /\ mail = [u \in Users |-> Never]
  BY DEF Init
<1>3. row \in [Users -> Account] /\ \A u \in Users : row[u].due = Never
  BY <1>2 DEF Account
<1>4. AccountTypes
  BY <1>1, <1>2, <1>3 DEF AccountTypes, Times
<1>5. \A k \in Checks : check[k] = Idle
  BY <1>2
<1>6. Dated /\ Regular
  <2>1. Dated
    BY <1>1, <1>3, <1>5 DEF Dated
  <2>2. \A u \in Users : asked[u] <= now /\ key[u] <= now + Warn
    BY <1>2, Numbers DEF Never
  <2> QED
    BY <1>1, <1>5, <2>1, <2>2 DEF Regular
<1>7. InTime
  <2>1. OneCheck
    BY <1>1, <1>2, <1>5 DEF OneCheck
  <2>2. \A u \in Owners : row[u].due = Never
    BY <1>3 DEF Owners
  <2> QED
    BY <1>1, <1>5, <2>1, <2>2 DEF InTime
<1>8. DeletionIsAnnounced
  BY <1>2 DEF DeletionIsAnnounced, NotBeforeGrace, WarnedInTime, Begun
<1> QED
  BY <1>4, <1>6, <1>7, <1>8 DEF NoticeInv

LEMMA NoticeNext == ASSUME AccountsAssumption, NoticeInv, [Next]_vars PROVE NoticeInv'
<1>1. ASSUME NEW u \in Users,
             \/ AskDelete(u) \/ ConfirmDateOfBirth(u) \/ QueueDelete(u) \/ ForgetCopy(u)
             \/ Reactivate(u) \/ Revive(u) \/ ReadRow(u) \/ PutCopy(u)
             \/ \E b \in BOOLEAN : UpdateBanned(u, b)
      PROVE  NoticeInv'
  BY <1>1, RequestsNotice
<1>2. ASSUME NEW k \in Checks, Work(k) PROVE NoticeInv'
  <2>1. CASE Skip(k) BY <2>1, SkipNotice
  <2>2. CASE WarnOwner(k) BY <2>2, WarnNotice
  <2>3. CASE Condemn(k) BY <2>3, CondemnNotice
  <2>4. CASE DropGallery(k) \/ DropRest(k) \/ DropBot(k) \/ DropApps(k) \/ DropRow(k)
    BY <2>4, StagesNotice
  <2>5. CASE DropCopy(k) BY <2>5, CopyNotice
  <2>6. CASE EndCheck(k) BY <2>6, EndNotice
  <2> QED BY <1>2, <2>1, <2>2, <2>3, <2>4, <2>5, <2>6 DEF Work
<1>3. ASSUME NEW k \in Checks, Midnight(k) \/ Start(k) PROVE NoticeInv'
  BY <1>3, StartNotice
<1>4. CASE Crash \/ \E k \in Checks : Throw(k)
  BY <1>4, BreakNotice
<1>5. CASE Tick
  BY <1>5, TickNotice
<1>6. CASE UNCHANGED vars
  <2>1. /\ UNCHANGED <<row, apps, check, up, rung, now, key, asked, mail, began>>
        /\ UNCHANGED <<missed, throws, crashes, loose>>
    BY <1>6 DEF vars, data, redis, clock, bounds, history
  <2>2. \A u \in Users : Steady(u)' <=> Steady(u)
    BY <2>1 DEF Steady, Kept
  <2> QED
    BY <2>1, <2>2, SilentNotice
<1> QED
  BY <1>1, <1>2, <1>3, <1>4, <1>5, <1>6 DEF Next, Ask, Finish, Bring

\* No owner loses an account that he did not ask to be deleted, nor much before the two
\* weeks are over; and while the midnight check never fails he is warned one to three days
\* before (deletion.service checkUsers): for any users, bots, checks and lengths of time.
THEOREM DeletionsAreAnnounced == ASSUME AccountsAssumption PROVE Spec => []DeletionIsAnnounced
<1>1. Init => NoticeInv
  BY NoticeInit
<1>2. NoticeInv /\ [Next]_vars => NoticeInv'
  BY NoticeNext
<1>3. NoticeInv => DeletionIsAnnounced
  BY DEF NoticeInv
<1> QED
  BY <1>1, <1>2, <1>3, PTL DEF Spec
==============================================================================
