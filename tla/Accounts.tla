------------------------------ MODULE Accounts -------------------------------
(***************************************************************************)
(* The end of an account.  A request bans the account and dates its        *)
(* deletion (userUtils.service queueDeleteAccount); until then its owner   *)
(* may take it back (auth.service reactivateAccount) and a moderator may   *)
(* ban or unban it (admin.service updateBanned).  The main worker checks   *)
(* the banned accounts when it starts and at every midnight: it warns,     *)
(* and deletes what is due (deletion.service).  Requests are let in by a   *)
(* copy of the User row in Redis (generateContext, AuthChecker).           *)
(* Time is counted in ticks.                                               *)
(***************************************************************************)
EXTENDS Integers, Sequences, SequencesExt, FiniteSetsExt

CONSTANTS
  Users,      \* ids: a check visits the accounts in their order
  BotsOf,     \* the bot accounts of the OAuth applications of a user
  Checks,     \* checks that may run at once
  Hour, Day,  \* in ticks
  Warn,       \* 48 hours
  Grace,      \* 14 days
  LastAsk,    \* bound: nobody acts after this tick
  MaxNow,     \* bound on the time
  MaxAsks,    \* bound on the requests for deletion
  MaxAdmin,   \* bound on updateBanned
  MaxFills,   \* bound on the times the copy is read from the row
  MaxThrows,  \* bound on the deletions that throw
  MaxCrashes, \* bound on the deaths of the main worker
  NoDoc

AccountsAssumption ==
  /\ Users \subseteq Nat
  /\ BotsOf \in [Users -> SUBSET Users]
  /\ \A u \in Users : \A b \in BotsOf[u] : b # u /\ BotsOf[b] = {}
  /\ {Hour, Day, Warn, Grace, LastAsk, MaxNow} \subseteq Nat
  /\ 0 < Hour /\ Hour < Day /\ Day + Hour <= Warn /\ Warn % Hour = 0 /\ 2 * Warn <= Grace
  /\ {MaxAsks, MaxAdmin, MaxFills, MaxThrows, MaxCrashes} \subseteq Nat

VARIABLES
  row,     \* the User rows
  parts,   \* what the account left in the other tables
  apps,    \* the bots of its OAuth applications that are still registered
  doc,     \* user:<id> in Redis: its "banned"
  key,     \* user:<id>:deletionWarned: when it ends
  ask,     \* how far a request for deletion is
  back,    \* how far a reactivation is
  fill,    \* a "banned" read from the row that is not yet in Redis
  check,   \* how far the checks of the main worker are
  up, rung, now,
  asks, admin, fills, throws, crashes,
  \* history
  asked,   \* the last request since the account was last brought back
  mail,    \* when its owner was last warned
  began,   \* when its deletion began, what was asked then
  loose,   \* what the properties except: see where it is set
  missed   \* the main worker was down at a midnight

data == <<row, parts, apps>>
redis == <<doc, key>>
calls == <<ask, back, fill>>
clock == <<up, rung, now>>
bounds == <<asks, admin, fills, throws, crashes>>
history == <<asked, mail, began, loose, missed>>
vars == <<data, redis, calls, check, clock, bounds, history>>

Never == -1
Bots == UNION {BotsOf[u] : u \in Users}
Owners == Users \ Bots
Account == [here : BOOLEAN, banned : BOOLEAN, due : {Never} \cup Nat,
            type : {"none", "manual", "age"}]
Rest == {"uploads", "rest"}

\* dayjs counts whole hours, towards zero.
HoursUntil(t) == IF t >= now THEN (t - now) \div Hour ELSE -((now - t) \div Hour)
\* Slip: whole days are counted.
DueToday(t) == (t - now) \div Day <= 0
Due(t) == HoursUntil(t) <= 0
Soon(t) == HoursUntil(t) < Warn \div Hour

Pending(u) == row[u].here /\ row[u].banned /\ row[u].due # Never

\* A check that has the account in its list, or works on it.
Held(u) == \E k \in Checks :
  \/ \E e \in check[k].list : e.u = u
  \/ \E i \in 1 .. Len(check[k].work) : check[k].work[i].u = u

Idle == [pc |-> "idle", list |-> {}, work |-> <<>>]

Init ==
  /\ row = [u \in Users |-> [here |-> TRUE, banned |-> FALSE, due |-> Never, type |-> "none"]]
  /\ parts = [u \in Users |-> Rest] /\ apps = BotsOf
  /\ doc = [u \in Users |-> NoDoc] /\ key = [u \in Users |-> Never]
  /\ ask = [u \in Users |-> "no"] /\ back = [u \in Users |-> "no"]
  /\ fill = [u \in Users |-> NoDoc]
  /\ check = [k \in Checks |-> Idle]
  /\ up = TRUE /\ rung = TRUE /\ now = 0
  /\ asks = 0 /\ admin = 0 /\ fills = 0 /\ throws = 0 /\ crashes = 0
  /\ asked = [u \in Users |-> Never] /\ mail = [u \in Users |-> Never]
  /\ began = [u \in Users |-> NoDoc] /\ loose = {} /\ missed = FALSE

--------------------------------------------------------------------------------
(* Requests *)

\* A request of a user is answered: his copy does not say that he is banned.
LetIn(u) == doc[u] # TRUE

\* deleteAccount: the password is checked against the row, which must not be banned.
AskDelete(u) ==
  /\ u \in Owners /\ now <= LastAsk /\ asks < MaxAsks /\ ask[u] = "no"
  /\ row[u].here /\ ~row[u].banned /\ LetIn(u)
  /\ ask' = [ask EXCEPT ![u] = "manual"] /\ asks' = asks + 1
  /\ UNCHANGED <<data, redis, back, fill, check, clock, admin, fills, throws, crashes, history>>

\* confirmDateOfBirth of a child: the row is asked, never the copy.
ConfirmDateOfBirth(u) ==
  /\ u \in Owners /\ now <= LastAsk /\ asks < MaxAsks /\ ask[u] = "no"
  /\ row[u].here /\ ~row[u].banned
  /\ ask' = [ask EXCEPT ![u] = "age"] /\ asks' = asks + 1
  /\ UNCHANGED <<data, redis, back, fill, check, clock, admin, fills, throws, crashes, history>>

\* queueDeleteAccount: the "banned" it asks for was not loaded, and stops nobody.
QueueDelete(u) ==
  /\ ask[u] \in {"manual", "age"}
  /\ IF row[u].here
     THEN /\ row' = [row EXCEPT ![u] = [@ EXCEPT !.banned = TRUE, !.due = now + Grace,
                                                 !.type = ask[u]]]
          /\ ask' = [ask EXCEPT ![u] = "forget"]
          /\ asked' = [asked EXCEPT ![u] = now]
          /\ loose' = IF Held(u) THEN loose \cup {<<u, "list">>} ELSE loose
     ELSE ask' = [ask EXCEPT ![u] = "no"] /\ UNCHANGED <<row, asked, loose>>
  /\ UNCHANGED <<parts, apps, redis, back, fill, check, clock, bounds, mail, began, missed>>

\* Slip: the copy stays.
LeaveCopy(u) ==
  /\ ask[u] = "forget"
  /\ ask' = [ask EXCEPT ![u] = "no"]
  /\ loose' = loose \ {<<u, "copy">>}
  /\ UNCHANGED <<data, redis, back, fill, check, clock, bounds, asked, mail, began, missed>>

\* ... and the copy is forgotten, which nobody waits for.
ForgetCopy(u) ==
  /\ ask[u] = "forget"
  /\ doc' = [doc EXCEPT ![u] = NoDoc] /\ ask' = [ask EXCEPT ![u] = "no"]
  /\ loose' = loose \ {<<u, "copy">>}
  /\ UNCHANGED <<data, key, back, fill, check, clock, bounds, asked, mail, began, missed>>

\* reactivateAccount: the row is read ...
Reactivate(u) ==
  /\ back[u] = "no"
  /\ row[u].here /\ row[u].banned /\ row[u].type = "manual"
  /\ back' = [back EXCEPT ![u] = "read"]
  /\ UNCHANGED <<data, redis, ask, fill, check, clock, bounds, history>>

\* ... and written; the copy stays.
Revive(u) ==
  /\ back[u] = "read"
  /\ back' = [back EXCEPT ![u] = "no"]
  /\ IF row[u].here
     THEN /\ row' = [row EXCEPT ![u] = [here |-> TRUE, banned |-> FALSE, due |-> Never,
                                        type |-> "none"]]
          /\ asked' = [asked EXCEPT ![u] = Never]
          /\ loose' = loose \cup {<<u, "copy">>}
                            \cup (IF Held(u) THEN {<<u, "list">>} ELSE {})
     ELSE UNCHANGED <<row, asked, loose>>
  /\ UNCHANGED <<parts, apps, redis, ask, fill, check, clock, bounds, mail, began, missed>>

\* updateBanned: neither the date nor the copy changes.
UpdateBanned(u, b) ==
  /\ now <= LastAsk /\ admin < MaxAdmin
  /\ row[u].here /\ row[u].banned # b
  /\ row' = [row EXCEPT ![u].banned = b]
  /\ asked' = IF b THEN asked ELSE [asked EXCEPT ![u] = Never]
  /\ loose' = loose \cup {<<u, "copy">>}
                    \cup (IF row[u].due # Never THEN {<<u, "date">>} ELSE {})
                    \cup (IF Held(u) THEN {<<u, "list">>} ELSE {})
  /\ admin' = admin + 1
  /\ UNCHANGED <<parts, apps, redis, calls, check, clock, asks, fills, throws, crashes,
                 mail, began, missed>>

\* generateContext: without a copy, or for a session that is not in Redis, the row is read.
ReadRow(u) ==
  /\ fills < MaxFills /\ fill[u] = NoDoc /\ row[u].here
  /\ fill' = [fill EXCEPT ![u] = row[u].banned] /\ fills' = fills + 1
  /\ UNCHANGED <<data, redis, ask, back, check, clock, asks, admin, throws, crashes, history>>

\* ... and copied, which nobody waits for. Of a banned user AuthChecker writes null when the
\* session is in Redis, which is as good as no copy.
PutCopy(u) ==
  /\ fill[u] # NoDoc
  /\ \E copy \in {fill[u]} \cup (IF fill[u] = TRUE THEN {NoDoc} ELSE {}) :
       doc' = [doc EXCEPT ![u] = copy]
  /\ fill' = [fill EXCEPT ![u] = NoDoc]
  /\ loose' = IF fill[u] = row[u].banned /\ row[u].here
              THEN loose \ {<<u, "copy">>} ELSE loose \cup {<<u, "copy">>}
  /\ UNCHANGED <<data, key, ask, back, check, clock, bounds, asked, mail, began, missed>>

--------------------------------------------------------------------------------
(* The check: checkUsers, deleteAccount *)

Listed(found) == {[u |-> u, due |-> row[u].due] : u \in found}

\* Slip: only those who asked themselves are checked.
BannedByChoice == Listed({u \in Users : row[u].here /\ row[u].banned /\ row[u].type = "manual"})

\* The banned accounts with the dates they have now.
Banned == Listed({u \in Users : row[u].here /\ row[u].banned})

Running == [pc |-> "next", list |-> Banned, work |-> <<>>]

\* checkUsers: the list is loaded once, at midnight ...
Midnight(k) ==
  /\ up /\ ~rung /\ check[k] = Idle
  /\ rung' = TRUE
  /\ check' = [check EXCEPT ![k] = Running]
  /\ UNCHANGED <<data, redis, calls, up, now, bounds, history>>

\* ... and when a main worker starts (deletionInit).
Start(k) ==
  /\ ~up /\ check[k] = Idle
  /\ up' = TRUE
  /\ check' = [check EXCEPT ![k] = Running]
  /\ UNCHANGED <<data, redis, calls, rung, now, bounds, history>>

\* The accounts of a list are visited in the order of their ids.
Foremost(list) == {e \in list : \A f \in list : e.u <= f.u}
Without(list, u) == {e \in list : e.u # u}
After(k, u) == [check EXCEPT ![k].list = Without(@, u)]

\* The next account of the list needs nothing.
Skip(k) ==
  /\ check[k].pc = "next"
  /\ \E e \in Foremost(check[k].list) :
       /\ \/ e.due = Never
          \/ ~Due(e.due) /\ ~Soon(e.due)
          \/ ~Due(e.due) /\ Soon(e.due) /\ key[e.u] > now
       /\ check' = After(k, e.u)
  /\ UNCHANGED <<data, redis, calls, clock, bounds, history>>

\* The next account is due within 48 hours and was not warned in the last 48.
WarnOwner(k) ==
  /\ check[k].pc = "next"
  /\ \E e \in Foremost(check[k].list) :
       /\ e.due # Never /\ ~Due(e.due) /\ Soon(e.due) /\ key[e.u] <= now
       /\ key' = [key EXCEPT ![e.u] = now + Warn]
       /\ mail' = IF row[e.u].here THEN [mail EXCEPT ![e.u] = now] ELSE mail
       /\ check' = After(k, e.u)
  /\ UNCHANGED <<data, doc, calls, clock, bounds, asked, began, loose, missed>>

Top(k) == check[k].work[Len(check[k].work)]
AtWork(k, at) == check[k].pc = "work" /\ Top(k).at = at
MoveTo(k, at) == [check EXCEPT ![k].work[Len(check[k].work)].at = at]
Enter(k, u) ==
  [check EXCEPT ![k] = [check[k] EXCEPT !.pc = "work",
                          !.work = Append(check[k].work, [u |-> u, at |-> "gallery"])]]

\* The date that the list has is reached: the account is deleted.
Condemn(k) ==
  /\ check[k].pc = "next"
  /\ \E e \in Foremost(check[k].list) :
       /\ e.due # Never /\ Due(e.due)
       /\ check' = Enter(k, e.u)
       /\ began' = [began EXCEPT ![e.u] = [at |-> now, asked |-> asked[e.u], mail |-> mail[e.u]]]
  /\ UNCHANGED <<data, redis, calls, clock, bounds, asked, mail, loose, missed>>

\* Stars and the uploads that may be deleted (`deletable`), which is all that "uploads" stands
\* for; five seconds pass.
DropGallery(k) ==
  /\ AtWork(k, "gallery")
  /\ parts' = [parts EXCEPT ![Top(k).u] = @ \ {"uploads"}]
  /\ check' = MoveTo(k, "rest")
  /\ UNCHANGED <<row, apps, redis, calls, clock, bounds, history>>

\* Messages lose their author; collections, sessions, friends and the like go.
DropRest(k) ==
  /\ AtWork(k, "rest")
  /\ parts' = [parts EXCEPT ![Top(k).u] = @ \ {"rest"}]
  /\ check' = MoveTo(k, "bots")
  /\ UNCHANGED <<row, apps, redis, calls, clock, bounds, history>>

\* Slip: the bots are left to themselves.
NoBot(u) == {b \in {} : row[b].here}

LiveBots(u) == {b \in apps[u] : row[b].here}

\* The accounts of its bots are deleted first, one after the other.
DropBot(k) ==
  /\ AtWork(k, "bots")
  /\ LiveBots(Top(k).u) # {}
  /\ check' = Enter(k, Min(LiveBots(Top(k).u)))
  /\ UNCHANGED <<data, redis, calls, clock, bounds, history>>

\* Then its applications.
DropApps(k) ==
  /\ AtWork(k, "bots")
  /\ LiveBots(Top(k).u) = {}
  /\ apps' = [apps EXCEPT ![Top(k).u] = {}]
  /\ check' = MoveTo(k, "row")
  /\ UNCHANGED <<row, parts, redis, calls, clock, bounds, history>>

\* The row itself, at last.
DropRow(k) ==
  /\ AtWork(k, "row")
  /\ row' = [row EXCEPT ![Top(k).u] = [here |-> FALSE, banned |-> FALSE, due |-> Never,
                                       type |-> "none"]]
  /\ check' = MoveTo(k, "doc")
  /\ UNCHANGED <<parts, apps, redis, calls, clock, bounds, history>>

\* And its copy; a bot's owner, or the next account of the list, goes on.
DropCopy(k) ==
  /\ AtWork(k, "doc")
  /\ doc' = [doc EXCEPT ![Top(k).u] = NoDoc]
  /\ check' = [check EXCEPT ![k] =
                  IF Len(check[k].work) > 1
                  THEN [check[k] EXCEPT !.work = Front(check[k].work)]
                  ELSE [pc |-> "next", list |-> Without(check[k].list, Top(k).u), work |-> <<>>]]
  /\ UNCHANGED <<data, key, calls, clock, bounds, history>>

EndCheck(k) ==
  /\ check[k].pc = "next" /\ check[k].list = {}
  /\ check' = [check EXCEPT ![k] = Idle]
  /\ UNCHANGED <<data, redis, calls, clock, bounds, history>>

\* A statement of the deletion fails: nobody catches it, the whole check ends.
Throw(k) ==
  /\ check[k].pc = "work" /\ throws < MaxThrows
  /\ check' = [check EXCEPT ![k] = Idle] /\ throws' = throws + 1
  /\ UNCHANGED <<data, redis, calls, clock, asks, admin, fills, crashes, history>>

\* The main worker dies, in the middle of what it does.
Crash ==
  /\ up /\ crashes < MaxCrashes
  /\ up' = FALSE /\ crashes' = crashes + 1
  /\ check' = [k \in Checks |-> Idle]
  /\ UNCHANGED <<data, redis, calls, rung, now, asks, admin, fills, throws, history>>

\* A tick is longer than a request or a check; node-cron fires in its second or not at all.
Tick ==
  /\ now < MaxNow
  /\ \A u \in Users : ask[u] = "no" /\ back[u] = "no" /\ fill[u] = NoDoc
  /\ \A k \in Checks : check[k] = Idle
  /\ up => rung
  /\ now' = now + 1
  /\ missed' = (missed \/ ~rung)
  /\ rung' = (now' % Day # 0)
  /\ UNCHANGED <<data, redis, calls, check, up, bounds, asked, mail, began, loose>>

--------------------------------------------------------------------------------
Ask == \E u \in Users : AskDelete(u) \/ ConfirmDateOfBirth(u)
Finish == \E u \in Users : QueueDelete(u) \/ ForgetCopy(u) \/ Revive(u) \/ PutCopy(u)
Bring == \E u \in Users : Reactivate(u) \/ ReadRow(u) \/ \E b \in BOOLEAN : UpdateBanned(u, b)
Work(k) ==
  \/ Skip(k) \/ WarnOwner(k) \/ Condemn(k) \/ DropGallery(k) \/ DropRest(k)
  \/ DropBot(k) \/ DropApps(k) \/ DropRow(k) \/ DropCopy(k) \/ EndCheck(k)

Next ==
  \/ Ask \/ Finish \/ Bring
  \/ \E k \in Checks : Midnight(k) \/ Start(k) \/ Work(k) \/ Throw(k)
  \/ Crash \/ Tick

Spec == Init /\ [][Next]_vars

\* The clock goes on, the cluster starts a main worker again, calls and checks end.
Fairness ==
  /\ WF_vars(Tick) /\ WF_vars(Finish)
  /\ WF_vars(\E k \in Checks : Start(k)) /\ WF_vars(\E k \in Checks : Midnight(k))
  /\ \A k \in Checks : WF_vars(Work(k))

FairSpec == Spec /\ Fairness

--------------------------------------------------------------------------------
(* Properties *)

Times == {Never} \cup Nat
TypeOK ==
  /\ row \in [Users -> Account]
  /\ parts \in [Users -> SUBSET Rest] /\ \A u \in Users : apps[u] \subseteq BotsOf[u]
  /\ doc \in [Users -> {NoDoc} \cup BOOLEAN] /\ fill \in [Users -> {NoDoc} \cup BOOLEAN]
  /\ key \in [Users -> Times]
  /\ ask \in [Users -> {"no", "manual", "age", "forget"}] /\ back \in [Users -> {"no", "read"}]
  /\ \A k \in Checks :
       /\ check[k].pc \in {"idle", "next", "work"}
       /\ check[k].list \subseteq [u : Users, due : Times]
       /\ \A i \in 1 .. Len(check[k].work) :
            check[k].work[i] \in [u : Users, at : {"gallery", "rest", "bots", "row", "doc"}]
  /\ up \in BOOLEAN /\ rung \in BOOLEAN /\ now \in 0 .. MaxNow
  /\ asked \in [Users -> Times] /\ mail \in [Users -> Times]
  /\ began \in [Users -> {NoDoc} \cup [at : Nat, asked : Times, mail : Times]]
  /\ loose \subseteq Users \X {"copy", "date", "list"} /\ missed \in BOOLEAN

Kept(u, why) == <<u, why>> \notin loose
Begun(u) == u \in Owners /\ began[u] # NoDoc

\* An account is deleted because its owner asked for it, and hardly an hour before the
\* fourteen days are over; excepted are an account that changed while a check had it in
\* its list and one that a moderator unbanned, whose date stays (deletion.service 341,
\* admin.service 465).
NotBeforeGrace == \A u \in Users :
  Begun(u) /\ Kept(u, "list") /\ Kept(u, "date") =>
    began[u].asked # Never /\ began[u].at + Hour > began[u].asked + Grace

\* While the main worker misses no midnight and no deletion throws, an owner is warned
\* after he asked, at least a day and at most three before his account is deleted.
WarnedInTime == \A u \in Users :
  Begun(u) /\ Kept(u, "list") /\ Kept(u, "date") /\ ~missed /\ throws = 0 /\ crashes = 0 =>
    /\ began[u].mail # Never /\ began[u].mail >= began[u].asked
    /\ began[u].at - began[u].mail \in Day .. Warn + Day

\* No owner loses an account without having asked for it and having been warned.
DeletionIsAnnounced == NotBeforeGrace /\ WarnedInTime

\* Whatever throws or dies and is done again: once the row is gone, so is all the rest
\* (but for the uploads that may not be deleted), and so are the bots (deletion.service 75-339).
LeavesNothing == \A u \in Users : ~row[u].here =>
  parts[u] = {} /\ apps[u] = {} /\ \A b \in BotsOf[u] : ~row[b].here

\* The copy that lets requests in says what the row says, but for a reactivation, a
\* moderator, or a row read before the change and copied after it (userUtils.service 82).
CopyTellsTheRow == \A u \in Users :
  row[u].here /\ doc[u] # NoDoc /\ Kept(u, "copy") /\ ask[u] # "forget" => doc[u] = row[u].banned

\* An account that is to be deleted is deleted, unless it is brought back: a check that
\* throws or dies is made up for by the next one.
DueIsDeleted == \A u \in Users : Pending(u) ~> ~Pending(u)
==============================================================================
