----------------------------- MODULE ChatUnread ------------------------------
(***************************************************************************)
(* The unread counters of one user: one JSON document in Redis with a key  *)
(* per chat, which every message sent to the user, every readChat and      *)
(* every removal from a chat reads, changes and writes back whole          *)
(* (services/chat.service.ts).  Next to it the read receipt of each of the *)
(* user's associations, which readChat moves to the newest message.        *)
(***************************************************************************)
EXTENDS Integers, FiniteSets

CONSTANTS
  Chats,
  Slots,        \* requests that can be in flight at once, on all workers
  MaxMessages,  \* bound on the messages sent
  MaxCrashes,   \* bound on the workers that die
  LeavesReceipts, \* the user is neither invisible nor a bot
  NoDoc,        \* Redis has no document of the user
  Missing,      \* what a document has for a chat without a key
  NaN           \* what undefined + 1 is, stored as null

ASSUME UnreadAssumption ==
  /\ IsFiniteSet(Slots)
  /\ MaxMessages \in Nat /\ MaxCrashes \in Nat
  /\ LeavesReceipts \in BOOLEAN
  /\ NaN \notin Int /\ Missing \notin Int /\ NaN # Missing
  /\ NoDoc \notin [Chats -> Nat \cup {NaN, Missing}]

VARIABLES
  doc,      \* unread:<user>
  member,   \* chats the user has an association in
  lastRead, \* lastRead of the associations, 0 for null
  newest,   \* the newest message of each chat, 0 for none
  req,      \* the requests in flight
  sent,     \* messages sent so far, the next id less one
  crashes,
  \* history
  pushed,   \* messages that were to be counted, by chat
  latest,   \* the newest of them
  due,      \* those of them that no reading has answered yet
  hasRead,  \* chats the user has read since they joined
  blurred,  \* chats whose counter another request's write has undone
  regressed \* chats whose receipt an older reading has moved back

data == <<member, lastRead, newest, sent>>
history == <<pushed, latest, due, hasRead, blurred, regressed>>
vars == <<doc, data, req, crashes, history>>

Ops == {"send", "read", "remove"}

\* A request: what it does, to which chat, how far it is, whether the user is a recipient,
\* the document it has read and the message it has found or created.
Idle == [op |-> "none", chat |-> "none", pc |-> "idle", to |-> FALSE, doc |-> NoDoc, msg |-> 0]

At(s, pc) == req[s].pc = pc
Chat(s) == req[s].chat
Goto(s, pc) == req' = [req EXCEPT ![s].pc = pc]
Done(s) == req' = [req EXCEPT ![s] = Idle]

Entries(d) == IF d = NoDoc THEN [c \in Chats |-> Missing] ELSE d
Keys(d) == {c \in Chats : Entries(d)[c] # Missing}
\* unreads?.[chat.id] || 0
Shown(d, c) == IF Entries(d)[c] \in Nat THEN Entries(d)[c] ELSE 0

With(d, c, n) == [Entries(d) EXCEPT ![c] = n]

\* The requests r with a message of chat c that they have still to count.
Counting(r, c) == {t \in Slots : r[t].chat = c /\ r[t].pc \in {"get", "set"}}

\* What a write of d loses: the chats that another request has changed since it was read.
Lost(s) == {c \in Chats : Entries(doc)[c] # Entries(req[s].doc)[c]}

\* A removal that overlaps another request of the chat may leave it half done.
Overlapped(op, c) ==
  IF \E t \in Slots : Chat(t) = c /\ "remove" \in {op, req[t].op} THEN {c} ELSE {}

Begin(s, op, c, pc, to) ==
  /\ At(s, "idle")
  /\ req' = [req EXCEPT ![s] = [Idle EXCEPT !.op = op, !.chat = c, !.pc = pc, !.to = to]]
  /\ blurred' = blurred \cup Overlapped(op, c)
  /\ UNCHANGED <<doc, data, crashes, pushed, latest, due, hasRead, regressed>>

------------------------------------------------------------------------------
(* Messages, and the part of a removal that announces it.                  *)

\* The messages sent and about to be sent stay within the bound.
Room == sent + Cardinality({s \in Slots : At(s, "create")}) < MaxMessages

\* getChatFromAssociation loads the list of recipients.  `to` is whether the message counts
\* for the user if they are on it: it is not their own, and they have not muted the chat.
Send(s, c, to) == Room /\ Begin(s, "send", c, "create", to /\ c \in member)

\* The leave message is the user's own when they leave, another member's when removed.
Remove(s, c, to) == Room /\ c \in member /\ Begin(s, "remove", c, "create", to)

\* addUsersToChat, a joined invite: the association, then the join message to all.
Join(s, c) ==
  /\ Room /\ c \notin member
  /\ At(s, "idle")
  /\ member' = member \cup {c}
  /\ lastRead' = [lastRead EXCEPT ![c] = 0]
  /\ req' = [req EXCEPT ![s] = [Idle EXCEPT !.op = "send", !.chat = c, !.pc = "create",
                                            !.to = TRUE]]
  /\ blurred' = blurred \cup Overlapped("send", c)
  /\ UNCHANGED <<doc, newest, sent, crashes, pushed, latest, due, hasRead, regressed>>

Create(s) ==
  /\ At(s, "create")
  /\ sent' = sent + 1
  /\ newest' = [newest EXCEPT ![Chat(s)] = sent + 1]
  /\ req' = [req EXCEPT ![s].pc = "lookup", ![s].msg = sent + 1]
  /\ UNCHANGED <<doc, member, lastRead, crashes, history>>

Announced(s) == IF req[s].op = "remove" THEN Goto(s, "dropget") ELSE Done(s)

\* The association of each recipient is loaded again before the event is pushed.
Lookup(s) ==
  /\ At(s, "lookup")
  /\ \/ /\ req[s].to /\ Chat(s) \in member
        /\ Goto(s, "get")
        /\ pushed' = [pushed EXCEPT ![Chat(s)] = @ + 1]
        /\ latest' = [latest EXCEPT ![Chat(s)] = IF @ < req[s].msg THEN req[s].msg ELSE @]
        /\ due' = [due EXCEPT ![Chat(s)] = @ + 1]
     \/ /\ ~(req[s].to /\ Chat(s) \in member)
        /\ Announced(s)
        /\ UNCHANGED <<pushed, latest, due>>
  /\ UNCHANGED <<doc, data, crashes, hasRead, blurred, regressed>>

Fetch(s, from, to) ==
  /\ At(s, from)
  /\ req' = [req EXCEPT ![s].pc = to, ![s].doc = doc]
  /\ UNCHANGED <<doc, data, crashes, history>>

Get(s) == Fetch(s, "get", "set")

\* Slip: the default is put on the wrong side of the sum.
RaisedFromOne(d, c) == With(d, c, IF Shown(d, c) = 0 THEN 2 ELSE Shown(d, c) + 1)

\* notifications[chat.id] += 1 || 1: a key the document does not have becomes NaN.
Raised(d, c) == With(d, c, IF d # NoDoc /\ d[c] = Missing THEN NaN ELSE Shown(d, c) + 1)

SendSet(s) ==
  /\ At(s, "set")
  /\ doc' = Raised(req[s].doc, Chat(s))
  /\ blurred' = blurred \cup Lost(s)
  /\ Announced(s)
  /\ UNCHANGED <<data, crashes, pushed, latest, due, hasRead, regressed>>

------------------------------------------------------------------------------
(* readChat.                                                               *)

Read(s, c) == c \in member /\ Begin(s, "read", c, "readget", FALSE)

ReadGet(s) == Fetch(s, "readget", "readset")

\* Slip: only the chat that was read is written back.
ClearedOnly(d, c) == With(NoDoc, c, 0)

Cleared(d, c) == With(d, c, 0)

\* Messages on their way to the counter are counted after this.
ReadSet(s) ==
  LET c == Chat(s) IN
  /\ At(s, "readset")
  /\ doc' = Cleared(req[s].doc, c)
  /\ due' = [due EXCEPT ![c] = Cardinality(Counting(req, c))]
  /\ hasRead' = hasRead \cup ({c} \cap member)
  /\ blurred' = (blurred \cup Lost(s))
                  \ (IF Overlapped("read", c) = {} THEN {c} \cap member ELSE {})
  /\ Goto(s, "find")
  /\ UNCHANGED <<data, crashes, pushed, latest, regressed>>

Find(s) ==
  /\ At(s, "find")
  /\ \/ newest[Chat(s)] = 0 /\ Done(s)
     \/ /\ newest[Chat(s)] # 0
        /\ req' = [req EXCEPT ![s].pc = "mark", ![s].msg = newest[Chat(s)]]
  /\ UNCHANGED <<doc, data, crashes, history>>

Mark(s) ==
  LET c == Chat(s) IN
  /\ At(s, "mark")
  /\ lastRead' = IF LeavesReceipts /\ c \in member THEN [lastRead EXCEPT ![c] = req[s].msg] ELSE lastRead
  /\ regressed' = IF req[s].msg = newest[c] THEN regressed \ {c}
                  ELSE IF req[s].msg < lastRead[c] THEN regressed \cup {c} ELSE regressed
  /\ Done(s)
  /\ UNCHANGED <<doc, member, newest, sent, crashes, pushed, latest, due, hasRead, blurred>>

------------------------------------------------------------------------------
(* The rest of removeUserFromChat.                                         *)

\* Slip: the missing document is not noticed.
DropGetUnchecked(s) == Fetch(s, "dropget", "dropset")

\* `delete unread[..]` throws when Redis has no document: the user stays a member.
DropGet(s) ==
  /\ At(s, "dropget")
  /\ \/ doc = NoDoc /\ Done(s)
     \/ doc # NoDoc /\ req' = [req EXCEPT ![s].pc = "dropset", ![s].doc = doc]
  /\ UNCHANGED <<doc, data, crashes, history>>

\* Slip: the key stays.
DroppedNot(d, c) == d

Dropped(d, c) == With(d, c, Missing)

DropSet(s) ==
  /\ At(s, "dropset")
  /\ doc' = Dropped(req[s].doc, Chat(s))
  /\ blurred' = blurred \cup Lost(s)
  /\ Goto(s, "destroy")
  /\ UNCHANGED <<data, crashes, pushed, latest, due, hasRead, regressed>>

Destroy(s) ==
  LET c == Chat(s) IN
  /\ At(s, "destroy")
  /\ member' = member \ {c}
  /\ due' = [due EXCEPT ![c] = 0]
  /\ hasRead' = hasRead \ {c}
  /\ Done(s)
  /\ UNCHANGED <<doc, lastRead, newest, sent, crashes, pushed, latest, blurred, regressed>>

\* The worker dies, and the request with it.
Crash(s) ==
  /\ ~At(s, "idle") /\ crashes < MaxCrashes
  /\ crashes' = crashes + 1
  /\ blurred' = blurred \cup {Chat(s)}
  /\ Done(s)
  /\ UNCHANGED <<doc, data, pushed, latest, due, hasRead, regressed>>

------------------------------------------------------------------------------
\* The document of a user who has left every chat it had a key for.
Empty == [c \in Chats |-> Missing]

Init ==
  /\ doc \in {NoDoc, Empty}
  /\ member \in SUBSET Chats
  /\ lastRead = [c \in Chats |-> 0]
  /\ newest = [c \in Chats |-> 0]
  /\ req = [s \in Slots |-> Idle]
  /\ sent = 0 /\ crashes = 0
  /\ pushed = [c \in Chats |-> 0] /\ due = [c \in Chats |-> 0]
  /\ latest = [c \in Chats |-> 0]
  /\ hasRead = {} /\ blurred = {} /\ regressed = {}

Arrive(s) ==
  \E c \in Chats :
    \/ \E to \in BOOLEAN : Send(s, c, to) \/ Remove(s, c, to)
    \/ Join(s, c) \/ Read(s, c)

\* A worker goes on with a request once it has it.
Step(s) ==
  \/ Create(s) \/ Lookup(s) \/ Get(s) \/ SendSet(s)
  \/ ReadGet(s) \/ ReadSet(s) \/ Find(s) \/ Mark(s)
  \/ DropGet(s) \/ DropSet(s) \/ Destroy(s)

Next == \E s \in Slots : Arrive(s) \/ Step(s) \/ Crash(s)

Spec == Init /\ [][Next]_vars

------------------------------------------------------------------------------
Points == {"create", "lookup", "get", "set", "readget", "readset", "find", "mark",
           "dropget", "dropset", "destroy"}

Docs == {NoDoc} \cup [Chats -> Nat \cup {NaN, Missing}]

Requests == [op : Ops \cup {"none"}, chat : Chats \cup {"none"}, pc : Points \cup {"idle"},
             to : BOOLEAN, doc : Docs, msg : Nat]

TypeOK ==
  /\ doc \in Docs
  /\ member \subseteq Chats
  /\ lastRead \in [Chats -> Nat] /\ newest \in [Chats -> Nat]
  /\ req \in [Slots -> Requests]
  /\ \A s \in Slots : ~At(s, "idle") => Chat(s) \in Chats
  /\ \A s \in Slots : At(s, "dropset") => req[s].doc # NoDoc
  /\ sent \in Nat /\ crashes \in 0..MaxCrashes
  /\ pushed \in [Chats -> Nat] /\ due \in [Chats -> Nat] /\ latest \in [Chats -> Nat]

\* Losing updates is all the races can do: whatever overlaps, and whatever old copy of the
\* document is written back, no chat shows more messages than were pushed to the user.
NothingInvented == \A c \in Chats : Shown(doc, c) <= pushed[c]

AtRest == \A s \in Slots : At(s, "idle")

\* When the requests have ended, a chat whose counter no other request's write has undone
\* shows what was pushed since it was last read: exactly that once it has been read; before
\* that the first message may be missing, which is added to no key at all.  A reading that
\* nothing overlaps brings a wrong counter back in line.
CountIsRight ==
  AtRest => \A c \in member \ blurred :
    /\ Shown(doc, c) \in {due[c], due[c] - 1}
    /\ c \in hasRead => Shown(doc, c) = due[c]

\* When the requests have ended, the document has no key of a chat the user has left,
\* unless something of that chat overlapped the removal: a later return starts from nothing.
KeysOfMembers == AtRest => Keys(doc) \subseteq member \cup blurred

\* The badge and the receipt agree: where the user has read and nothing is shown as unread,
\* the receipt covers every message the user was pushed, unless an older reading that was
\* still on its way has moved it back.
ReceiptCoversBadge ==
  LeavesReceipts /\ AtRest => \A c \in (member \cap hasRead) \ (blurred \cup regressed) :
    Shown(doc, c) = 0 => lastRead[c] >= latest[c]

\* What the badge of a chat says between the requests, in both directions.
BadgeIsRight == CountIsRight /\ ReceiptCoversBadge

==============================================================================
