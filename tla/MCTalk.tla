-------------------------------- MODULE MCTalk --------------------------------
(* Instances of ChatUnread and Messages for TLC: the unread document of a user *)
(* and the messages that the clients show. They share no state, so one run     *)
(* visits each by itself: part says which one moves, and the others stay where *)
(* they start.                                                                 *)
EXTENDS ChatUnread, TLC

CONSTANTS
  Clients, Texts, Editors, MaxEdits, MaxLoads, Tries, NoList, NoMsg

VARIABLES
  part,
  table, send, editor, del, out, wire, list, late, tries, load, edits, drops,
  seen, over, mixed, cut

\* One message, edited, deleted and loaded; one that is sent twice, because the answer was
\* lost with the connection; two messages of one client.
M == INSTANCE Messages WITH MaxSends <- 1, MaxRows <- 1, MaxDrops <- 0
D == INSTANCE Messages WITH MaxSends <- 1, MaxRows <- 2, MaxDrops <- 1, MaxEdits <- 0
T == INSTANCE Messages WITH MaxSends <- 2, MaxRows <- 2, MaxDrops <- 0, MaxEdits <- 1,
                            Clients <- {CHOOSE c \in Clients : TRUE}

ASSUME TalkAssumption == M!MessagesAssumption /\ D!MessagesAssumption /\ T!MessagesAssumption

messages == <<table, send, editor, del, out, wire, list, late, tries, load, edits, drops,
              seen, over, mixed, cut>>
all == <<part, vars, messages>>

TalkInit ==
  /\ Init
  /\ \/ part \in {"unread", "messages"} /\ M!Init
     \/ part = "lost" /\ D!Init
     \/ part = "two" /\ T!Init
  /\ part # "unread" => doc = NoDoc /\ member = {}

TalkNext ==
  \/ part = "unread" /\ Next /\ UNCHANGED <<part, messages>>
  \/ part = "messages" /\ M!Next /\ UNCHANGED <<part, vars>>
  \/ part = "lost" /\ D!Next /\ UNCHANGED <<part, vars>>
  \/ part = "two" /\ T!Next /\ UNCHANGED <<part, vars>>

TalkSpec == TalkInit /\ [][TalkNext]_all

\* The chats are alike, and so are the requests; the texts have the names of the chats.
Alike == Permutations(Chats) \cup Permutations(Slots)

\* See the modules for what they say.
TalkTypeOK ==
  /\ TypeOK
  /\ part = "messages" => M!TypeOK
  /\ part = "lost" => D!TypeOK
  /\ part = "two" => T!TypeOK
Settled ==
  /\ part = "messages" => M!Settled
  /\ part = "lost" => D!Settled
  /\ part = "two" => T!Settled
===============================================================================
