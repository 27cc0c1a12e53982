------------------------------ MODULE Messages -------------------------------
(***************************************************************************)
(* The messages of one chat between the server and the web clients that    *)
(* have the chat open.  The server (chat.service: sendMessage, editMessage,*)
(* deleteMessage, and the embed parser) changes a row first and tells the  *)
(* members afterwards, each kind of event by a subscription of its own     *)
(* (message.resolver); a client (message.socket.ts, Chat.vue, chat.store)  *)
(* shows what it sends at once as pending, applies the events to the list  *)
(* it has, and replaces the whole list when the chat is loaded again.      *)
(***************************************************************************)
EXTENDS Integers, Sequences, FiniteSets, SequencesExt

CONSTANTS
  Clients,   \* one per member; each has the chat open
  Texts,     \* what they write
  Editors,   \* edits and embed parsers that may run at once
  MaxSends,  \* bound on what is typed
  MaxRows,   \* bound on the messages; below the page of 50 that a load reads
  MaxEdits,  \* bound on edits and embeds
  MaxLoads,  \* bound on the times each client loads the chat
  MaxDrops,  \* bound on lost connections
  Tries,     \* times an edit of an unknown message is tried again: 6
  NoList, NoMsg

Ids == 1 .. MaxRows
Temps == 1 .. MaxSends
Loads == 1 .. MaxLoads
Topics == {"message", "edit", "delete"}
Msgs == [text : Texts, emb : BOOLEAN]
Events == [id : Ids, msg : {NoMsg} \cup Msgs]
Items == [id : {0} \cup Ids, tmp : {0} \cup Temps, text : Texts, emb : BOOLEAN,
          is : {"sent", "pending", "error"}]

\* A client that has not loaded the chat has no list, not even an empty one.
MessagesAssumption ==
  /\ {MaxSends, MaxRows, MaxEdits, MaxLoads, MaxDrops, Tries} \subseteq Nat
  /\ NoList \notin Seq(Items)

VARIABLES
  table,  \* the Message rows
  send,   \* sendMessage after the row is there: whom it has still to tell
  editor, \* editMessage and embedParser after the row is written
  del,    \* deleteMessage after the row is gone
  out,    \* the sendMessage mutations of the clients
  wire,   \* what the subscriptions of a client have not delivered
  list,   \* messagesStore.messages of a client, the newest first
  late,   \* edits of a message that the client does not have, and their timers
  tries,  \* embedFails[].retries, by message
  load,   \* how far setChat is, the rows that it read
  edits, drops,
  \* history
  seen,   \* messages whose event the client had
  over,   \* messages whose events met one of the races that ShowsTheTable excepts
  mixed,  \* clients where an event took the place of another pending message
  cut     \* clients that lost their connection

server == <<table, send, editor, del>>
client == <<list, late, tries, load>>
history == <<seen, over, mixed, cut>>
vars == <<server, out, wire, client, edits, drops, history>>

None == [st |-> "none", by |-> 0, text |-> NoMsg, emb |-> FALSE]
Shown(id, m) == [id |-> id, tmp |-> 0, text |-> m.text, emb |-> m.emb, is |-> "sent"]
Waiting(t, x) == [id |-> 0, tmp |-> t, text |-> x, emb |-> FALSE, is |-> "pending"]
Quill == [pc |-> "idle", id |-> 0, msg |-> NoMsg]
Mute == [pc |-> "none", msg |-> NoMsg, todo |-> {}]
Fresh == [pc |-> "new", rows |-> <<>>, missed |-> {}]

Here(id) == table[id].st = "here"
Content(id) == [text |-> table[id].text, emb |-> table[id].emb]
Has(c, id) == list[c] # NoList /\ \E i \in 1 .. Len(list[c]) : list[c][i].id = id
At(c, id) == CHOOSE i \in 1 .. Len(list[c]) : list[c][i].id = id

Init ==
  /\ table = [id \in Ids |-> None] /\ send = [id \in Ids |-> Mute]
  /\ editor = [e \in Editors |-> Quill] /\ del = [id \in Ids |-> "no"]
  /\ out = [t \in Temps |-> [pc |-> "new", by |-> 0, text |-> NoMsg, id |-> 0]]
  /\ wire = [c \in Clients |-> [k \in Topics |-> <<>>]]
  /\ list = [c \in Clients |-> NoList] /\ late = [c \in Clients |-> <<>>]
  /\ tries = [c \in Clients |-> [id \in Ids |-> 0]]
  /\ load = [c \in Clients |-> [l \in Loads |-> Fresh]]
  /\ edits = 0 /\ drops = 0
  /\ seen = [c \in Clients |-> {}] /\ over = [c \in Clients |-> {}]
  /\ mixed = {} /\ cut = {}

--------------------------------------------------------------------------------
(* Sending *)

\* sendMessage of Chat.vue: the text is shown as pending and the mutation is sent.
Type(c, x) ==
  /\ list[c] # NoList
  /\ \E t \in Temps :
       /\ out[t].pc = "new" /\ \A s \in Temps : s < t => out[s].pc # "new"
       /\ out' = [out EXCEPT ![t] = [pc |-> "sent", by |-> c, text |-> x, id |-> 0]]
       /\ list' = [list EXCEPT ![c] = <<Waiting(t, x)>> \o @]
  /\ UNCHANGED <<server, wire, late, tries, load, edits, drops, history>>

\* The server refuses: permissions, blocks, an empty text, the rate limit.
Refuse(t) ==
  /\ out[t].pc = "sent"
  /\ out' = [out EXCEPT ![t].pc = "refused"]
  /\ UNCHANGED <<server, wire, client, edits, drops, history>>

\* chat.service sendMessage: the row is created.
Create(t) ==
  /\ out[t].pc = "sent"
  /\ \E id \in Ids :
       /\ table[id].st = "none" /\ \A i \in 1 .. id - 1 : table[i].st # "none"
       /\ table' = [table EXCEPT ![id] = [st |-> "here", by |-> out[t].by,
                                          text |-> out[t].text, emb |-> FALSE]]
       /\ send' = [send EXCEPT ![id].pc = "created"]
       /\ out' = [out EXCEPT ![t].pc = "run", ![t].id = id]
  /\ UNCHANGED <<editor, del, wire, client, edits, drops, history>>

\* sendMessageToUsers reads it again, and throws if it is already gone.
ReadBack(id) ==
  /\ send[id].pc = "created"
  /\ send' = [send EXCEPT ![id] =
                IF Here(id) THEN [pc |-> "tell", msg |-> Content(id), todo |-> Clients]
                ELSE [@ EXCEPT !.pc = "failed"]]
  /\ UNCHANGED <<table, editor, del, out, wire, client, edits, drops, history>>

Publish(c, k, e) == [wire EXCEPT ![c][k] = Append(@, e)]

\* ... and tells one member after the other, in the order in which their rows came.
Tell(id, c) ==
  /\ send[id].pc = "tell" /\ c \in send[id].todo
  /\ wire' = Publish(c, "message", [id |-> id, msg |-> send[id].msg])
  /\ send' = [send EXCEPT ![id].todo = @ \ {c}]
  /\ UNCHANGED <<table, editor, del, out, client, edits, drops, history>>

\* The mutation is answered; the client does nothing.
Answer(t) ==
  /\ out[t].pc = "run"
  /\ send[out[t].id].pc = "tell" /\ send[out[t].id].todo = {}
  /\ out' = [out EXCEPT ![t].pc = "answered"]
  /\ UNCHANGED <<server, wire, client, edits, drops, history>>

\* ... or fails, and what is still shown as pending becomes an error.
Fail(t) ==
  /\ \/ out[t].pc = "refused"
     \/ out[t].pc = "run" /\ send[out[t].id].pc = "failed"
  /\ out' = [out EXCEPT ![t].pc = "answered"]
  /\ list' = [list EXCEPT ![out[t].by] =
                IF @ = NoList THEN @
                ELSE [i \in 1 .. Len(@) |-> IF @[i].tmp = t THEN [@[i] EXCEPT !.is = "error"]
                                            ELSE @[i]]]
  /\ UNCHANGED <<server, wire, late, tries, load, edits, drops, history>>

--------------------------------------------------------------------------------
(* Editing, embeds, deletion *)

Busy(id) == \E e \in Editors : editor[e].pc # "idle" /\ editor[e].id = id

\* The row is written; another editor of the same message may be at work.
Write(e, id, m) ==
  /\ editor[e].pc = "idle" /\ edits < MaxEdits
  /\ table' = [table EXCEPT ![id].text = m.text, ![id].emb = m.emb]
  /\ editor' = [editor EXCEPT ![e] = [pc |-> "written", id |-> id, msg |-> NoMsg]]
  /\ edits' = edits + 1
  /\ over' = IF Busy(id) THEN [c \in Clients |-> over[c] \cup {id}] ELSE over
  /\ UNCHANGED <<send, del, out, wire, client, drops, seen, mixed, cut>>

\* editMessage: its author writes another text.
Edit(e, id) ==
  /\ Here(id) /\ Has(table[id].by, id)
  /\ \E x \in Texts \ {table[id].text} : Write(e, id, [Content(id) EXCEPT !.text = x])

\* embedParser: links and attachments of the text have been looked up.
Embed(e, id) ==
  /\ Here(id) /\ ~table[id].emb
  /\ Write(e, id, [Content(id) EXCEPT !.emb = TRUE])

\* Both read the row again ...
ReadRow(e) ==
  /\ editor[e].pc = "written"
  /\ editor' = [editor EXCEPT ![e] = IF Here(@.id) THEN [@ EXCEPT !.pc = "read", !.msg = Content(editor[e].id)]
                                     ELSE Quill]
  /\ UNCHANGED <<table, send, del, out, wire, client, edits, drops, history>>

\* Slip: the author is left out.
PublishOthers(k, e) == [c \in Clients |->
  IF c = table[e.id].by THEN wire[c] ELSE [wire[c] EXCEPT ![k] = Append(@, e)]]

PublishAll(k, e) == [c \in Clients |-> [wire[c] EXCEPT ![k] = Append(@, e)]]

\* ... and tell all members what they read (emitForAll).
TellEdit(e) ==
  /\ editor[e].pc = "read"
  /\ wire' = PublishAll("edit", [id |-> editor[e].id, msg |-> editor[e].msg])
  /\ editor' = [editor EXCEPT ![e] = Quill]
  /\ UNCHANGED <<table, send, del, out, client, edits, drops, history>>

\* deleteMessage, by its author or by a member who may delete: the row goes ...
Delete(id) ==
  /\ Here(id) /\ \E c \in Clients : Has(c, id)
  /\ table' = [table EXCEPT ![id].st = "gone"]
  /\ del' = [del EXCEPT ![id] = "gone"]
  /\ UNCHANGED <<send, editor, out, wire, client, edits, drops, history>>

\* ... and all members are told, which the mutation does not wait for.
TellDelete(id) ==
  /\ del[id] = "gone"
  /\ wire' = PublishAll("delete", [id |-> id, msg |-> NoMsg])
  /\ del' = [del EXCEPT ![id] = "told"]
  /\ UNCHANGED <<table, send, editor, out, client, edits, drops, history>>

--------------------------------------------------------------------------------
(* The client's events *)

Next1(c, k) == Head(wire[c][k])
Taken(c, k) == [wire EXCEPT ![c][k] = Tail(@)]
\* A load that has read the rows will undo what an event does to this message.
Misses(ld, id) ==
  [l \in Loads |-> IF ld[l].pc = "read" THEN [ld[l] EXCEPT !.missed = @ \cup {id}] ELSE ld[l]]
Missed(c, id) == [load EXCEPT ![c] = Misses(@, id)]

\* The first pending message with this text, or 0.
Place(c, m) ==
  LET same == {i \in 1 .. Len(list[c]) : list[c][i].is = "pending" /\ list[c][i].text = m.text}
  IN IF same = {} THEN 0 ELSE CHOOSE i \in same : \A j \in same : i <= j

\* The list with a new message, which takes that place away, whosever it was.
With(c, id, m) ==
  <<Shown(id, m)>> \o (IF Place(c, m) = 0 THEN list[c] ELSE RemoveAt(list[c], Place(c, m)))

Added(c, e) == IF list[c] = NoList \/ Has(c, e.id) THEN list[c] ELSE With(c, e.id, e.msg)

Foreign(c, e) ==
  /\ list[c] # NoList /\ ~Has(c, e.id) /\ Place(c, e.msg) # 0
  /\ out[list[c][Place(c, e.msg)].tmp].id # e.id

\* onMessage.
OnMessage(c) ==
  /\ wire[c]["message"] # <<>>
  /\ LET e == Next1(c, "message")
     IN /\ list' = [list EXCEPT ![c] = Added(c, e)]
        /\ seen' = [seen EXCEPT ![c] = @ \cup {e.id}]
        /\ mixed' = IF Foreign(c, e) THEN mixed \cup {c} ELSE mixed
        /\ load' = Missed(c, e.id)
  /\ wire' = Taken(c, "message")
  /\ UNCHANGED <<server, out, late, tries, edits, drops, over, cut>>

\* onEmbedResolution of a message that the list has.
Apply(c, e) == list' = [list EXCEPT ![c][At(c, e.id)] = [@ EXCEPT !.text = e.msg.text, !.emb = e.msg.emb]]

\* ... and of one that it does not have: it is tried again in 50 ms, but not for ever.
\* If newer ones wait already, they come first from now on.
Postpone(c, e, rest, overtaken) ==
  IF tries[c][e.id] >= Tries
  THEN /\ late' = [late EXCEPT ![c] = rest]
       /\ tries' = [tries EXCEPT ![c][e.id] = 0]
       /\ over' = [over EXCEPT ![c] = @ \cup {e.id}]
  ELSE /\ late' = [late EXCEPT ![c] = Append(rest, e)]
       /\ tries' = [tries EXCEPT ![c][e.id] = @ + 1]
       /\ over' = IF overtaken THEN [over EXCEPT ![c] = @ \cup {e.id}] ELSE over

Waits(s, id) == \E i \in 1 .. Len(s) : s[i].id = id

\* onEditMessage; an older edit of the same message may still wait for its timer.
OnEdit(c) ==
  /\ wire[c]["edit"] # <<>>
  /\ LET e == Next1(c, "edit")
     IN /\ IF list[c] = NoList THEN UNCHANGED <<list, late, tries, over>>
           ELSE IF Has(c, e.id)
           THEN /\ Apply(c, e) /\ UNCHANGED <<late, tries>>
                /\ over' = IF Waits(late[c], e.id)
                           THEN [over EXCEPT ![c] = @ \cup {e.id}] ELSE over
           ELSE Postpone(c, e, late[c], FALSE) /\ UNCHANGED list
        /\ load' = Missed(c, e.id)
  /\ wire' = Taken(c, "edit")
  /\ UNCHANGED <<server, out, edits, drops, seen, mixed, cut>>

\* The timer of a postponed edit.
Again(c) ==
  /\ late[c] # <<>> /\ list[c] # NoList
  /\ LET e == Head(late[c])
     IN /\ IF Has(c, e.id)
           THEN Apply(c, e) /\ late' = [late EXCEPT ![c] = Tail(@)] /\ UNCHANGED <<tries, over>>
           ELSE Postpone(c, e, Tail(late[c]), Waits(Tail(late[c]), e.id)) /\ UNCHANGED list
        /\ load' = Missed(c, e.id)
  /\ UNCHANGED <<server, out, wire, edits, drops, seen, mixed, cut>>

\* onDeleteMessage; the message itself may be still to come.
OnDelete(c) ==
  /\ wire[c]["delete"] # <<>>
  /\ LET e == Next1(c, "delete")
     IN /\ list' = IF Has(c, e.id) THEN [list EXCEPT ![c] = RemoveAt(@, At(c, e.id))] ELSE list
        /\ over' = IF e.id \in seen[c] THEN over ELSE [over EXCEPT ![c] = @ \cup {e.id}]
        /\ load' = Missed(c, e.id)
  /\ wire' = Taken(c, "delete")
  /\ UNCHANGED <<server, out, late, tries, edits, drops, seen, mixed, cut>>

--------------------------------------------------------------------------------
(* Loading, losing the connection *)

\* setChat asks for the newest messages ...
Ask(c, l) ==
  /\ load[c][l].pc = "new" /\ \A k \in 1 .. l - 1 : load[c][k].pc # "new"
  /\ load' = [load EXCEPT ![c][l].pc = "asked"]
  /\ UNCHANGED <<server, out, wire, list, late, tries, edits, drops, history>>

\* ... the server reads them, the newest first ...
Page ==
  LET upTo[n \in 0 .. MaxRows] ==
        IF n = 0 THEN <<>>
        ELSE IF Here(n) THEN <<Shown(n, Content(n))>> \o upTo[n - 1] ELSE upTo[n - 1]
  IN upTo[MaxRows]

ReadTable(c, l) ==
  /\ load[c][l].pc = "asked"
  /\ load' = [load EXCEPT ![c][l] = [pc |-> "read", missed |-> {}, rows |-> Page]]
  /\ UNCHANGED <<server, out, wire, list, late, tries, edits, drops, history>>

\* ... and they become the list, whatever it was.
Assign(c, l) ==
  /\ load[c][l].pc = "read"
  /\ list' = [list EXCEPT ![c] = load[c][l].rows]
  /\ over' = [over EXCEPT ![c] = @ \cup load[c][l].missed]
  /\ load' = [load EXCEPT ![c][l] = [Fresh EXCEPT !.pc = "done"]]
  /\ UNCHANGED <<server, out, wire, late, tries, edits, drops, seen, mixed, cut>>

\* The socket of a client breaks and comes back: what was on its way is lost, and
\* operations that were not answered are sent again.
Drop(c) ==
  /\ drops < MaxDrops /\ drops' = drops + 1
  /\ wire' = [wire EXCEPT ![c] = [k \in Topics |-> <<>>]]
  /\ out' = [t \in Temps |-> IF out[t].by = c /\ out[t].pc \in {"refused", "run"}
                             THEN [out[t] EXCEPT !.pc = "sent", !.id = 0] ELSE out[t]]
  /\ load' = [load EXCEPT ![c] =
                [l \in Loads |-> IF @[l].pc = "read" THEN [Fresh EXCEPT !.pc = "asked"] ELSE @[l]]]
  /\ cut' = cut \cup {c}
  /\ UNCHANGED <<server, list, late, tries, edits, seen, over, mixed>>

Server ==
  \/ \E t \in Temps : Create(t) \/ Refuse(t) \/ Answer(t)
  \/ \E id \in Ids : ReadBack(id) \/ TellDelete(id) \/ \E c \in Clients : Tell(id, c)
  \/ \E e \in Editors : ReadRow(e) \/ TellEdit(e)
  \/ \E c \in Clients, l \in Loads : ReadTable(c, l)
Deliver(c) ==
  \/ OnMessage(c) \/ OnEdit(c) \/ Again(c) \/ OnDelete(c)
  \/ \E l \in Loads : Assign(c, l)
  \/ \E t \in Temps : out[t].by = c /\ Fail(t)
Users ==
  \/ \E c \in Clients : (\E x \in Texts : Type(c, x)) \/ Drop(c) \/ \E l \in Loads : Ask(c, l)
  \/ \E e \in Editors, id \in Ids : Edit(e, id) \/ Embed(e, id)
  \/ \E id \in Ids : Delete(id)

Next == Server \/ Users \/ \E c \in Clients : Deliver(c)

Spec == Init /\ [][Next]_vars
--------------------------------------------------------------------------------
(* Properties *)

Each(s, S) == \A i \in 1 .. Len(s) : s[i] \in S
TypeOK ==
  /\ \A id \in Ids : table[id].st \in {"none", "here", "gone"} /\ del[id] \in {"no", "gone", "told"}
  /\ \A id \in Ids : send[id].pc \in {"none", "created", "tell", "failed"} /\ send[id].todo \subseteq Clients
  /\ \A e \in Editors : editor[e] \in [pc : {"idle", "written", "read"}, id : {0} \cup Ids, msg : {NoMsg} \cup Msgs]
  /\ \A c \in Clients :
       /\ \A k \in Topics : Each(wire[c][k], Events)
       /\ Each(late[c], Events) /\ tries[c] \in [Ids -> 0 .. Tries]
       /\ list[c] # NoList => Each(list[c], Items)
       /\ \A l \in Loads : Each(load[c][l].rows, Items)
       /\ seen[c] \subseteq Ids /\ over[c] \subseteq Ids
  /\ \A t \in Temps : out[t].pc \in {"new", "sent", "refused", "run", "answered"}

\* A list shows no message twice, whether it came by an event, a load or in the place of a
\* pending one (message.socket.ts 53-68).
NoTwins == \A c \in Clients : list[c] # NoList =>
  \A i, j \in 1 .. Len(list[c]) : list[c][i].id = list[c][j].id /\ list[c][i].id # 0 => i = j

ServerQuiet ==
  /\ \A t \in Temps : out[t].pc \in {"new", "answered"}
  /\ \A id \in Ids : del[id] # "gone" /\ send[id].pc \in {"none", "failed", "tell"} /\ send[id].todo = {}
  /\ \A e \in Editors : editor[e].pc = "idle"
ClientQuiet(c) ==
  /\ list[c] # NoList /\ late[c] = <<>> /\ \A k \in Topics : wire[c][k] = <<>>
  /\ \A l \in Loads : load[c][l].pc \in {"new", "done"}

\* When nothing is on its way any more, a client shows the messages that there are, with
\* the texts they have.  Excepted are a lost connection and the messages that met a race:
\* a deletion that came before its message; an edit given up before its message came, or
\* kept waiting until a newer one was applied; two edits that ran at once; an event
\* that came between the reading and the answer of a load.
ShowsTheTable == \A c \in Clients \ cut : ServerQuiet /\ ClientQuiet(c) =>
  \A id \in Ids \ over[c] :
    /\ Here(id) <=> Has(c, id)
    /\ Has(c, id) => LET m == list[c][At(c, id)] IN [text |-> m.text, emb |-> m.emb] = Content(id)

\* What a user sent does not stay pending: its event takes its place, or it failed, and the
\* answer is not needed (Chat.vue 355-362).  Excepted are a lost connection, and a client
\* that had two messages with one text, one of them pending (message.socket.ts 60).
PendingEnds == \A c \in Clients \ (cut \cup mixed) : ServerQuiet /\ ClientQuiet(c) =>
  \A i \in 1 .. Len(list[c]) : list[c][i].is # "pending"

\* What a client shows, at every moment and once everything has settled.
Settled == NoTwins /\ ShowsTheTable /\ PendingEnds

==============================================================================
