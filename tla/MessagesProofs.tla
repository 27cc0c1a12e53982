--------------------------- MODULE MessagesProofs ---------------------------
(***************************************************************************)
(* What the clients of one chat show in the end (Settled), for any number  *)
(* of clients, messages, editors and loads.  Per client and message the    *)
(* newest news of it, be it on its way, put aside until a timer fires or   *)
(* shown, is what the row says (Pair); per pending item its mutation is not*)
(* through or its event has still to come (Debt).  Lists and queues are    *)
(* reduced to what they say of one message: In, Waits, LastSays.           *)
(***************************************************************************)
EXTENDS Messages, SequenceTheorems, FiniteSetTheorems, WellFoundedInduction, TLAPS

\* The messages that were ever created.
Known(t) == {id \in Ids : t[id].st # "none"}
\* ... and of those that were deleted.
Gone(t) == {id \in Ids : t[id].st = "gone"}

\* What a list shows: messages of the server, and what its user sent.
Sent(K) == [id : K, tmp : {0}, text : Texts, emb : BOOLEAN, is : {"sent"}]
Own == [id : {0}, tmp : Temps, text : Texts, emb : BOOLEAN, is : {"pending", "error"}]
Listed(K) == Sent(K) \cup Own
\* What the topics carry: a message or an edit, or only an identifier.
Posts(K) == [id : K, msg : Msgs]
Mail(K) == [id : K, msg : {NoMsg} \cup Msgs]

\* The rows, how far their events are, and the deletions.
Rows(t, d, dl) ==
  /\ t \in [Ids -> [st : {"none", "here", "gone"}, by : {0} \cup Clients,
                    text : {NoMsg} \cup Texts, emb : BOOLEAN]]
  /\ d \in [Ids -> [pc : {"none", "created", "tell", "failed"}, msg : {NoMsg} \cup Msgs,
                    todo : SUBSET Clients]]
  /\ dl \in [Ids -> {"no", "gone", "told"}]
  /\ \A id \in Ids :
       /\ t[id].st # "none" => t[id].by \in Clients /\ t[id].text \in Texts
       /\ t[id].st = "none" <=> d[id].pc = "none"
       /\ d[id].pc = "tell" => d[id].msg \in Msgs
       /\ t[id].st = "gone" <=> dl[id] # "no"

\* The editors and embed parsers.
Pens(K, ed) ==
  /\ ed \in [Editors -> [pc : {"idle", "written", "read"}, id : {0} \cup Ids, msg :
       {NoMsg} \cup Msgs]]
  /\ \A e \in Editors : /\ ed[e].pc # "idle" => ed[e].id \in K
                        /\ ed[e].pc = "read" => ed[e].msg \in Msgs

\* The mutations: no two created the same message.
Mutations(K, o) ==
  /\ o \in [Temps -> [pc : {"new", "sent", "refused", "run", "answered"}, by : {0} \cup Clients,
                      text : {NoMsg} \cup Texts, id : {0} \cup Ids]]
  /\ \A t \in Temps :
       /\ o[t].pc # "new" => o[t].by \in Clients /\ o[t].text \in Texts
       /\ o[t].pc \in {"new", "sent", "refused"} => o[t].id = 0
       /\ o[t].pc = "run" => o[t].id # 0
       /\ o[t].id # 0 => o[t].id \in K
  /\ \A s, t \in Temps : o[s].id = o[t].id /\ o[s].id # 0 => s = t

\* The contents that a list shows for a message: none, or one if the list is Unique.
In(V, id) == {[text |-> V[i].text, emb |-> V[i].emb] : i \in {j \in 1 .. Len(V) : V[j].id = id}}
Unique(V) == \A i, j \in 1 .. Len(V) : V[i].id = V[j].id /\ V[i].id # 0 => i = j
\* The last event about a message that waits in a queue; all of them; there is only one.
LastSays(s, id, m) ==
  \E i \in 1 .. Len(s) : s[i].id = id /\ s[i].msg = m /\ \A j \in 1 .. Len(s) : j > i =>
    s[j].id # id
Said(q, id, m) == \A i \in 1 .. Len(q) : q[i].id = id => q[i].msg = m
Lone(q, id) == \A i, j \in 1 .. Len(q) : q[i].id = id /\ q[j].id = id => i = j

\* What is on its way to a client, what it shows, and what it loads.
Wires(K, G, w) ==
  /\ w \in [Topics -> Seq(Mail(K))] /\ w["message"] \in Seq(Posts(K)) /\ w["edit"] \in Seq(Posts(K))
  /\ w["delete"] \in Seq(Mail(G))
Lists(K, V, lt) ==
  /\ V \in {NoList} \cup Seq(Listed(K)) /\ lt \in Seq(Posts(K)) /\ (V = NoList => lt = <<>>)
  /\ V # NoList => Unique(V)
Loading(K, ld) ==
  /\ ld \in [Loads -> [pc : {"new", "asked", "read", "done"}, rows : Seq(Sent(K)), missed :
       SUBSET Ids]]
  /\ \A l \in Loads : Unique(ld[l].rows)

\* The event of a message is sent to a client once, and has come if the client saw it.
Told(d, c, id) == d[id].pc = "tell" /\ c \in d[id].todo
Once(d, c, q, sn, id) ==
  /\ d[id].pc \in {"none", "created"} \/ Told(d, c, id) => ~Waits(q, id) /\ id \notin sn
  /\ Lone(q, id)
  /\ Waits(q, id) => id \notin sn

\* A message that is there, as it is now, and who works on it.
Is(t, id) == t[id].st = "here"
Now(t, id) == [text |-> t[id].text, emb |-> t[id].emb]
Working(ed, id) == \E e \in Editors : ed[e].pc # "idle" /\ ed[e].id = id
Alone(ed, id) == \A e, f \in Editors :
  ed[e].pc # "idle" /\ ed[e].id = id /\ ed[f].pc # "idle" /\ ed[f].id = id => e = f
\* What the editors that read the row have to tell is what it says.
Reads(ed, id, m) == \A e \in Editors : ed[e].pc = "read" /\ ed[e].id = id => ed[e].msg = m
\* A message that a client will still be told, and what it will be told.
Coming(d, c, q, id) == d[id].pc = "created" \/ Told(d, c, id) \/ Waits(q, id)
Says(d, c, q, id, m) == (Told(d, c, id) => d[id].msg = m) /\ Said(q, id, m)
\* A deletion that a client will still be told.
Departing(dl, q, id) == dl[id] = "gone" \/ Waits(q, id)
\* What a client shows, and what a load that has read will make it show, if no event about the
\* message came since.
Views(V, ld, id) ==
  ({V} \ {NoList}) \cup
    {ld[l].rows : l \in {k \in Loads : ld[k].pc = "read" /\ id \notin ld[k].missed}}
\* A view without a message that is there has it still to come, and one with a message that is
\* not has its deletion still to come.
Sight(S, t, d, dl, c, w, id) ==
  /\ Is(t, id) /\ S = {} => Coming(d, c, w["message"], id)
  /\ S # {} /\ ~Is(t, id) => Departing(dl, w["delete"], id)
\* A view says what the row says, or will when the message comes.
Right(S, t, d, c, w, id) ==
  IF S = {} THEN Says(d, c, w["message"], id, Now(t, id)) ELSE S = {Now(t, id)}
\* What holds of a client and a message: what is newest about it among what is on its way, what
\* waits for a timer and what is shown is what the row says.
Pair(c, id, t, d, ed, dl, w, V, lt, ld, sn) ==
  /\ Alone(ed, id) /\ (Is(t, id) => Reads(ed, id, Now(t, id)))
  /\ \A X \in Views(V, ld, id) : Sight(In(X, id), t, d, dl, c, w, id)
  /\ dl[id] = "told" /\ ~Waits(w["delete"], id) => id \in sn
  /\ Is(t, id) /\ ~Working(ed, id) =>
       IF Waits(w["edit"], id) THEN LastSays(w["edit"], id, Now(t, id))
       ELSE IF Waits(lt, id) THEN LastSays(lt, id, Now(t, id))
       ELSE \A X \in Views(V, ld, id) : Right(In(X, id), t, d, c, w, id)

\* What holds of a pending item: its mutation is not through, or its event has still to come.
Debt(c, x, o, t, d, q, V) ==
  /\ o.by = c /\ o.text = x /\ o.pc # "new"
  /\ o.pc \in {"run", "answered"} =>
       /\ o.id # 0 /\ t[o.id].by = c /\ t[o.id].text = x /\ In(V, o.id) = {}
       /\ d[o.id].pc = "tell" => d[o.id].msg.text = x
       /\ \A i \in 1 .. Len(q) : q[i].id = o.id => q[i].msg.text = x
  /\ o.pc = "run" => d[o.id].pc = "failed" \/ Coming(d, c, q, o.id)
  /\ o.pc = "answered" => Waits(q, o.id)
Debts(c, t, d, o, q, V) == V # NoList =>
  /\ \A i \in 1 .. Len(V) : V[i].is = "pending" => Debt(c, V[i].text, o[V[i].tmp], t, d, q, V)
  /\ \A i, j \in 1 .. Len(V) :
       V[i].is = "pending" /\ V[j].is = "pending" /\ V[i].tmp = V[j].tmp => i = j

\* The invariant, by parts.
Domains ==
  /\ DOMAIN wire = Clients /\ DOMAIN list = Clients /\ DOMAIN late = Clients
  /\ DOMAIN load = Clients /\ DOMAIN seen = Clients /\ DOMAIN over = Clients
TablesFit ==
  /\ Rows(table, send, del) /\ Pens(Known(table), editor) /\ Mutations(Known(table), out) /\ Domains
ClientsFit == \A c \in Clients :
  /\ Wires(Known(table), Gone(table), wire[c]) /\ Lists(Known(table), list[c], late[c])
  /\ Loading(Known(table), load[c]) /\ seen[c] \subseteq Known(table)
AllOnce == \A c \in Clients, id \in Ids : Once(send, c, wire[c]["message"], seen[c], id)
AllPairs == \A c \in Clients \ cut : \A id \in Ids \ over[c] :
  Pair(c, id, table, send, editor, del, wire[c], list[c], late[c], load[c], seen[c])
AllDebts == \A c \in Clients \ (cut \cup mixed) :
  Debts(c, table, send, out, wire[c]["message"], list[c])
\* All of it.
MessageInv == TablesFit /\ ClientsFit /\ AllOnce /\ AllPairs /\ AllDebts

\* What the prover is told of Tail and Append.
LEMMA TailFits ==
  ASSUME NEW S, NEW s \in Seq(S), s # <<>>
  PROVE  /\ Head(s) = s[1] /\ Head(s) \in S /\ Len(s) \in Nat \ {0} /\ 1 \in 1 .. Len(s)
         /\ Tail(s) \in Seq(S) /\ Len(Tail(s)) = Len(s) - 1
         /\ \A i \in 1 .. Len(Tail(s)) : Tail(s)[i] = s[i + 1] /\ i + 1 \in 2 .. Len(s)
         /\ \A i \in 1 .. Len(s) : i # 1 => i - 1 \in 1 .. Len(Tail(s)) /\ s[i] = Tail(s)[i - 1]
  OBVIOUS

\* ... of Append.
LEMMA AppendFits ==
  ASSUME NEW S, NEW s \in Seq(S), NEW e \in S
  PROVE  /\ Append(s, e) \in Seq(S) /\ Len(Append(s, e)) = Len(s) + 1 /\ Len(s) \in Nat
         /\ Append(s, e)[Len(s) + 1] = e
         /\ \A i \in 1 .. Len(s) : Append(s, e)[i] = s[i] /\ i \in 1 .. Len(Append(s, e))
         /\ \A i \in 1 .. Len(Append(s, e)) : i = Len(s) + 1 \/ i \in 1 .. Len(s)
  OBVIOUS

\* The queue without its first.
LEMMA TailHears ==
  ASSUME NEW S, NEW s \in Seq(S), s # <<>>, NEW id
  PROVE  /\ Waits(Tail(s), id) => Waits(s, id)
         /\ Waits(s, id) => Waits(Tail(s), id) \/ Head(s).id = id
         /\ Lone(s, id) => Lone(Tail(s), id)
         /\ Lone(s, id) /\ Head(s).id = id => ~Waits(Tail(s), id)
<1>1. Waits(Tail(s), id) => Waits(s, id)
  <2>1. SUFFICES ASSUME NEW i \in 1 .. Len(Tail(s)), Tail(s)[i].id = id PROVE Waits(s, id)
    BY DEF Waits
  <2>2. i + 1 \in 1 .. Len(s) /\ s[i + 1].id = id
    BY <2>1, TailFits
  <2> QED
    BY <2>2 DEF Waits
<1>2. Waits(s, id) => Waits(Tail(s), id) \/ Head(s).id = id
  <2>1. SUFFICES ASSUME NEW i \in 1 .. Len(s), s[i].id = id, i # 1 PROVE Waits(Tail(s), id)
    BY TailFits DEF Waits
  <2>2. i - 1 \in 1 .. Len(Tail(s)) /\ Tail(s)[i - 1].id = id
    BY <2>1, TailFits
  <2> QED
    BY <2>2 DEF Waits
<1>3. Lone(s, id) => Lone(Tail(s), id)
  <2>1. SUFFICES ASSUME Lone(s, id), NEW i \in 1 .. Len(Tail(s)), NEW j \in 1 .. Len(Tail(s)),
                        Tail(s)[i].id = id, Tail(s)[j].id = id
                 PROVE  i = j
    BY DEF Lone
  <2>2. i + 1 \in 1 .. Len(s) /\ s[i + 1].id = id /\ j + 1 \in 1 .. Len(s) /\ s[j + 1].id = id
    BY <2>1, TailFits
  <2>3. i + 1 = j + 1
    BY <2>1, <2>2 DEF Lone
  <2> QED
    BY <2>3
<1>4. ASSUME Lone(s, id), Head(s).id = id, Waits(Tail(s), id) PROVE FALSE
  <2>1. PICK i \in 1 .. Len(Tail(s)) : Tail(s)[i].id = id
    BY <1>4 DEF Waits
  <2>2. i + 1 \in 2 .. Len(s) /\ s[i + 1].id = id /\ 1 \in 1 .. Len(s) /\ s[1].id = id
    BY <2>1, <1>4, TailFits
  <2> QED
    BY <2>2, <1>4 DEF Lone
<1> QED
  BY <1>1, <1>2, <1>3, <1>4

\* ... and what is left of what it says.
LEMMA TailSays ==
  ASSUME NEW S, NEW s \in Seq(S), s # <<>>, NEW id, NEW m
  PROVE  /\ Said(s, id, m) => Said(Tail(s), id, m)
         /\ Said(s, id, m) /\ Head(s).id = id => Head(s).msg = m
         /\ LastSays(s, id, m) /\ Waits(Tail(s), id) => LastSays(Tail(s), id, m)
         /\ LastSays(s, id, m) /\ ~Waits(Tail(s), id) => Head(s).msg = m
<1>1. ASSUME Said(s, id, m) PROVE Said(Tail(s), id, m)
  <2>1. SUFFICES ASSUME NEW i \in 1 .. Len(Tail(s)), Tail(s)[i].id = id PROVE Tail(s)[i].msg = m
    BY DEF Said
  <2>2. i + 1 \in 1 .. Len(s) /\ s[i + 1].id = id /\ Tail(s)[i] = s[i + 1]
    BY <2>1, TailFits
  <2> QED
    BY <2>2, <1>1 DEF Said
<1>2. Said(s, id, m) /\ Head(s).id = id => Head(s).msg = m
  BY TailFits DEF Said
<1>3. ASSUME LastSays(s, id, m), Waits(Tail(s), id) PROVE LastSays(Tail(s), id, m)
  <2>1. PICK i \in 1 .. Len(s) : s[i].id = id /\ s[i].msg = m /\ \A j \in 1 .. Len(s) : j > i =>
          s[j].id # id
    BY <1>3 DEF LastSays
  <2>2. PICK k \in 1 .. Len(Tail(s)) : Tail(s)[k].id = id
    BY <1>3 DEF Waits
  <2>3. k + 1 \in 2 .. Len(s) /\ s[k + 1].id = id
    BY <2>2, TailFits
  <2>4. i # 1
    BY <2>1, <2>3
  <2>5. i - 1 \in 1 .. Len(Tail(s)) /\ Tail(s)[i - 1] = s[i]
    BY <2>4, TailFits
  <2>6. ASSUME NEW j \in 1 .. Len(Tail(s)), j > i - 1 PROVE Tail(s)[j].id # id
    <3>1. Tail(s)[j] = s[j + 1] /\ j + 1 \in 1 .. Len(s)
      BY TailFits
    <3>2. j + 1 > i
      BY <2>6
    <3> QED
      BY <2>1, <3>1, <3>2
  <2> QED
    BY <2>1, <2>5, <2>6 DEF LastSays
<1>4. ASSUME LastSays(s, id, m), ~Waits(Tail(s), id) PROVE Head(s).msg = m
  <2>1. PICK i \in 1 .. Len(s) : s[i].id = id /\ s[i].msg = m
    BY <1>4 DEF LastSays
  <2>2. CASE i = 1
    BY <2>1, <2>2, TailFits
  <2>3. CASE i # 1
    <3>1. i - 1 \in 1 .. Len(Tail(s)) /\ Tail(s)[i - 1] = s[i]
      BY <2>3, TailFits
    <3> QED
      BY <2>1, <3>1, <1>4 DEF Waits
  <2> QED
    BY <2>2, <2>3
<1> QED
  BY <1>1, <1>2, <1>3, <1>4

\* ... which is about another message.
LEMMA TailSame ==
  ASSUME NEW S, NEW s \in Seq(S), s # <<>>, NEW id, Head(s).id # id, NEW m
  PROVE  /\ Waits(Tail(s), id) <=> Waits(s, id)
         /\ LastSays(s, id, m) => LastSays(Tail(s), id, m)
         /\ Said(Tail(s), id, m) <=> Said(s, id, m)
<1>1. Waits(Tail(s), id) <=> Waits(s, id)
  BY TailHears
<1>2. LastSays(s, id, m) => Waits(s, id)
  BY DEF LastSays, Waits
<1>3. LastSays(s, id, m) => LastSays(Tail(s), id, m)
  BY <1>1, <1>2, TailSays
<1>4. ASSUME Said(Tail(s), id, m) PROVE Said(s, id, m)
  <2>1. SUFFICES ASSUME NEW i \in 1 .. Len(s), s[i].id = id PROVE s[i].msg = m
    BY DEF Said
  <2>2. i # 1
    BY <2>1, TailFits
  <2>3. i - 1 \in 1 .. Len(Tail(s)) /\ s[i] = Tail(s)[i - 1]
    BY <2>2, TailFits
  <2> QED
    BY <2>1, <2>3, <1>4 DEF Said
<1> QED
  BY <1>1, <1>3, <1>4, TailSays

\* The queue with one more.
LEMMA AppendHears ==
  ASSUME NEW S, NEW s \in Seq(S), NEW e \in S, NEW id, NEW m
  PROVE  /\ Waits(Append(s, e), id) <=> Waits(s, id) \/ e.id = id
         /\ LastSays(Append(s, e), e.id, e.msg)
         /\ LastSays(s, id, m) /\ e.id # id => LastSays(Append(s, e), id, m)
         /\ Said(Append(s, e), id, m) <=> Said(s, id, m) /\ (e.id = id => e.msg = m)
         /\ Lone(s, id) /\ (e.id = id => ~Waits(s, id)) => Lone(Append(s, e), id)
<1> DEFINE t == Append(s, e)
<1>1. /\ Len(t) = Len(s) + 1 /\ Len(s) \in Nat /\ t[Len(s) + 1] = e
      /\ \A i \in 1 .. Len(s) : t[i] = s[i] /\ i \in 1 .. Len(t)
      /\ \A i \in 1 .. Len(t) : i = Len(s) + 1 \/ i \in 1 .. Len(s)
  BY AppendFits
<1>2. Len(s) + 1 \in 1 .. Len(t)
  BY <1>1
<1> HIDE DEF t
<1>3. Waits(t, id) <=> Waits(s, id) \/ e.id = id
  BY <1>1, <1>2 DEF Waits
<1>4. LastSays(t, e.id, e.msg)
  BY <1>1, <1>2 DEF LastSays
<1>5. ASSUME LastSays(s, id, m), e.id # id PROVE LastSays(t, id, m)
  <2>1. PICK i \in 1 .. Len(s) : s[i].id = id /\ s[i].msg = m /\ \A j \in 1 .. Len(s) : j > i =>
          s[j].id # id
    BY <1>5 DEF LastSays
  <2>2. ASSUME NEW j \in 1 .. Len(t), j > i PROVE t[j].id # id
    BY <2>1, <2>2, <1>1, <1>5
  <2>3. i \in 1 .. Len(t) /\ t[i] = s[i]
    BY <1>1
  <2> QED
    BY <2>1, <2>2, <2>3 DEF LastSays
<1>6. Said(t, id, m) <=> Said(s, id, m) /\ (e.id = id => e.msg = m)
  BY <1>1, <1>2 DEF Said
<1>7. ASSUME Lone(s, id), e.id = id => ~Waits(s, id) PROVE Lone(t, id)
  <2>1. SUFFICES ASSUME NEW i \in 1 .. Len(t), NEW j \in 1 .. Len(t), t[i].id = id,
                          t[j].id = id PROVE i = j
    BY DEF Lone
  <2>2. CASE i \in 1 .. Len(s) /\ j \in 1 .. Len(s)
    BY <2>1, <2>2, <1>1, <1>7 DEF Lone
  <2>3. CASE i = Len(s) + 1 \/ j = Len(s) + 1
    BY <2>1, <2>3, <1>1, <1>7 DEF Waits
  <2> QED
    BY <2>2, <2>3, <1>1
<1> QED
  BY <1>3, <1>4, <1>5, <1>6, <1>7 DEF t

\* Nothing waits in an empty queue.
LEMMA Nothing == ASSUME NEW id, NEW m PROVE ~Waits(<<>>, id) /\ Said(<<>>, id, m) /\ Lone(<<>>, id)
  BY DEF Waits, Said, Lone

\* The last one waits.
LEMMA LastWaits == ASSUME NEW s, NEW id, NEW m, LastSays(s, id, m) PROVE Waits(s, id)
  BY DEF LastSays, Waits

\* The contents that a list shows for a message.
LEMMA InSame ==
  ASSUME NEW V, NEW W, NEW id,
         \A i \in 1 .. Len(V) : V[i].id = id =>
           \E j \in 1 .. Len(W) : W[j].id = id /\ W[j].text = V[i].text /\ W[j].emb = V[i].emb,
         \A j \in 1 .. Len(W) : W[j].id = id =>
           \E i \in 1 .. Len(V) : V[i].id = id /\ W[j].text = V[i].text /\ W[j].emb = V[i].emb
  PROVE  In(V, id) = In(W, id)
<1>1. ASSUME NEW m \in In(V, id) PROVE m \in In(W, id)
  <2>1. PICK i \in 1 .. Len(V) : V[i].id = id /\ m = [text |-> V[i].text, emb |-> V[i].emb]
    BY <1>1 DEF In
  <2>2. PICK j \in 1 .. Len(W) : W[j].id = id /\ W[j].text = V[i].text /\ W[j].emb = V[i].emb
    BY <2>1
  <2> QED
    BY <2>1, <2>2 DEF In
<1>2. ASSUME NEW m \in In(W, id) PROVE m \in In(V, id)
  <2>1. PICK j \in 1 .. Len(W) : W[j].id = id /\ m = [text |-> W[j].text, emb |-> W[j].emb]
    BY <1>2 DEF In
  <2>2. PICK i \in 1 .. Len(V) : V[i].id = id /\ W[j].text = V[i].text /\ W[j].emb = V[i].emb
    BY <2>1
  <2> QED
    BY <2>1, <2>2 DEF In
<1> QED
  BY <1>1, <1>2

\* A list without a message, and one with it.
LEMMA InNone ==
  ASSUME NEW V, NEW id
  PROVE  In(V, id) = {} <=> \A i \in 1 .. Len(V) : V[i].id # id
  BY DEF In

\* A list without repetitions shows one content.
LEMMA InOne ==
  ASSUME NEW V, Unique(V), NEW id, id # 0, NEW k \in 1 .. Len(V), V[k].id = id
  PROVE  In(V, id) = {[text |-> V[k].text, emb |-> V[k].emb]}
  BY DEF In, Unique

\* A list with a new first item.
LEMMA InFront ==
  ASSUME NEW S, NEW V \in Seq(S), NEW x \in S
  PROVE  /\ <<x>> \o V \in Seq(S) /\ Len(<<x>> \o V) = Len(V) + 1 /\ Len(V) \in Nat
         /\ (<<x>> \o V)[1] = x /\ 1 \in 1 .. Len(<<x>> \o V)
         /\ \A i \in 1 .. Len(V) : (<<x>> \o V)[i + 1] = V[i] /\ i + 1 \in 2 .. Len(<<x>> \o V)
         /\ \A i \in 1 .. Len(<<x>> \o V) : i = 1 \/
              (i - 1 \in 1 .. Len(V) /\ (<<x>> \o V)[i] = V[i - 1])
<1> DEFINE W == <<x>> \o V
<1>1. <<x>> \in Seq(S) /\ Len(<<x>>) = 1 /\ <<x>>[1] = x
  OBVIOUS
<1>2. W \in Seq(S) /\ Len(W) = Len(V) + 1 /\ Len(V) \in Nat
  BY <1>1
<1>3. W[1] = x /\ 1 \in 1 .. Len(W)
  BY <1>1, <1>2
<1>4. ASSUME NEW i \in 1 .. Len(W), i # 1 PROVE i - 1 \in 1 .. Len(V) /\ W[i] = V[i - 1]
  BY <1>1, <1>2, <1>4
<1> HIDE DEF W
<1>5. ASSUME NEW i \in 1 .. Len(V) PROVE W[i + 1] = V[i] /\ i + 1 \in 2 .. Len(W)
  <2>1. i + 1 \in 1 .. Len(W) /\ i + 1 # 1 /\ (i + 1) - 1 = i
    BY <1>2
  <2> QED
    BY <2>1, <1>4
<1>6. \A i \in 1 .. Len(W) : i = 1 \/ (i - 1 \in 1 .. Len(V) /\ W[i] = V[i - 1])
  BY <1>4
<1>7. \A i \in 1 .. Len(V) : W[i + 1] = V[i] /\ i + 1 \in 2 .. Len(W)
  BY <1>5
<1> QED
  BY ONLY <1>2, <1>3, <1>6, <1>7 DEF W

\* ... and what it shows.
LEMMA FrontShows ==
  ASSUME NEW S, NEW V \in Seq(S), NEW x \in S, NEW id
  PROVE  /\ x.id # id => In(<<x>> \o V, id) = In(V, id)
         /\ x.id = id /\ In(V, id) = {} => In(<<x>> \o V, id) = {[text |-> x.text, emb |-> x.emb]}
         /\ Unique(V) /\ (x.id # 0 => In(V, x.id) = {}) => Unique(<<x>> \o V)
<1> DEFINE W == <<x>> \o V
<1>1. /\ W[1] = x /\ 1 \in 1 .. Len(W)
      /\ \A i \in 1 .. Len(V) : W[i + 1] = V[i] /\ i + 1 \in 2 .. Len(W)
      /\ \A i \in 1 .. Len(W) : i = 1 \/ (i - 1 \in 1 .. Len(V) /\ W[i] = V[i - 1])
      /\ Len(W) \in Nat /\ Len(V) \in Nat
  BY InFront
<1> HIDE DEF W
<1>2. ASSUME x.id # id PROVE In(W, id) = In(V, id)
  <2>1. \A i \in 1 .. Len(V) : V[i].id = id =>
          \E j \in 1 .. Len(W) : W[j].id = id /\ W[j].text = V[i].text /\ W[j].emb = V[i].emb
    <3>1. SUFFICES ASSUME NEW i \in 1 .. Len(V), V[i].id = id
                   PROVE  \E j \in 1 .. Len(W) : W[j].id = id /\ W[j].text = V[i].text /\
                            W[j].emb = V[i].emb
      OBVIOUS
    <3>2. W[i + 1] = V[i] /\ i + 1 \in 1 .. Len(W)
      BY <1>1
    <3> QED
      BY <3>1, <3>2
  <2>2. \A j \in 1 .. Len(W) : W[j].id = id =>
          \E i \in 1 .. Len(V) : V[i].id = id /\ W[j].text = V[i].text /\ W[j].emb = V[i].emb
    <3>1. SUFFICES ASSUME NEW j \in 1 .. Len(W), W[j].id = id
                   PROVE  \E i \in 1 .. Len(V) : V[i].id = id /\ W[j].text = V[i].text /\
                            W[j].emb = V[i].emb
      OBVIOUS
    <3>2. j # 1
      BY <3>1, <1>1, <1>2
    <3>3. j - 1 \in 1 .. Len(V) /\ W[j] = V[j - 1]
      BY <3>2, <1>1
    <3> QED
      BY <3>1, <3>3
  <2> QED
    BY <2>1, <2>2, InSame
<1>3. ASSUME Unique(V), x.id # 0 => In(V, x.id) = {} PROVE Unique(W)
  <2>1. SUFFICES ASSUME NEW i \in 1 .. Len(W), NEW j \in 1 .. Len(W), W[i].id = W[j].id, W[i].id # 0
                 PROVE  i = j
    BY DEF Unique
  <2>2. ASSUME NEW k \in 1 .. Len(W), k # 1 PROVE x.id # 0 => W[k].id # x.id
    <3>1. k - 1 \in 1 .. Len(V) /\ W[k] = V[k - 1]
      BY <2>2, <1>1
    <3>2. ASSUME x.id # 0 PROVE V[k - 1].id # x.id
      BY <3>1, <3>2, <1>3, InNone
    <3> QED
      BY <3>1, <3>2
  <2>3. CASE i = 1 \/ j = 1
    BY <2>1, <2>2, <2>3, <1>1
  <2>4. CASE i # 1 /\ j # 1
    <3>1. i - 1 \in 1 .. Len(V) /\ W[i] = V[i - 1] /\ j - 1 \in 1 .. Len(V) /\ W[j] = V[j - 1]
      BY <2>4, <1>1
    <3>2. i - 1 = j - 1
      BY <3>1, <2>1, <1>3 DEF Unique
    <3> QED
      BY <3>2
  <2> QED
    BY <2>3, <2>4
<1>4. ASSUME x.id = id, In(V, id) = {} PROVE In(W, id) = {[text |-> x.text, emb |-> x.emb]}
  <2>1. \A j \in 1 .. Len(W) : W[j].id = id => j = 1
    <3>1. SUFFICES ASSUME NEW j \in 1 .. Len(W), W[j].id = id, j # 1 PROVE FALSE
      OBVIOUS
    <3>2. j - 1 \in 1 .. Len(V) /\ W[j] = V[j - 1]
      BY <3>1, <1>1
    <3> QED
      BY <3>1, <3>2, <1>4, InNone
  <2>2. {j \in 1 .. Len(W) : W[j].id = id} = {1}
    BY <2>1, <1>1, <1>4
  <2> QED
    BY <2>2, <1>1 DEF In
<1> QED
  BY <1>2, <1>3, <1>4 DEF W

\* A list without its k-th item.
LEMMA InCut ==
  ASSUME NEW S, NEW V \in Seq(S), NEW k \in 1 .. Len(V)
  PROVE  /\ RemoveAt(V, k) \in Seq(S) /\ Len(RemoveAt(V, k)) = Len(V) - 1 /\ Len(V) \in Nat
         /\ \A i \in 1 .. Len(V) : i < k => RemoveAt(V, k)[i] = V[i] /\
              i \in 1 .. Len(RemoveAt(V, k))
         /\ \A i \in 1 .. Len(V) : i > k => RemoveAt(V, k)[i - 1] = V[i] /\
              i - 1 \in 1 .. Len(RemoveAt(V, k))
         /\ \A i \in 1 .. Len(RemoveAt(V, k)) :
              \/ i < k /\ i \in 1 .. Len(V) /\ RemoveAt(V, k)[i] = V[i]
              \/ i >= k /\ i + 1 \in 1 .. Len(V) /\ RemoveAt(V, k)[i] = V[i + 1]
<1> DEFINE A == SubSeq(V, 1, k - 1)
           B == SubSeq(V, k + 1, Len(V))
           W == A \o B
<1>1. Len(V) \in Nat /\ k \in Nat /\ 1 <= k /\ k <= Len(V)
  OBVIOUS
<1>2. A \in Seq(S) /\ Len(A) = k - 1 /\ \A i \in 1 .. k - 1 : A[i] = V[i]
  BY <1>1
<1>3. B \in Seq(S) /\ Len(B) = Len(V) - k /\ \A i \in 1 .. Len(V) - k : B[i] = V[i + k]
  BY <1>1
<1> HIDE DEF A, B
<1>4. W \in Seq(S) /\ Len(W) = Len(V) - 1
  <2>1. W \in Seq(S)
    BY <1>2, <1>3
  <2>2. Len(W) = Len(A) + Len(B)
    BY <1>2, <1>3, ConcatProperties
  <2> QED
    BY <2>1, <2>2, <1>1, <1>2, <1>3
<1>5. \A i \in 1 .. Len(W) : W[i] = IF i <= k - 1 THEN A[i] ELSE B[i - (k - 1)]
  BY <1>1, <1>2, <1>3
<1>6. RemoveAt(V, k) = W
  BY DEF RemoveAt, A, B
<1> HIDE DEF W
<1>7. ASSUME NEW i \in 1 .. Len(V), i < k PROVE W[i] = V[i] /\ i \in 1 .. Len(W)
  <2>1. i \in 1 .. Len(W) /\ i <= k - 1 /\ i \in 1 .. k - 1
    BY <1>7, <1>1, <1>4
  <2> QED
    BY <2>1, <1>5, <1>2
<1>8. ASSUME NEW i \in 1 .. Len(V), i > k PROVE W[i - 1] = V[i] /\ i - 1 \in 1 .. Len(W)
  <2>1. i - 1 \in 1 .. Len(W) /\ ~(i - 1 <= k - 1) /\ (i - 1) - (k - 1) \in 1 .. Len(V) - k
        /\ ((i - 1) - (k - 1)) + k = i
    BY <1>8, <1>1, <1>4
  <2> QED
    BY <2>1, <1>5, <1>3
<1>9. ASSUME NEW i \in 1 .. Len(W)
      PROVE  \/ i < k /\ i \in 1 .. Len(V) /\ W[i] = V[i]
             \/ i >= k /\ i + 1 \in 1 .. Len(V) /\ W[i] = V[i + 1]
  <2>1. i < k \/ i >= k
    BY <1>1, <1>4
  <2>2. CASE i < k
    BY <2>2, <1>1, <1>4, <1>7
  <2>3. CASE i >= k
    <3>1. i + 1 \in 1 .. Len(V) /\ i + 1 > k /\ (i + 1) - 1 = i
      BY <2>3, <1>1, <1>4
    <3> QED
      BY <3>1, <2>3, <1>8
  <2> QED
    BY <2>1, <2>2, <2>3
<1> QED
  BY <1>1, <1>4, <1>6, <1>7, <1>8, <1>9

\* Its places are places of the whole.
LEMMA CutFrom ==
  ASSUME NEW S, NEW V \in Seq(S), NEW k \in 1 .. Len(V)
  PROVE  \E f \in [1 .. Len(RemoveAt(V, k)) -> (1 .. Len(V)) \ {k}] :
           /\ \A i \in 1 .. Len(RemoveAt(V, k)) : RemoveAt(V, k)[i] = V[f[i]]
           /\ \A i, j \in 1 .. Len(RemoveAt(V, k)) : f[i] = f[j] => i = j
           /\ \A i \in (1 .. Len(V)) \ {k} : \E j \in 1 .. Len(RemoveAt(V, k)) : f[j] = i
<1> DEFINE W == RemoveAt(V, k)
           f == [i \in 1 .. Len(W) |-> IF i < k THEN i ELSE i + 1]
<1>1. /\ \A i \in 1 .. Len(V) : i < k => i \in 1 .. Len(W)
      /\ \A i \in 1 .. Len(V) : i > k => i - 1 \in 1 .. Len(W)
      /\ \A i \in 1 .. Len(W) :
           \/ i < k /\ i \in 1 .. Len(V) /\ W[i] = V[i]
           \/ i >= k /\ i + 1 \in 1 .. Len(V) /\ W[i] = V[i + 1]
      /\ Len(W) = Len(V) - 1 /\ Len(V) \in Nat
  BY InCut
<1> HIDE DEF W
<1>2. f \in [1 .. Len(W) -> (1 .. Len(V)) \ {k}]
  BY <1>1
<1>3. \A i \in 1 .. Len(W) : W[i] = V[f[i]]
  BY <1>1
<1>4. \A i, j \in 1 .. Len(W) : f[i] = f[j] => i = j
  BY <1>1
<1>5. ASSUME NEW i \in (1 .. Len(V)) \ {k} PROVE \E j \in 1 .. Len(W) : f[j] = i
  <2>1. CASE i < k
    BY <2>1, <1>1
  <2>2. CASE i > k
    <3>1. i - 1 \in 1 .. Len(W) /\ ~(i - 1 < k)
      BY <2>2, <1>1
    <3>2. f[i - 1] = i
      BY <3>1, <1>1
    <3> QED
      BY <3>1, <3>2
  <2> QED
    BY <2>1, <2>2
<1> QED
  BY <1>2, <1>3, <1>4, <1>5 DEF W

\* ... and what it shows.
LEMMA CutShows ==
  ASSUME NEW S, NEW V \in Seq(S), NEW k \in 1 .. Len(V), NEW id
  PROVE  /\ V[k].id # id => In(RemoveAt(V, k), id) = In(V, id)
         /\ V[k].id = id /\ id # 0 /\ Unique(V) => In(RemoveAt(V, k), id) = {}
         /\ Unique(V) => Unique(RemoveAt(V, k))
<1> DEFINE W == RemoveAt(V, k)
<1>1. PICK f \in [1 .. Len(W) -> (1 .. Len(V)) \ {k}] :
        /\ \A i \in 1 .. Len(W) : W[i] = V[f[i]]
        /\ \A i, j \in 1 .. Len(W) : f[i] = f[j] => i = j
        /\ \A i \in (1 .. Len(V)) \ {k} : \E j \in 1 .. Len(W) : f[j] = i
  BY CutFrom
<1> HIDE DEF W
<1>2. ASSUME V[k].id # id PROVE In(W, id) = In(V, id)
  <2>1. ASSUME NEW i \in 1 .. Len(V), V[i].id = id
        PROVE  \E j \in 1 .. Len(W) : W[j].id = id /\ W[j].text = V[i].text /\ W[j].emb = V[i].emb
    <3>1. i \in (1 .. Len(V)) \ {k}
      BY <2>1, <1>2
    <3>2. PICK j \in 1 .. Len(W) : f[j] = i
      BY <3>1, <1>1
    <3>3. W[j] = V[i]
      BY <3>2, <1>1
    <3> QED
      BY <2>1, <3>3
  <2>2. ASSUME NEW j \in 1 .. Len(W), W[j].id = id
        PROVE  \E i \in 1 .. Len(V) : V[i].id = id /\ W[j].text = V[i].text /\ W[j].emb = V[i].emb
    <3>1. f[j] \in 1 .. Len(V) /\ W[j] = V[f[j]]
      BY <1>1
    <3> QED
      BY <2>2, <3>1
  <2> QED
    BY <2>1, <2>2, InSame
<1>3. ASSUME V[k].id = id, id # 0, Unique(V) PROVE In(W, id) = {}
  <2>1. ASSUME NEW i \in 1 .. Len(W), W[i].id = id PROVE FALSE
    <3>1. f[i] \in (1 .. Len(V)) \ {k} /\ V[f[i]].id = id
      BY <2>1, <1>1
    <3> QED
      BY <3>1, <1>3 DEF Unique
  <2> QED
    BY <2>1, InNone
<1>4. ASSUME Unique(V) PROVE Unique(W)
  <2>1. SUFFICES ASSUME NEW i \in 1 .. Len(W), NEW j \in 1 .. Len(W), W[i].id = W[j].id, W[i].id # 0
                 PROVE  i = j
    BY DEF Unique
  <2>2. f[i] \in 1 .. Len(V) /\ f[j] \in 1 .. Len(V) /\ V[f[i]].id = V[f[j]].id /\ V[f[i]].id # 0
    BY <2>1, <1>1
  <2>3. f[i] = f[j]
    BY <2>2, <1>4 DEF Unique
  <2> QED
    BY <2>3, <1>1
<1> QED
  BY <1>2, <1>3, <1>4 DEF W

\* A list with one item of the same message replaced, or marked.
LEMMA PatchShows ==
  ASSUME NEW V, NEW W, Len(W) = Len(V), NEW id,
         \A i \in 1 .. Len(V) : W[i].id = V[i].id,
         \A i \in 1 .. Len(V) : V[i].id = id => W[i].text = V[i].text /\ W[i].emb = V[i].emb
  PROVE  In(W, id) = In(V, id) /\ (Unique(V) => Unique(W))
<1>1. In(V, id) = In(W, id)
  BY InSame
<1>2. Unique(V) => Unique(W)
  BY DEF Unique
<1> QED
  BY <1>1, <1>2

\* Has and At of the model, in these terms.
LEMMA HasIn ==
  ASSUME NEW c, NEW id
  PROVE  Has(c, id) <=> list[c] # NoList /\ In(list[c], id) # {}
  BY InNone DEF Has

\* The place of a message.
LEMMA AtFits ==
  ASSUME NEW c, NEW id, Has(c, id)
  PROVE  At(c, id) \in 1 .. Len(list[c]) /\ list[c][At(c, id)].id = id
  BY DEF Has, At

\* A set of naturals has a least element.
LEMMA Smallest ==
  ASSUME NEW J \in SUBSET Nat, J # {}
  PROVE  \E x \in J : \A y \in J : x <= y
<1> DEFINE Less == OpToRel(<, Nat)
<1>1. IsWellFoundedOn(Less, Nat)
  BY NatLessThanWellFounded
<1>2. \A x, y \in Nat : <<y, x>> \in Less <=> y < x
  BY DEF OpToRel
<1> HIDE DEF Less
<1>3. PICK x \in J : \A y \in J : ~(<<y, x>> \in Less)
  BY <1>1, WFMin
<1>4. ASSUME NEW y \in J PROVE x <= y
  <2>1. x \in Nat /\ y \in Nat /\ <<y, x>> \notin Less
    BY <1>3
  <2> QED
    BY <1>2, <2>1
<1> QED
  BY <1>4

\* The place that a new message takes.
LEMMA PlaceFits ==
  ASSUME NEW c, NEW S, list[c] \in Seq(S), NEW m
  PROVE  /\ Place(c, m) = 0 =>
              \A i \in 1 .. Len(list[c]) : list[c][i].is = "pending" => list[c][i].text # m.text
         /\ Place(c, m) # 0 =>
              /\ Place(c, m) \in 1 .. Len(list[c])
              /\ list[c][Place(c, m)].is = "pending" /\ list[c][Place(c, m)].text = m.text
<1> DEFINE same == {i \in 1 .. Len(list[c]) : list[c][i].is = "pending" /\ list[c][i].text = m.text}
           k == CHOOSE i \in same : \A j \in same : i <= j
<1>1. Place(c, m) = IF same = {} THEN 0 ELSE k
  BY DEF Place
<1>2. same \in SUBSET Nat /\ same \subseteq 1 .. Len(list[c]) /\ 0 \notin same
  OBVIOUS
<1>3. ASSUME same # {} PROVE k \in same
  <2>1. \E i \in same : \A j \in same : i <= j
    <3> HIDE DEF same
    <3> QED
      BY <1>2, <1>3, Smallest
  <2> QED
    BY <2>1
<1> HIDE DEF k
<1> QED
  BY <1>1, <1>2, <1>3

\* The page that a load reads is a recursive function: there is a function that satisfies the
\* recursion up to any place, for otherwise there would be a first place without.
RowAt(n, h) == IF n = 0 THEN <<>>
              ELSE IF Here(n) THEN <<Shown(n, Content(n))>> \o h[n - 1] ELSE h[n - 1]

\* So the page satisfies the recursion.
LEMMA PageIs ==
  ASSUME MaxRows \in Nat
  PROVE  \E upTo : /\ Page = upTo[MaxRows]
                   /\ \A n \in 0 .. MaxRows : upTo[n] = RowAt(n, upTo)
<1> DEFINE Until(k, h) == h = [n \in 0 .. k |-> RowAt(n, h)]
           J == {k \in 0 .. MaxRows : ~\E h : Until(k, h)}
<1>1. J = {}
  <2>1. SUFFICES ASSUME J # {} PROVE FALSE
    OBVIOUS
  <2>2. PICK k \in J : \A j \in J : k <= j
    <3>1. J \in SUBSET Nat
      OBVIOUS
    <3> HIDE DEF J
    <3> QED
      BY <2>1, <3>1, Smallest
  <2>3. k \in 0 .. MaxRows /\ ~\E h : Until(k, h)
    OBVIOUS
  <2>4. CASE k = 0
    <3> DEFINE h == [n \in 0 .. 0 |-> <<>>]
    <3>1. h = [n \in 0 .. 0 |-> RowAt(n, h)]
      BY DEF RowAt
    <3> QED
      BY <2>3, <2>4, <3>1
  <2>5. CASE k # 0
    <3>1. k - 1 \in 0 .. MaxRows /\ k - 1 \notin J
      BY <2>2, <2>3, <2>5
    <3>2. PICK h : Until(k - 1, h)
      BY <3>1
    <3> DEFINE g == [n \in 0 .. k |-> IF n = k THEN RowAt(k, h) ELSE h[n]]
    <3>3. \A n \in 0 .. (k - 1) : h[n] = RowAt(n, h)
      BY <3>2
    <3>4. ASSUME NEW n \in 0 .. k PROVE g[n] = RowAt(n, g)
      <4>1. n # 0 => n - 1 \in 0 .. k /\ n - 1 # k /\ g[n - 1] = h[n - 1]
        BY <2>3
      <4>2. RowAt(n, g) = RowAt(n, h)
        BY <4>1 DEF RowAt
      <4>3. n # k => n \in 0 .. (k - 1)
        BY <2>3
      <4> QED
        BY <4>2, <4>3, <3>3
    <3>5. \A n \in 0 .. k : g[n] = RowAt(n, g)
      BY <3>4
    <3>6. g = [n \in 0 .. k |-> g[n]]
      OBVIOUS
    <3> HIDE DEF g
    <3>7. Until(k, g)
      BY <3>5, <3>6
    <3> QED
      BY <2>3, <3>7
  <2> QED
    BY <2>4, <2>5
<1>2. \E h : Until(MaxRows, h)
  BY <1>1
<1> DEFINE Filled(h) == [n \in 0 .. MaxRows |-> RowAt(n, h)]
           upTo == CHOOSE h : h = Filled(h)
<1>3. upTo = Filled(upTo)
  <2>1. \E h : h = Filled(h)
    BY <1>2
  <2> HIDE DEF Filled
  <2> QED
    BY <2>1
<1>4. Page = upTo[MaxRows]
  BY DEF Page, RowAt
<1> HIDE DEF upTo
<1> QED
  BY <1>3, <1>4

\* The page shows the rows that are there, each once and as it is.
LEMMA PageFits ==
  ASSUME MaxRows \in Nat, Rows(table, send, del)
  PROVE  /\ Page \in Seq(Sent(Known(table))) /\ Unique(Page)
         /\ \A id \in Ids : In(Page, id) = IF Here(id) THEN {Content(id)} ELSE {}
<1>1. PICK upTo : /\ Page = upTo[MaxRows]
                  /\ \A n \in 0 .. MaxRows : upTo[n] = RowAt(n, upTo)
  BY PageIs
<1> DEFINE S == Sent(Known(table))
           PagedTo(n) == /\ upTo[n] \in Seq(S) /\ Unique(upTo[n])
                         /\ \A id \in Ids : In(upTo[n], id) = IF Here(id) /\
                              id <= n THEN {Content(id)} ELSE {}
           J == {n \in 0 .. MaxRows : ~PagedTo(n)}
<1>2. PagedTo(0)
  <2>1. upTo[0] = <<>>
    <3>1. 0 \in 0 .. MaxRows
      OBVIOUS
    <3> QED
      BY <3>1, <1>1 DEF RowAt
  <2>2. Len(<<>>) = 0 /\ <<>> \in Seq(S) /\ 1 .. 0 = {}
    OBVIOUS
  <2>3. Unique(<<>>) /\ \A id : In(<<>>, id) = {}
    BY <2>2, InNone DEF Unique
  <2>4. \A id \in Ids : ~(id <= 0)
    BY DEF Ids
  <2> QED
    BY <2>1, <2>2, <2>3, <2>4
<1>3. ASSUME NEW n \in 0 .. MaxRows, n # 0, PagedTo(n - 1) PROVE PagedTo(n)
  <2>1. n \in Ids /\ n # 0 /\ n \in Nat /\ n - 1 < n
    BY <1>3 DEF Ids
  <2>2. CASE ~Here(n)
    <3>1. upTo[n] = upTo[n - 1]
      BY <1>1, <1>3, <2>2 DEF RowAt
    <3>2. \A id \in Ids : Here(id) /\ id <= n <=> Here(id) /\ id <= n - 1
      BY <2>1, <2>2 DEF Ids
    <3> QED
      BY <3>1, <3>2, <1>3
  <2>3. CASE Here(n)
    <3> DEFINE x == Shown(n, Content(n))
    <3>1. upTo[n] = <<x>> \o upTo[n - 1]
      BY <1>1, <1>3, <2>3 DEF RowAt
    <3>2. table[n].st = "here" /\ table[n].text \in Texts /\ table[n].emb \in BOOLEAN
      BY <2>1, <2>3 DEF Here, Rows
    <3>3. x \in S /\ x.id = n /\ [text |-> x.text, emb |-> x.emb] = Content(n)
      BY <2>1, <3>2 DEF Shown, Content, Sent, Known
    <3>4. In(upTo[n - 1], n) = {}
      <4>1. ~(n <= n - 1)
        BY <2>1
      <4> QED
        BY <1>3, <2>1, <4>1
    <3>9. upTo[n - 1] \in Seq(S) /\ Unique(upTo[n - 1])
      BY <1>3
    <3> HIDE DEF S, x
    <3> DEFINE V == upTo[n - 1]
    <3>11. V \in Seq(S) /\ x \in S
      BY <3>9, <3>3
    <3>12. In(V, x.id) = {}
      BY <3>3, <3>4
    <3> HIDE DEF V
    <3>13. Unique(<<x>> \o V) /\ In(<<x>> \o V, x.id) = {[text |-> x.text, emb |-> x.emb]}
      <4>1. Unique(V)
        BY <3>9 DEF V
      <4> QED
        BY <4>1, <3>11, <3>12, FrontShows
    <3>5. upTo[n] \in Seq(S)
      BY <3>1, <3>3, <3>9, InFront
    <3>6. Unique(upTo[n])
      BY <3>1, <3>13 DEF V
    <3>7. In(upTo[n], n) = {Content(n)}
      BY <3>1, <3>13, <3>3 DEF V
    <3>8. ASSUME NEW id \in Ids, id # n
          PROVE  In(upTo[n], id) = IF Here(id) /\ id <= n THEN {Content(id)} ELSE {}
      <4>1. In(upTo[n], id) = In(upTo[n - 1], id)
        BY <3>1, <3>3, <3>8, <3>9, FrontShows
      <4>2. id <= n <=> id <= n - 1
        BY <3>8, <2>1 DEF Ids
      <4> QED
        BY <4>1, <4>2, <1>3
    <3>10. \A id \in Ids : In(upTo[n], id) = IF Here(id) /\ id <= n THEN {Content(id)} ELSE {}
      BY <3>7, <3>8, <2>1, <2>3
    <3> QED
      BY <3>5, <3>6, <3>10
  <2> QED
    BY <2>2, <2>3
<1>4. J = {}
  <2>1. SUFFICES ASSUME J # {} PROVE FALSE
    OBVIOUS
  <2>2. PICK n \in J : \A j \in J : n <= j
    <3>1. J \in SUBSET Nat
      OBVIOUS
    <3> HIDE DEF J
    <3> QED
      BY <2>1, <3>1, Smallest
  <2>3. n \in 0 .. MaxRows /\ ~PagedTo(n)
    OBVIOUS
  <2>4. n # 0
    BY <2>3, <1>2
  <2>5. n - 1 \in 0 .. MaxRows /\ n - 1 \notin J
    <3>1. n \in Nat /\ n - 1 \in 0 .. MaxRows /\ ~(n <= n - 1)
      BY <2>3, <2>4
    <3> HIDE DEF J
    <3> QED
      BY <2>2, <3>1
  <2>6. PagedTo(n - 1)
    BY <2>5
  <2> HIDE DEF PagedTo
  <2> QED
    BY <2>3, <2>4, <2>6, <1>3
<1>5. PagedTo(MaxRows)
  <2>1. MaxRows \in 0 .. MaxRows
    OBVIOUS
  <2>2. MaxRows \notin J
    BY <1>4
  <2> QED
    BY <2>1, <2>2
<1>6. \A id \in Ids : id <= MaxRows
  BY DEF Ids
<1> QED
  BY <1>1, <1>5, <1>6

\* Sequences over more.
LEMMA SeqGrows == ASSUME NEW S, NEW J, S \subseteq J PROVE Seq(S) \subseteq Seq(J)
  OBVIOUS

\* An identifier is not 0.
LEMMA IdsAre == ASSUME NEW id \in Ids PROVE id \in Nat /\ id # 0
  BY DEF Ids

\* What is listed is an item of the model.
LEMMA ListedIsItems ==
  ASSUME NEW K \in SUBSET Ids
  PROVE  Listed(K) \subseteq Items /\ Sent(K) \subseteq Listed(K)
  BY DEF Listed, Sent, Own, Items

\* What the proof uses of the constants.
LEMMA ConstantsAre ==
  ASSUME MessagesAssumption
  PROVE  /\ MaxRows \in Nat /\ \A K \in SUBSET Ids : NoList \notin Seq(Listed(K)) /\
              NoList \notin Seq(Sent(K))
<1>1. MaxRows \in Nat /\ NoList \notin Seq(Items)
  BY DEF MessagesAssumption
<1>2. ASSUME NEW K \in SUBSET Ids
      PROVE  Seq(Listed(K)) \subseteq Seq(Items) /\ Seq(Sent(K)) \subseteq Seq(Items)
  <2>1. Listed(K) \subseteq Items /\ Sent(K) \subseteq Items
    BY ListedIsItems
  <2> QED
    BY <2>1, SeqGrows
<1> QED
  BY <1>1, <1>2

\* What is known is an identifier.
LEMMA KnownAre == ASSUME NEW t PROVE Known(t) \subseteq Ids /\ Gone(t) \subseteq Known(t)
  BY DEF Known, Gone

\* The topics.
LEMMA TopicsAre == Topics = {"message", "edit", "delete"} /\ "message" \in Topics /\
  "edit" \in Topics /\ "delete" \in Topics
  BY DEF Topics

\* What a queue or a list of what is known does not hold.
LEMMA Unheard ==
  ASSUME NEW K, NEW s, s \in Seq(Posts(K)) \/ s \in Seq(Mail(K)), NEW id, id \notin K
  PROVE  ~Waits(s, id)
<1>1. ASSUME NEW i \in 1 .. Len(s) PROVE s[i].id \in K
  <2>1. CASE s \in Seq(Posts(K))
    <3>1. s[i] \in Posts(K)
      BY <2>1
    <3> QED
      BY <3>1 DEF Posts
  <2>2. CASE s \in Seq(Mail(K))
    <3>1. s[i] \in Mail(K)
      BY <2>2
    <3> QED
      BY <3>1 DEF Mail
  <2> QED
    BY <2>1, <2>2
<1> QED
  BY <1>1 DEF Waits

\* ... nor does a list.
LEMMA Unlisted ==
  ASSUME NEW K, NEW V \in Seq(Listed(K)), NEW id, id \notin K, id # 0
  PROVE  In(V, id) = {}
<1>1. ASSUME NEW i \in 1 .. Len(V) PROVE V[i].id # id
  <2>1. V[i] \in Listed(K)
    OBVIOUS
  <2> QED
    BY <2>1 DEF Listed, Sent, Own
<1> QED
  BY <1>1, InNone

\* Every view is a list without repetitions.
LEMMA ViewsAre ==
  ASSUME NEW K \in SUBSET Ids, NEW V, NEW lt, NEW ld, NEW id, Lists(K, V, lt), Loading(K, ld),
           NEW X \in Views(V, ld, id)
  PROVE  X \in Seq(Listed(K)) /\ Unique(X)
<1>1. CASE X = V /\ V # NoList
  BY <1>1 DEF Lists
<1>2. CASE \E l \in Loads : X = ld[l].rows
  <2>1. PICK l \in Loads : X = ld[l].rows
    BY <1>2
  <2>2. X \in Seq(Sent(K)) /\ Unique(X)
    BY <2>1 DEF Loading
  <2> QED
    BY <2>2, ListedIsItems, SeqGrows
<1> QED
  BY <1>1, <1>2 DEF Views

\* Of a message that was never created nobody has heard.
LEMMA Blank ==
  ASSUME NEW K \in SUBSET Ids, NEW G \in SUBSET K, NEW w, NEW V, NEW lt, NEW ld, NEW sn,
         Wires(K, G, w), Lists(K, V, lt), Loading(K, ld), sn \subseteq K,
         NEW id \in Ids, id \notin K
  PROVE  /\ ~Waits(w["message"], id) /\ ~Waits(w["edit"], id) /\ ~Waits(w["delete"], id)
         /\ ~Waits(lt, id) /\ id \notin sn /\ \A X \in Views(V, ld, id) : In(X, id) = {}
<1>1. ~Waits(w["message"], id) /\ ~Waits(w["edit"], id)
  BY Unheard DEF Wires
<1>2. ~Waits(w["delete"], id)
  <2>1. w["delete"] \in Seq(Mail(G)) /\ id \notin G
    BY DEF Wires
  <2> QED
    BY <2>1, Unheard
<1>3. ~Waits(lt, id)
  BY Unheard DEF Lists
<1>4. ASSUME NEW X \in Views(V, ld, id) PROVE In(X, id) = {}
  <2>1. X \in Seq(Listed(K)) /\ id # 0
    BY ViewsAre, IdsAre
  <2> QED
    BY <2>1, Unlisted
<1> QED
  BY <1>1, <1>2, <1>3, <1>4

\* Two queues that say the same of a message.
SameAbout(q, p, id) ==
  /\ Waits(p, id) <=> Waits(q, id)
  /\ \A m : (LastSays(q, id, m) => LastSays(p, id, m)) /\ (Said(q, id, m) => Said(p, id, m))

\* Taking or adding an event changes nothing for the other messages.
LEMMA TailAlike ==
  ASSUME NEW S, NEW s \in Seq(S), s # <<>>, NEW id, Head(s).id # id PROVE SameAbout(s, Tail(s), id)
<1>1. Waits(Tail(s), id) <=> Waits(s, id)
  BY TailSame
<1>2. ASSUME NEW m
      PROVE  (LastSays(s, id, m) => LastSays(Tail(s), id, m)) /\
               (Said(s, id, m) => Said(Tail(s), id, m))
  BY TailSame
<1> QED
  BY <1>1, <1>2 DEF SameAbout

\* ... adding one.
LEMMA AppendAlike ==
  ASSUME NEW S, NEW s \in Seq(S), NEW e \in S, NEW id, e.id # id PROVE SameAbout(s, Append(s, e),
           id)
<1>1. Waits(Append(s, e), id) <=> Waits(s, id)
  BY AppendHears
<1>2. ASSUME NEW m
      PROVE  (LastSays(s, id, m) => LastSays(Append(s, e), id, m)) /\
               (Said(s, id, m) => Said(Append(s, e), id, m))
  BY AppendHears
<1> QED
  BY <1>1, <1>2 DEF SameAbout

\* It is an equivalence.
LEMMA AlikeTrans ==
  ASSUME NEW q, NEW p, NEW r, NEW id, SameAbout(q, p, id), SameAbout(p, r, id) PROVE SameAbout(q,
           r, id)
  BY DEF SameAbout

\* ... which is reflexive.
LEMMA AlikeSelf == ASSUME NEW q, NEW id PROVE SameAbout(q, q, id)
  BY DEF SameAbout

\* Editors that change nothing for a message.
Aside(ed, pen, id) == \A e \in Editors :
  \/ pen[e] = ed[e]
  \/ (ed[e].pc = "idle" \/ ed[e].id # id) /\ (pen[e].pc = "idle" \/ pen[e].id # id)

\* ... so that they work and read as before.
LEMMA AsideSame ==
  ASSUME NEW ed, NEW pen, NEW id, Aside(ed, pen, id)
  PROVE  /\ Working(pen, id) <=> Working(ed, id)
         /\ Alone(ed, id) => Alone(pen, id)
         /\ \A m : Reads(ed, id, m) => Reads(pen, id, m)
<1>1. Working(pen, id) <=> Working(ed, id)
  BY DEF Aside, Working
<1>2. Alone(ed, id) => Alone(pen, id)
  BY DEF Aside, Alone
<1>3. ASSUME NEW m, Reads(ed, id, m), NEW e \in Editors, pen[e].pc = "read", pen[e].id = id
      PROVE  pen[e].msg = m
  BY <1>3 DEF Aside, Reads
<1> QED
  BY <1>1, <1>2, <1>3 DEF Reads

\* What a step that does not concern a message leaves true of it.
LEMMA PairStays ==
  ASSUME NEW c, NEW id, NEW t, NEW d, NEW ed, NEW dl, NEW w, NEW V, NEW lt, NEW ld, NEW sn,
         NEW t2, NEW d2, NEW ed2, NEW dl2, NEW w2, NEW V2, NEW lt2, NEW ld2, NEW sn2,
         Pair(c, id, t, d, ed, dl, w, V, lt, ld, sn),
         t2[id] = t[id], Aside(ed, ed2, id), dl2[id] = dl[id],
         Is(t, id) /\ Coming(d, c, w["message"], id) => Coming(d2, c, w2["message"], id),
         Is(t, id) /\ Says(d, c, w["message"], id, Now(t, id)) =>
           Says(d2, c, w2["message"], id, Now(t, id)),
         SameAbout(w["edit"], w2["edit"], id), Waits(w2["delete"], id) <=> Waits(w["delete"], id),
         SameAbout(lt, lt2, id),
         \A Y \in Views(V2, ld2, id) : \E X \in Views(V, ld, id) : In(Y, id) = In(X, id),
         sn \subseteq sn2
  PROVE  Pair(c, id, t2, d2, ed2, dl2, w2, V2, lt2, ld2, sn2)
<1>1. (Is(t2, id) <=> Is(t, id)) /\ Now(t2, id) = Now(t, id)
  BY DEF Is, Now
<1>2. /\ Working(ed2, id) <=> Working(ed, id)
      /\ Alone(ed2, id) /\ (Is(t2, id) => Reads(ed2, id, Now(t2, id)))
  BY <1>1, AsideSame DEF Pair
<1>3. ASSUME NEW Y \in Views(V2, ld2, id) PROVE Sight(In(Y, id), t2, d2, dl2, c, w2, id)
  <2>1. PICK X \in Views(V, ld, id) : In(Y, id) = In(X, id)
    OBVIOUS
  <2>2. Sight(In(X, id), t, d, dl, c, w, id)
    BY DEF Pair
  <2> QED
    BY <2>1, <2>2, <1>1 DEF Sight, Departing
<1>4. dl2[id] = "told" /\ ~Waits(w2["delete"], id) => id \in sn2
  BY DEF Pair
<1>5. ASSUME Is(t2, id), ~Working(ed2, id)
      PROVE  IF Waits(w2["edit"], id) THEN LastSays(w2["edit"], id, Now(t2, id))
             ELSE IF Waits(lt2, id) THEN LastSays(lt2, id, Now(t2, id))
             ELSE \A X \in Views(V2, ld2, id) : Right(In(X, id), t2, d2, c, w2, id)
  <2>1. IF Waits(w["edit"], id) THEN LastSays(w["edit"], id, Now(t, id))
        ELSE IF Waits(lt, id) THEN LastSays(lt, id, Now(t, id))
        ELSE \A X \in Views(V, ld, id) : Right(In(X, id), t, d, c, w, id)
    BY <1>1, <1>2, <1>5 DEF Pair
  <2>2. CASE Waits(w2["edit"], id) \/ Waits(lt2, id)
    BY <2>1, <2>2, <1>1 DEF SameAbout
  <2>3. CASE ~Waits(w2["edit"], id) /\ ~Waits(lt2, id)
    <3>1. \A X \in Views(V, ld, id) : Right(In(X, id), t, d, c, w, id)
      BY <2>1, <2>3 DEF SameAbout
    <3>2. ASSUME NEW Y \in Views(V2, ld2, id) PROVE Right(In(Y, id), t2, d2, c, w2, id)
      <4>1. PICK X \in Views(V, ld, id) : In(Y, id) = In(X, id)
        OBVIOUS
      <4>2. Right(In(X, id), t, d, c, w, id)
        BY <3>1
      <4> QED
        BY <4>1, <4>2, <1>1, <1>5 DEF Right
    <3> QED
      BY <2>3, <3>2
  <2> QED
    BY <2>2, <2>3
<1> QED
  BY <1>2, <1>3, <1>4, <1>5 DEF Pair

\* Nor does what is still to come change.
LEMMA ComingStays ==
  ASSUME NEW d, NEW d2, NEW c, NEW q, NEW p, NEW id, NEW m, d2[id] = d[id], SameAbout(q, p, id)
  PROVE  /\ Coming(d, c, q, id) => Coming(d2, c, p, id)
         /\ Says(d, c, q, id, m) => Says(d2, c, p, id, m)
  BY DEF Coming, Says, Told, SameAbout

\* One mutation changes.
LEMMA MutationOf ==
  ASSUME NEW K \in SUBSET Ids, NEW o, Mutations(K, o), NEW t \in Temps, NEW r,
         r \in [pc : {"new", "sent", "refused", "run", "answered"}, by : {0} \cup Clients,
                      text : {NoMsg} \cup Texts, id : {0} \cup K],
         r.pc # "new" => r.by \in Clients /\ r.text \in Texts,
         r.pc \in {"new", "sent", "refused"} => r.id = 0,
         r.pc = "run" => r.id # 0,
         r.id # 0 => \A s \in Temps : s # t => o[s].id # r.id
  PROVE  Mutations(K, [o EXCEPT ![t] = r])
<1> DEFINE p == [o EXCEPT ![t] = r]
<1>1. /\ p \in [Temps -> [pc : {"new", "sent", "refused", "run", "answered"}, by : {0} \cup Clients,
                      text : {NoMsg} \cup Texts, id : {0} \cup Ids]]
      /\ p[t] = r /\ \A s \in Temps : s # t => p[s] = o[s]
  BY DEF Mutations
<1> HIDE DEF p
<1>2. \A s \in Temps :
       /\ p[s].pc # "new" => p[s].by \in Clients /\ p[s].text \in Texts
       /\ p[s].pc \in {"new", "sent", "refused"} => p[s].id = 0
       /\ p[s].pc = "run" => p[s].id # 0
       /\ p[s].id # 0 => p[s].id \in K
  BY <1>1 DEF Mutations
<1>3. \A s, u \in Temps : p[s].id = p[u].id /\ p[s].id # 0 => s = u
  BY <1>1 DEF Mutations
<1> QED
  BY <1>1, <1>2, <1>3 DEF Mutations, p

\* A debt that a step leaves as it is.
LEMMA DebtStays ==
  ASSUME NEW c, NEW x, NEW o, NEW t, NEW d, NEW q, NEW V, NEW t2, NEW d2, NEW q2, NEW W,
         Debt(c, x, o, t, d, q, V),
         o.pc \in {"run", "answered"} =>
           /\ t2[o.id].by = t[o.id].by /\ t2[o.id].text = t[o.id].text
           /\ d2[o.id] = d[o.id] /\ In(W, o.id) = In(V, o.id)
           /\ Waits(q2, o.id) <=> Waits(q, o.id)
           /\ \A i \in 1 .. Len(q2) : q2[i].id = o.id => \E j \in 1 .. Len(q) :
                q[j].id = o.id /\ q[j].msg = q2[i].msg
  PROVE  Debt(c, x, o, t2, d2, q2, W)
<1>1. ASSUME o.pc \in {"run", "answered"}
      PROVE  /\ o.id # 0 /\ t2[o.id].by = c /\ t2[o.id].text = x /\ In(W, o.id) = {}
             /\ d2[o.id].pc = "tell" => d2[o.id].msg.text = x
             /\ \A i \in 1 .. Len(q2) : q2[i].id = o.id => q2[i].msg.text = x
  BY <1>1 DEF Debt
<1>2. o.pc = "run" => d2[o.id].pc = "failed" \/ Coming(d2, c, q2, o.id)
  BY DEF Debt, Coming, Told
<1> QED
  BY <1>1, <1>2 DEF Debt

\* A pending item has a mutation, and no identifier.
LEMMA PendingIs ==
  ASSUME MessageInv, NEW c \in Clients, list[c] # NoList, NEW i \in 1 .. Len(list[c])
  PROVE  /\ list[c] \in Seq(Listed(Known(table))) /\ list[c][i] \in Listed(Known(table))
         /\ list[c][i].is = "pending" => list[c][i].tmp \in Temps /\ list[c][i].id = 0
         /\ list[c][i].id # 0 => list[c][i].tmp = 0 /\ list[c][i].is = "sent" /\
              list[c][i].id \in Ids
<1>1. list[c] \in Seq(Listed(Known(table)))
  BY DEF MessageInv, ClientsFit, Lists
<1>2. list[c][i] \in Listed(Known(table))
  BY <1>1
<1>3. Known(table) \subseteq Ids
  BY KnownAre
<1> QED
  BY <1>1, <1>2, <1>3 DEF Listed, Sent, Own, Temps, Ids

\* The server refuses.
LEMMA RefuseKeeps == ASSUME MessageInv, NEW t \in Temps, Refuse(t) PROVE MessageInv'
<1>1. /\ UNCHANGED <<table, send, editor, del, wire, list, late, load, seen, over, mixed, cut>>
      /\ out[t].pc = "sent" /\ out' = [out EXCEPT ![t].pc = "refused"]
  BY DEF Refuse, server, client, history
<1>2. out' = [out EXCEPT ![t] = [out[t] EXCEPT !.pc = "refused"]]
  BY <1>1
<1>3. Mutations(Known(table), out) /\ Known(table) \in SUBSET Ids
  BY KnownAre DEF MessageInv, TablesFit
<1>4. out[t].id = 0 /\ out[t].by \in Clients /\ out[t].text \in Texts
      /\ out[t] \in [pc : {"new", "sent", "refused", "run", "answered"}, by : {0} \cup Clients,
                      text : {NoMsg} \cup Texts, id : {0} \cup Ids]
  BY <1>1, <1>3 DEF Mutations
<1> DEFINE r == [out[t] EXCEPT !.pc = "refused"]
<1>5. r.pc = "refused" /\ r.id = 0 /\ r.by = out[t].by /\ r.text = out[t].text
      /\ r \in [pc : {"new", "sent", "refused", "run", "answered"}, by : {0} \cup Clients,
                      text : {NoMsg} \cup Texts, id : {0} \cup Known(table)]
  BY <1>4
<1> HIDE DEF r
<1>6. Mutations(Known(table), out')
  BY <1>2, <1>3, <1>4, <1>5, MutationOf DEF r
<1>7. TablesFit'
  BY <1>1, <1>6 DEF MessageInv, TablesFit, Domains
<1>8. ClientsFit' /\ AllOnce'
  BY <1>1 DEF MessageInv, ClientsFit, AllOnce
<1>9. AllPairs'
  BY <1>1 DEF MessageInv, AllPairs
<1>10. out'[t] = r /\ \A s \in Temps : s # t => out'[s] = out[s]
  BY <1>2, <1>3 DEF Mutations, r
<1>11. ASSUME NEW c \in Clients \ (cut \cup mixed)
       PROVE  Debts(c, table, send, out', wire[c]["message"], list[c])
  <2>1. Debts(c, table, send, out, wire[c]["message"], list[c])
    BY DEF MessageInv, AllDebts
  <2>2. SUFFICES ASSUME list[c] # NoList, NEW i \in 1 .. Len(list[c]), list[c][i].is = "pending"
                 PROVE  Debt(c, list[c][i].text, out'[list[c][i].tmp], table, send,
                          wire[c]["message"], list[c])
    BY <2>1 DEF Debts
  <2>3. Debt(c, list[c][i].text, out[list[c][i].tmp], table, send, wire[c]["message"], list[c])
    BY <2>1, <2>2 DEF Debts
  <2>4. list[c][i].tmp \in Temps
    BY <2>2, PendingIs
  <2>5. CASE list[c][i].tmp = t
    BY <2>3, <2>5, <1>5, <1>10 DEF Debt
  <2>6. CASE list[c][i].tmp # t
    BY <2>3, <2>4, <2>6, <1>10
  <2> QED
    BY <2>5, <2>6
<1>12. AllDebts'
  BY <1>1, <1>11 DEF AllDebts
<1> QED
  BY <1>7, <1>8, <1>9, <1>12 DEF MessageInv

\* The server answers: the event of the sender is on its way.
LEMMA AnswerKeeps == ASSUME MessageInv, NEW t \in Temps, Answer(t) PROVE MessageInv'
<1>1. /\ UNCHANGED <<table, send, editor, del, wire, list, late, load, seen, over, mixed, cut>>
      /\ out[t].pc = "run" /\ out' = [out EXCEPT ![t].pc = "answered"]
      /\ send[out[t].id].pc = "tell" /\ send[out[t].id].todo = {}
  BY DEF Answer, server, client, history
<1>2. out' = [out EXCEPT ![t] = [out[t] EXCEPT !.pc = "answered"]]
  BY <1>1
<1>3. Mutations(Known(table), out) /\ Known(table) \in SUBSET Ids
  BY KnownAre DEF MessageInv, TablesFit
<1>4. out[t].id # 0 /\ out[t].id \in Known(table) /\ out[t].by \in Clients /\ out[t].text \in Texts
      /\ out[t] \in [pc : {"new", "sent", "refused", "run", "answered"}, by : {0} \cup Clients,
                      text : {NoMsg} \cup Texts, id : {0} \cup Ids]
      /\ \A s \in Temps : s # t => out[s].id # out[t].id
  BY <1>1, <1>3 DEF Mutations
<1> DEFINE r == [out[t] EXCEPT !.pc = "answered"]
<1>5. r.pc = "answered" /\ r.id = out[t].id /\ r.by = out[t].by /\ r.text = out[t].text
      /\ r \in [pc : {"new", "sent", "refused", "run", "answered"}, by : {0} \cup Clients,
                      text : {NoMsg} \cup Texts, id : {0} \cup Known(table)]
  BY <1>4
<1> HIDE DEF r
<1>6. Mutations(Known(table), out')
  BY <1>2, <1>3, <1>4, <1>5, MutationOf DEF r
<1>7. TablesFit'
  BY <1>1, <1>6 DEF MessageInv, TablesFit, Domains
<1>8. ClientsFit' /\ AllOnce'
  BY <1>1 DEF MessageInv, ClientsFit, AllOnce
<1>9. AllPairs'
  BY <1>1 DEF MessageInv, AllPairs
<1>10. out'[t] = r /\ \A s \in Temps : s # t => out'[s] = out[s]
  BY <1>2, <1>3 DEF Mutations, r
<1>11. ASSUME NEW c \in Clients \ (cut \cup mixed)
       PROVE  Debts(c, table, send, out', wire[c]["message"], list[c])
  <2>1. Debts(c, table, send, out, wire[c]["message"], list[c])
    BY DEF MessageInv, AllDebts
  <2>2. SUFFICES ASSUME list[c] # NoList, NEW i \in 1 .. Len(list[c]), list[c][i].is = "pending"
                 PROVE  Debt(c, list[c][i].text, out'[list[c][i].tmp], table, send,
                          wire[c]["message"], list[c])
    BY <2>1 DEF Debts
  <2>3. Debt(c, list[c][i].text, out[list[c][i].tmp], table, send, wire[c]["message"], list[c])
    BY <2>1, <2>2 DEF Debts
  <2>4. list[c][i].tmp \in Temps
    BY <2>2, PendingIs
  <2>5. CASE list[c][i].tmp = t
    <3>1. Waits(wire[c]["message"], out[t].id)
      BY <2>3, <2>5, <1>1 DEF Debt, Coming, Told
    <3> QED
      BY <2>3, <2>5, <3>1, <1>1, <1>5, <1>10 DEF Debt
  <2>6. CASE list[c][i].tmp # t
    BY <2>3, <2>4, <2>6, <1>10
  <2> QED
    BY <2>5, <2>6
<1>12. AllDebts'
  BY <1>1, <1>11 DEF AllDebts
<1> QED
  BY <1>7, <1>8, <1>9, <1>12 DEF MessageInv

\* One load changes: the views are those there were, and perhaps its rows.
LEMMA LoadViews ==
  ASSUME NEW K, NEW ld, Loading(K, ld), NEW l \in Loads, NEW r, NEW V, NEW id,
         NEW X \in Views(V, [ld EXCEPT ![l] = r], id)
  PROVE  X \in Views(V, ld, id) \/ (X = r.rows /\ r.pc = "read" /\ id \notin r.missed)
<1> DEFINE p == [ld EXCEPT ![l] = r]
<1>1. p[l] = r /\ \A k \in Loads : k # l => p[k] = ld[k]
  BY DEF Loading
<1> HIDE DEF p
<1>2. X \in Views(V, p, id)
  BY DEF p
<1>3. CASE X \in {V} \ {NoList}
  BY <1>3 DEF Views
<1>4. CASE \E k \in Loads : p[k].pc = "read" /\ id \notin p[k].missed /\ X = p[k].rows
  BY <1>1, <1>4 DEF Views
<1> QED
  BY <1>2, <1>3, <1>4 DEF Views

\* ... and it stays a load.
LEMMA LoadingOf ==
  ASSUME NEW K, NEW ld, Loading(K, ld), NEW l \in Loads, NEW r, Unique(r.rows),
         r \in [pc : {"new", "asked", "read", "done"}, rows : Seq(Sent(K)), missed : SUBSET Ids]
  PROVE  Loading(K, [ld EXCEPT ![l] = r])
<1> DEFINE p == [ld EXCEPT ![l] = r]
<1>1. p \in [Loads -> [pc : {"new", "asked", "read", "done"}, rows : Seq(Sent(K)), missed :
        SUBSET Ids]]
  BY DEF Loading
<1>2. \A k \in Loads : p[k] = r \/ p[k] = ld[k]
  BY DEF Loading
<1> HIDE DEF p
<1>3. \A k \in Loads : Unique(p[k].rows)
  BY <1>2 DEF Loading
<1> QED
  BY <1>1, <1>3 DEF Loading, p

\* Another list, which shows the same of a message.
LEMMA ListViews ==
  ASSUME NEW V, NEW W, V # NoList, NEW ld, NEW id, In(W, id) = In(V, id), NEW Y \in Views(W, ld, id)
  PROVE  \E X \in Views(V, ld, id) : In(Y, id) = In(X, id)
  BY DEF Views

\* No editor changes.
LEMMA AsideSelf == ASSUME NEW ed, NEW id PROVE Aside(ed, ed, id)
  BY DEF Aside

\* ... when only the client's list and loads change.
LEMMA PairLists ==
  ASSUME NEW c, NEW id, NEW t, NEW d, NEW ed, NEW dl, NEW w, NEW V, NEW lt, NEW ld, NEW sn,
         NEW W, NEW p, Pair(c, id, t, d, ed, dl, w, V, lt, ld, sn),
         \A Y \in Views(W, p, id) : \E X \in Views(V, ld, id) : In(Y, id) = In(X, id)
  PROVE  Pair(c, id, t, d, ed, dl, w, W, lt, p, sn)
  BY AlikeSelf, AsideSelf, PairStays

\* A client asks for the chat.
LEMMA AskKeeps == ASSUME MessageInv, NEW c \in Clients, NEW l \in Loads, Ask(c, l) PROVE MessageInv'
<1> DEFINE r == [load[c][l] EXCEPT !.pc = "asked"]
<1>1. /\ UNCHANGED <<table, send, editor, del, out, wire, list, late, seen, over, mixed, cut>>
      /\ load' = [load EXCEPT ![c] = [load[c] EXCEPT ![l] = r]]
  BY DEF Ask, server, history
<1>2. DOMAIN load = Clients
  BY DEF MessageInv, TablesFit, Domains
<1>3. load'[c] = [load[c] EXCEPT ![l] = r] /\
        (\A x \in Clients : x # c => load'[x] = load[x]) /\ DOMAIN load' = Clients
  BY <1>1, <1>2
<1>4. Loading(Known(table), load[c])
  BY DEF MessageInv, ClientsFit
<1>5. /\ r.pc = "asked" /\ r.rows = load[c][l].rows
      /\ r \in [pc : {"new", "asked", "read", "done"}, rows : Seq(Sent(Known(table))), missed :
           SUBSET Ids]
  BY <1>4 DEF Loading
<1>6. Unique(r.rows)
  BY <1>4, <1>5 DEF Loading
<1> HIDE DEF r
<1>7. Loading(Known(table), load'[c])
  BY <1>3, <1>4, <1>5, <1>6, LoadingOf
<1>8. TablesFit'
  BY <1>1, <1>3 DEF MessageInv, TablesFit, Domains
<1>9. ClientsFit'
  BY <1>1, <1>3, <1>7 DEF MessageInv, ClientsFit
<1>10. AllOnce' /\ AllDebts'
  BY <1>1 DEF MessageInv, AllOnce, AllDebts
<1>11. ASSUME NEW x \in Clients \ cut, NEW id \in Ids \ over[x]
       PROVE  Pair(x, id, table, send, editor, del, wire[x], list[x], late[x], load'[x], seen[x])
  <2>1. Pair(x, id, table, send, editor, del, wire[x], list[x], late[x], load[x], seen[x])
    BY DEF MessageInv, AllPairs
  <2>2. CASE x # c
    BY <2>1, <2>2, <1>3
  <2>3. CASE x = c
    <3>1. \A Y \in Views(list[x], load'[x], id) : Y \in Views(list[x], load[x], id)
      BY <2>3, <1>3, <1>4, <1>5, LoadViews
    <3> QED
      BY <2>1, <3>1, PairLists
  <2> QED
    BY <2>2, <2>3
<1>12. AllPairs'
  BY <1>1, <1>11 DEF AllPairs
<1> QED
  BY <1>8, <1>9, <1>10, <1>12 DEF MessageInv

\* A user sends: a pending item, whose mutation is on its way.
LEMMA TypeKeeps ==
  ASSUME MessagesAssumption, MessageInv, NEW c \in Clients, NEW x \in Texts, Type(c, x)
  PROVE  MessageInv'
<1>1. PICK t \in Temps :
        /\ list[c] # NoList /\ out[t].pc = "new"
        /\ out' = [out EXCEPT ![t] = [pc |-> "sent", by |-> c, text |-> x, id |-> 0]]
        /\ list' = [list EXCEPT ![c] = <<Waiting(t, x)>> \o @]
        /\ UNCHANGED <<table, send, editor, del, wire, late, load, seen, over, mixed, cut>>
  BY DEF Type, server, history
<1> DEFINE r == [pc |-> "sent", by |-> c, text |-> x, id |-> 0]
           K == Known(table)
           W == <<Waiting(t, x)>> \o list[c]
<1>2. DOMAIN list = Clients /\ Mutations(K, out) /\ K \in SUBSET Ids
  BY KnownAre DEF MessageInv, TablesFit, Domains
<1>3. list'[c] = W /\ (\A y \in Clients : y # c => list'[y] = list[y]) /\ DOMAIN list' = Clients
  BY <1>1, <1>2
<1>4. Mutations(K, out')
  <2>1. r \in [pc : {"new", "sent", "refused", "run", "answered"}, by : {0} \cup Clients,
                      text : {NoMsg} \cup Texts, id : {0} \cup K]
        /\ r.pc = "sent" /\ r.id = 0 /\ r.by = c /\ r.text = x
    OBVIOUS
  <2> HIDE DEF r, K
  <2>2. Mutations(K, [out EXCEPT ![t] = r])
    BY <2>1, <1>2, MutationOf
  <2> QED
    BY <1>1, <2>2 DEF r
<1>5. out'[t] = r /\ \A s \in Temps : s # t => out'[s] = out[s]
  BY <1>1, <1>2 DEF Mutations
<1>6. /\ Waiting(t, x) \in Listed(K) /\ Waiting(t, x).id = 0 /\ Waiting(t, x).tmp = t
      /\ Waiting(t, x).text = x /\ Waiting(t, x).is = "pending"
  BY DEF Waiting, Listed, Own
<1>7. list[c] \in Seq(Listed(K)) /\ Unique(list[c])
  BY <1>1 DEF MessageInv, ClientsFit, Lists
<1> HIDE DEF K
<1>8. /\ W \in Seq(Listed(K)) /\ W[1] = Waiting(t, x) /\ Unique(W)
      /\ \A i \in 1 .. Len(W) : i = 1 \/ (i - 1 \in 1 .. Len(list[c]) /\ W[i] = list[c][i - 1])
  <2> DEFINE z == Waiting(t, x)
  <2>1. z \in Listed(K) /\ (z.id # 0 => In(list[c], z.id) = {})
    BY <1>6
  <2> HIDE DEF z
  <2>2. Unique(<<z>> \o list[c])
    BY <2>1, <1>7, FrontShows
  <2> QED
    BY <2>2, <1>6, <1>7, InFront DEF z
<1>9. \A id \in Ids : In(W, id) = In(list[c], id)
  <2>1. SUFFICES ASSUME NEW id \in Ids PROVE In(W, id) = In(list[c], id)
    OBVIOUS
  <2>2. id # 0
    BY IdsAre
  <2> QED
    BY <1>6, <1>7, <2>2, FrontShows
<1> HIDE DEF W, r
<1>10. W # NoList
  <2>1. K \in SUBSET Ids
    BY <1>2
  <2> QED
    BY <2>1, <1>8, ConstantsAre
<1>11. TablesFit'
  BY <1>1, <1>3, <1>4 DEF MessageInv, TablesFit, Domains, K
<1>12. ClientsFit'
  <2>1. Lists(K, W, late[c])
    BY <1>8, <1>10 DEF Lists, MessageInv, ClientsFit, K
  <2> QED
    BY <1>1, <1>3, <2>1 DEF MessageInv, ClientsFit, K
<1>13. AllOnce'
  BY <1>1 DEF MessageInv, AllOnce
<1>14. ASSUME NEW y \in Clients \ cut, NEW id \in Ids \ over[y]
       PROVE  Pair(y, id, table, send, editor, del, wire[y], list'[y], late[y], load[y], seen[y])
  <2>1. Pair(y, id, table, send, editor, del, wire[y], list[y], late[y], load[y], seen[y])
    BY DEF MessageInv, AllPairs
  <2>2. CASE y # c
    BY <2>1, <2>2, <1>3
  <2>3. CASE y = c
    <3>1. In(W, id) = In(list[c], id)
      BY <1>9
    <3>2. \A Y \in Views(W, load[c], id) : \E X \in Views(list[c], load[c], id) :
            In(Y, id) = In(X, id)
      BY <1>1, <3>1, ListViews
    <3> QED
      BY <2>1, <2>3, <3>2, <1>3, PairLists
  <2> QED
    BY <2>2, <2>3
<1>15. AllPairs'
  BY <1>1, <1>14 DEF AllPairs
<1>16. ASSUME NEW y \in Clients \ (cut \cup mixed), list'[y] # NoList
       PROVE  Debts(y, table, send, out', wire[y]["message"], list'[y])
  <2>1. Debts(y, table, send, out, wire[y]["message"], list[y]) /\ list[y] # NoList
    BY <1>1, <1>3, <1>16 DEF MessageInv, AllDebts
  <2>2. ASSUME NEW i \in 1 .. Len(list[y]), list[y][i].is = "pending"
        PROVE  list[y][i].tmp # t /\ out'[list[y][i].tmp] = out[list[y][i].tmp]
               /\ Debt(y, list[y][i].text, out[list[y][i].tmp], table, send, wire[y]["message"],
                    list[y])
    <3>1. Debt(y, list[y][i].text, out[list[y][i].tmp], table, send, wire[y]["message"], list[y])
      BY <2>1, <2>2 DEF Debts
    <3>2. list[y][i].tmp # t /\ list[y][i].tmp \in Temps
      BY <2>1, <2>2, <3>1, <1>1, PendingIs DEF Debt
    <3> QED
      BY <3>1, <3>2, <1>5
  <2>3. CASE y # c
    <3>1. ASSUME NEW i \in 1 .. Len(list[y]), list[y][i].is = "pending"
          PROVE  Debt(y, list[y][i].text, out'[list[y][i].tmp], table, send, wire[y]["message"],
                   list[y])
      BY <2>2, <3>1
    <3>2. Debts(y, table, send, out', wire[y]["message"], list[y])
      BY <2>1, <3>1 DEF Debts
    <3> QED
      BY <2>3, <3>2, <1>3
  <2>4. CASE y = c
    <3>1. ASSUME NEW i \in 1 .. Len(W), W[i].is = "pending"
          PROVE  Debt(c, W[i].text, out'[W[i].tmp], table, send, wire[c]["message"], W)
      <4>1. CASE i = 1
        BY <4>1, <1>5, <1>6, <1>8 DEF Debt, r
      <4>2. CASE i # 1
        <5>1. i - 1 \in 1 .. Len(list[c]) /\ W[i] = list[c][i - 1]
          BY <4>2, <1>8
        <5>2. /\ out'[W[i].tmp] = out[W[i].tmp]
              /\ Debt(c, W[i].text, out[W[i].tmp], table, send, wire[c]["message"], list[c])
          BY <5>1, <3>1, <2>2, <2>4
        <5>3. out[W[i].tmp].pc \in {"run", "answered"} =>
                In(W, out[W[i].tmp].id) = In(list[c], out[W[i].tmp].id)
          <6>1. W[i].tmp \in Temps
            BY <5>1, <3>1, <2>4, <2>1, PendingIs
          <6>2. out[W[i].tmp].pc \in {"run", "answered"} => out[W[i].tmp].id \in Ids
            BY <6>1, <5>2, <1>2 DEF Debt, Mutations
          <6> QED
            BY <6>2, <1>9
        <5> QED
          BY <5>2, <5>3, DebtStays
      <4> QED
        BY <4>1, <4>2
    <3>2. ASSUME NEW i \in 1 .. Len(W), NEW j \in 1 .. Len(W), W[i].is = "pending",
                   W[j].is = "pending",
                 W[i].tmp = W[j].tmp
          PROVE  i = j
      <4>1. ASSUME NEW k \in 1 .. Len(W), k # 1, W[k].is = "pending" PROVE W[k].tmp # t
        <5>1. k - 1 \in 1 .. Len(list[c]) /\ W[k] = list[c][k - 1]
          BY <4>1, <1>8
        <5> QED
          BY <5>1, <4>1, <2>2, <2>4
      <4>2. CASE i = 1 \/ j = 1
        BY <4>1, <4>2, <3>2, <1>6, <1>8
      <4>3. CASE i # 1 /\ j # 1
        <5>1. i - 1 \in 1 .. Len(list[c]) /\ W[i] = list[c][i - 1] /\
                j - 1 \in 1 .. Len(list[c]) /\ W[j] = list[c][j - 1]
          BY <4>3, <1>8
        <5>2. i - 1 = j - 1
          BY <5>1, <3>2, <2>1, <2>4 DEF Debts
        <5> QED
          BY <5>1, <5>2
      <4> QED
        BY <4>2, <4>3
    <3>3. Debts(c, table, send, out', wire[c]["message"], W)
      BY <3>1, <3>2 DEF Debts
    <3> QED
      BY <2>4, <3>3, <1>3
  <2> QED
    BY <2>3, <2>4
<1>17. AllDebts'
  <2>1. ASSUME NEW y \in Clients \ (cut \cup mixed)
        PROVE  Debts(y, table, send, out', wire[y]["message"], list'[y])
    <3>1. CASE list'[y] = NoList
      BY <3>1 DEF Debts
    <3>2. CASE list'[y] # NoList
      BY <3>2, <1>16
    <3> QED
      BY <3>1, <3>2
  <2> QED
    BY <1>1, <2>1 DEF AllDebts
<1> QED
  BY <1>11, <1>12, <1>13, <1>15, <1>17 DEF MessageInv

\* One topic changes.
LEMMA WiresOf ==
  ASSUME NEW K, NEW G \in SUBSET K, NEW w, Wires(K, G, w), NEW k \in Topics, NEW v,
         k # "delete" => v \in Seq(Posts(K)), k = "delete" => v \in Seq(Mail(G))
  PROVE  Wires(K, G, [w EXCEPT ![k] = v])
<1> DEFINE p == [w EXCEPT ![k] = v]
<1>1. Seq(Posts(K)) \subseteq Seq(Mail(K)) /\ Seq(Mail(G)) \subseteq Seq(Mail(K))
  <2>1. Posts(K) \subseteq Mail(K) /\ Mail(G) \subseteq Mail(K)
    BY DEF Posts, Mail
  <2> QED
    BY <2>1, SeqGrows
<1>2. v \in Seq(Mail(K))
  BY <1>1
<1>3. p[k] = v /\ \A j \in Topics : j # k => p[j] = w[j]
  <2>1. w \in [Topics -> Seq(Mail(K))]
    BY DEF Wires
  <2> QED
    BY <2>1
<1>4. p \in [Topics -> Seq(Mail(K))]
  BY <1>2 DEF Wires
<1> HIDE DEF p
<1>5. p["message"] \in Seq(Posts(K)) /\ p["edit"] \in Seq(Posts(K)) /\ p["delete"] \in Seq(Mail(G))
  BY <1>3, TopicsAre DEF Wires
<1> QED
  BY <1>4, <1>5 DEF Wires, p

\* What a client shows of the messages, in one step of the table.
LEMMA PensOf ==
  ASSUME NEW K \in SUBSET Ids, NEW ed, Pens(K, ed), NEW e \in Editors, NEW r,
         r = Quill \/ r \in [pc : {"written", "read"}, id : K, msg : {NoMsg} \cup Msgs],
         r.pc = "read" => r.msg \in Msgs
  PROVE  Pens(K, [ed EXCEPT ![e] = r])
<1>1. r \in [pc : {"idle", "written", "read"}, id : {0} \cup Ids, msg : {NoMsg} \cup Msgs] /\
        (r.pc # "idle" => r.id \in K)
  BY DEF Quill
<1> DEFINE p == [ed EXCEPT ![e] = r]
<1>2. p \in [Editors -> [pc : {"idle", "written", "read"}, id : {0} \cup Ids, msg :
        {NoMsg} \cup Msgs]]
  BY <1>1 DEF Pens
<1>3. p[e] = r /\ \A f \in Editors : f # e => p[f] = ed[f]
  BY DEF Pens
<1> HIDE DEF p
<1>4. \A f \in Editors : (p[f].pc # "idle" => p[f].id \in K) /\
        (p[f].pc = "read" => p[f].msg \in Msgs)
  BY <1>1, <1>3 DEF Pens
<1> QED
  BY <1>2, <1>4 DEF Pens, p

\* The content of a row is a message.
LEMMA ContentIs ==
  ASSUME MessageInv, NEW id \in Ids, table[id].st # "none"
  PROVE  Content(id) = Now(table, id) /\ Content(id) \in Msgs /\ Content(id).text = table[id].text
<1>1. table[id].text \in Texts /\ table[id].emb \in BOOLEAN
  BY DEF MessageInv, TablesFit, Rows
<1> QED
  BY <1>1 DEF Content, Now, Msgs

\* An editor reads the row again: what it will tell is what the row says.
LEMMA ReadRowKeeps == ASSUME MessageInv, NEW e \in Editors, ReadRow(e) PROVE MessageInv'
<1> DEFINE r == IF Here(editor[e].id) THEN [editor[e] EXCEPT !.pc = "read",
  !.msg = Content(editor[e].id)] ELSE Quill
<1>1. /\ UNCHANGED <<table, send, del, out, wire, list, late, load, seen, over, mixed, cut>>
      /\ editor[e].pc = "written" /\ editor' = [editor EXCEPT ![e] = r]
  BY DEF ReadRow, client, history
<1>2. Pens(Known(table), editor) /\ Known(table) \in SUBSET Ids
  BY KnownAre DEF MessageInv, TablesFit
<1>3. editor[e].id \in Known(table) /\ editor[e].id \in Ids /\
        editor[e] \in [pc : {"idle", "written", "read"}, id : {0} \cup Ids, msg : {NoMsg} \cup Msgs]
  BY <1>1, <1>2 DEF Pens
<1>4. Content(editor[e].id) = Now(table, editor[e].id) /\ Content(editor[e].id) \in Msgs
  BY <1>3, ContentIs DEF Known
<1>5. /\ Here(editor[e].id) => r.pc = "read" /\ r.id = editor[e].id /\
           r.msg = Now(table, editor[e].id)
      /\ ~Here(editor[e].id) => r = Quill
      /\ r = Quill \/ r \in [pc : {"written", "read"}, id : Known(table), msg : {NoMsg} \cup Msgs]
      /\ r.pc = "read" => r.msg \in Msgs
  BY <1>3, <1>4 DEF Quill
<1> HIDE DEF r
<1>6. editor'[e] = r /\ \A f \in Editors : f # e => editor'[f] = editor[f]
  BY <1>1, <1>2 DEF Pens
<1>7. Pens(Known(table), editor')
  BY <1>1, <1>2, <1>5, PensOf
<1>8. TablesFit'
  BY <1>1, <1>7 DEF MessageInv, TablesFit, Domains
<1>9. ClientsFit' /\ AllOnce' /\ AllDebts'
  BY <1>1 DEF MessageInv, ClientsFit, AllOnce, AllDebts
<1>10. ASSUME NEW c \in Clients \ cut, NEW id \in Ids \ over[c]
       PROVE  Pair(c, id, table, send, editor', del, wire[c], list[c], late[c], load[c], seen[c])
  <2>1. Pair(c, id, table, send, editor, del, wire[c], list[c], late[c], load[c], seen[c])
    BY DEF MessageInv, AllPairs
  <2>2. CASE editor[e].id # id
    <3>1. Aside(editor, editor', id)
      BY <2>2, <1>5, <1>6 DEF Aside, Quill
    <3> QED
      BY <2>1, <3>1, AlikeSelf, PairStays
  <2>3. CASE editor[e].id = id
    <3>1. Alone(editor', id)
      BY <2>1, <2>3, <1>1, <1>5, <1>6 DEF Pair, Alone, Quill
    <3>2. Is(table, id) => Reads(editor', id, Now(table, id))
      BY <2>1, <2>3, <1>1, <1>5, <1>6 DEF Pair, Reads, Quill
    <3>3. Is(table, id) => Working(editor', id)
      BY <2>3, <1>5, <1>6 DEF Is, Here, Working
    <3> QED
      BY <2>1, <3>1, <3>2, <3>3 DEF Pair
  <2> QED
    BY <2>2, <2>3
<1>11. AllPairs'
  BY <1>1, <1>10 DEF AllPairs
<1> QED
  BY <1>8, <1>9, <1>11 DEF MessageInv

\* ... and tells everybody: that is the newest edit.
LEMMA TellEditKeeps == ASSUME MessageInv, NEW e \in Editors, TellEdit(e) PROVE MessageInv'
<1> DEFINE id0 == editor[e].id
           v == [id |-> id0, msg |-> editor[e].msg]
<1>1. /\ UNCHANGED <<table, send, del, out, list, late, load, seen, over, mixed, cut>>
      /\ editor[e].pc = "read" /\ editor' = [editor EXCEPT ![e] = Quill]
      /\ wire' = [c \in Clients |-> [wire[c] EXCEPT !["edit"] = Append(wire[c]["edit"], v)]]
  BY DEF TellEdit, PublishAll, client, history
<1>2. Pens(Known(table), editor) /\ Known(table) \in SUBSET Ids /\
        Gone(table) \in SUBSET Known(table)
  BY KnownAre DEF MessageInv, TablesFit
<1>3. id0 \in Known(table) /\ id0 \in Ids /\ editor[e].msg \in Msgs
  BY <1>1, <1>2 DEF Pens
<1>4. v \in Posts(Known(table)) /\ v.id = id0 /\ v.msg = editor[e].msg
  BY <1>3 DEF Posts
<1> HIDE DEF v, id0
<1>5. ASSUME NEW c \in Clients
      PROVE  /\ wire'[c] = [wire[c] EXCEPT !["edit"] = Append(wire[c]["edit"], v)]
             /\ wire[c]["edit"] \in Seq(Posts(Known(table)))
             /\ wire'[c]["edit"] = Append(wire[c]["edit"], v)
             /\ wire'[c]["message"] = wire[c]["message"] /\ wire'[c]["delete"] = wire[c]["delete"]
             /\ Wires(Known(table), Gone(table), wire'[c])
  <2>1. Wires(Known(table), Gone(table), wire[c])
    BY DEF MessageInv, ClientsFit
  <2>2. wire'[c] = [wire[c] EXCEPT !["edit"] = Append(wire[c]["edit"], v)]
    BY <1>1
  <2>3. wire[c]["edit"] \in Seq(Posts(Known(table)))
    BY <2>1 DEF Wires
  <2>4. Append(wire[c]["edit"], v) \in Seq(Posts(Known(table)))
    BY <2>3, <1>4, AppendFits
  <2>5. "edit" \in Topics /\ "message" \in Topics /\ "delete" \in Topics /\ "edit" # "delete" /\
          "edit" # "message"
    BY TopicsAre
  <2> DEFINE w == wire[c]
             q == Append(wire[c]["edit"], v)
             K == Known(table)
             G == Gone(table)
  <2>6. Wires(K, G, w) /\ G \in SUBSET K /\ q \in Seq(Posts(K)) /\
          wire'[c] = [w EXCEPT !["edit"] = q]
    BY <2>1, <2>2, <2>4, <1>2
  <2> HIDE DEF w, q, K, G
  <2>7. [w EXCEPT !["edit"] = q]["edit"] = q /\ \A j \in Topics : j # "edit" =>
          [w EXCEPT !["edit"] = q][j] = w[j]
    BY <2>6, <2>5 DEF Wires
  <2>8. Wires(K, G, [w EXCEPT !["edit"] = q])
    BY <2>6, <2>5, WiresOf
  <2>9. wire'[c]["edit"] = Append(wire[c]["edit"], v) /\ \A j \in Topics : j # "edit" =>
          wire'[c][j] = wire[c][j]
    BY <2>6, <2>7 DEF w, q
  <2>10. Wires(Known(table), Gone(table), wire'[c])
    BY <2>6, <2>8 DEF K, G
  <2> QED
    BY <2>2, <2>3, <2>5, <2>9, <2>10
<1>6. editor'[e] = Quill /\ \A f \in Editors : f # e => editor'[f] = editor[f]
  BY <1>1, <1>2 DEF Pens
<1>7. Pens(Known(table), editor')
  BY <1>1, <1>2, PensOf DEF Quill
<1>8. TablesFit'
  BY <1>1, <1>7 DEF MessageInv, TablesFit, Domains
<1>9. ClientsFit'
  BY <1>1, <1>5 DEF MessageInv, ClientsFit
<1>10. AllOnce' /\ AllDebts'
  BY <1>1, <1>5 DEF MessageInv, AllOnce, AllDebts
<1>11. ASSUME NEW c \in Clients \ cut, NEW id \in Ids \ over[c]
       PROVE  Pair(c, id, table, send, editor', del, wire'[c], list[c], late[c], load[c], seen[c])
  <2>1. Pair(c, id, table, send, editor, del, wire[c], list[c], late[c], load[c], seen[c])
    BY DEF MessageInv, AllPairs
  <2>2. CASE id0 # id
    <3>1. Aside(editor, editor', id)
      <4>1. editor[e].id # id
        BY <2>2 DEF id0
      <4> QED
        BY <4>1, <1>6 DEF Aside, Quill
    <3>2. SameAbout(wire[c]["edit"], wire'[c]["edit"], id)
      <4>1. wire[c]["edit"] \in Seq(Posts(Known(table))) /\ v.id # id
        BY <2>2, <1>4, <1>5
      <4>2. SameAbout(wire[c]["edit"], Append(wire[c]["edit"], v), id)
        BY <4>1, <1>4, AppendAlike
      <4> QED
        BY <4>2, <1>5
    <3>3. wire'[c]["message"] = wire[c]["message"] /\ wire'[c]["delete"] = wire[c]["delete"]
      BY <1>5
    <3> QED
      BY <2>1, <3>1, <3>2, <3>3, AlikeSelf, PairStays
  <2>3. CASE id0 = id
    <3>1. Alone(editor', id)
      BY <2>1, <1>6 DEF Pair, Alone, Quill
    <3>2. Is(table, id) => Reads(editor', id, Now(table, id))
      BY <2>1, <1>6 DEF Pair, Reads, Quill
    <3>3. Is(table, id) => v.msg = Now(table, id)
      BY <2>1, <2>3, <1>1, <1>4 DEF Pair, Reads, id0
    <3>4. Waits(wire'[c]["edit"], id) /\ LastSays(wire'[c]["edit"], id, v.msg)
      <4>1. wire[c]["edit"] \in Seq(Posts(Known(table))) /\ v.id = id
        BY <2>3, <1>4, <1>5
      <4>2. Waits(Append(wire[c]["edit"], v), id) /\
              LastSays(Append(wire[c]["edit"], v), v.id, v.msg)
        BY <4>1, <1>4, AppendHears
      <4> QED
        BY <4>1, <4>2, <1>5
    <3> QED
      BY <2>1, <3>1, <3>2, <3>3, <3>4, <1>5 DEF Pair, Sight
  <2> QED
    BY <2>2, <2>3
<1>12. AllPairs'
  BY <1>1, <1>11 DEF AllPairs
<1> QED
  BY <1>8, <1>9, <1>10, <1>12 DEF MessageInv

\* A row is written. Its edit is still to come, and if another editor works on it, the message
\* is excepted.
LEMMA WriteKeeps ==
  ASSUME MessageInv, NEW e \in Editors, NEW id \in Ids, Here(id), NEW m \in Msgs,
         m.text = table[id].text \/ Has(table[id].by, id), Write(e, id, m)
  PROVE  MessageInv'
<1> DEFINE z == [table[id] EXCEPT !.text = m.text, !.emb = m.emb]
           r == [pc |-> "written", id |-> id, msg |-> NoMsg]
           K == Known(table)
<1>1. /\ UNCHANGED <<send, del, out, wire, list, late, load, seen, mixed, cut>>
      /\ editor[e].pc = "idle" /\ editor' = [editor EXCEPT ![e] = r]
      /\ table' = [table EXCEPT ![id] = z]
      /\ over' = IF Busy(id) THEN [c \in Clients |-> over[c] \cup {id}] ELSE over
  BY DEF Write, client, history
<1>2. /\ Rows(table, send, del) /\ Pens(K, editor) /\ K \in SUBSET Ids /\ id \in K
      /\ Is(table, id)
  BY KnownAre DEF MessageInv, TablesFit, Known, Here, Is
<1>3. table'[id] = z /\ \A i \in Ids : i # id => table'[i] = table[i]
  BY <1>1, <1>2 DEF Rows
<1>4. z \in [st : {"none", "here", "gone"}, by : {0} \cup Clients, text : {NoMsg} \cup Texts,
        emb : BOOLEAN]
      /\ z.st = "here" /\ z.by = table[id].by /\ z.text = m.text /\ table[id].st = "here" /\
           m.text \in Texts
  <2>1. m.text \in Texts /\ m.emb \in BOOLEAN
    BY DEF Msgs
  <2>2. table[id] \in [st : {"none", "here", "gone"}, by : {0} \cup Clients, text :
          {NoMsg} \cup Texts, emb : BOOLEAN]
    BY <1>2 DEF Rows
  <2> QED
    BY <2>1, <2>2, <1>2 DEF Is
<1> HIDE DEF z, K
<1>5. Known(table') = Known(table) /\ Gone(table') = Gone(table)
  BY <1>3, <1>4 DEF Known, Gone
<1>6. Rows(table', send, del)
  <2>1. table' \in [Ids -> [st : {"none", "here", "gone"}, by : {0} \cup Clients,
                    text : {NoMsg} \cup Texts, emb : BOOLEAN]]
    BY <1>1, <1>2, <1>4 DEF Rows
  <2>2. \A i \in Ids : table'[i].st = table[i].st /\ table'[i].by = table[i].by
                       /\ (table[i].text \in Texts => table'[i].text \in Texts)
    BY <1>3, <1>4
  <2> QED
    BY <1>2, <2>1, <2>2 DEF Rows
<1>7. Pens(K, editor')
  <2>1. r \in [pc : {"written", "read"}, id : K, msg : {NoMsg} \cup Msgs] /\ r.pc # "read"
    BY <1>2
  <2> HIDE DEF r
  <2> QED
    BY <2>1, <1>1, <1>2, PensOf
<1>8. editor'[e] = r /\ \A f \in Editors : f # e => editor'[f] = editor[f]
  BY <1>1, <1>2 DEF Pens
<1>9. DOMAIN over' = Clients /\ \A c \in Clients : over[c] \subseteq over'[c] /\
        (id \notin over'[c] => ~Busy(id))
  BY <1>1 DEF MessageInv, TablesFit, Domains
<1>10. TablesFit'
  BY <1>1, <1>5, <1>6, <1>7, <1>9 DEF MessageInv, TablesFit, Domains, K
<1>11. ClientsFit'
  BY <1>1, <1>5 DEF MessageInv, ClientsFit
<1>12. AllOnce'
  BY <1>1 DEF MessageInv, AllOnce
<1>13. ASSUME NEW c \in Clients \ cut, NEW i \in Ids \ over'[c]
       PROVE  Pair(c, i, table', send, editor', del, wire[c], list[c], late[c], load[c], seen[c])
  <2>1. Pair(c, i, table, send, editor, del, wire[c], list[c], late[c], load[c], seen[c])
    BY <1>9 DEF MessageInv, AllPairs
  <2>2. CASE i # id
    <3>1. Aside(editor, editor', i)
      BY <2>2, <1>1, <1>8 DEF Aside
    <3>2. table'[i] = table[i]
      BY <2>2, <1>3
    <3> QED
      BY <2>1, <3>1, <3>2, AlikeSelf, PairStays
  <2>3. CASE i = id
    <3>1. \A f \in Editors : f # e => editor'[f].pc = "idle" \/ editor'[f].id # id
      BY <2>3, <1>8, <1>9 DEF Busy
    <3>2. Alone(editor', id) /\ Reads(editor', id, Now(table', id)) /\ Working(editor', id)
      BY <3>1, <1>8 DEF Alone, Reads, Working
    <3>3. \A X \in Views(list[c], load[c], id) : Sight(In(X, id), table', send, del, c, wire[c], id)
      BY <2>1, <2>3, <1>2, <1>3, <1>4 DEF Pair, Sight, Is
    <3> QED
      BY <2>1, <2>3, <3>2, <3>3 DEF Pair
  <2> QED
    BY <2>2, <2>3
<1>14. AllPairs'
  BY <1>1, <1>13 DEF AllPairs
<1>15. ASSUME NEW c \in Clients \ (cut \cup mixed)
       PROVE  Debts(c, table', send, out, wire[c]["message"], list[c])
  <2>1. Debts(c, table, send, out, wire[c]["message"], list[c])
    BY DEF MessageInv, AllDebts
  <2>2. SUFFICES ASSUME list[c] # NoList, NEW i \in 1 .. Len(list[c]), list[c][i].is = "pending"
                 PROVE  Debt(c, list[c][i].text, out[list[c][i].tmp], table', send,
                          wire[c]["message"], list[c])
    BY <2>1 DEF Debts
  <2> DEFINE o == out[list[c][i].tmp]
  <2>3. Debt(c, list[c][i].text, o, table, send, wire[c]["message"], list[c])
    BY <2>1, <2>2 DEF Debts
  <2>4. o.id = 0 \/ o.id \in Ids
    BY <2>2, PendingIs DEF MessageInv, TablesFit, Mutations
  <2> HIDE DEF o
  <2>5. o.pc \in {"run", "answered"} => table'[o.id].by = table[o.id].by /\
          table'[o.id].text = table[o.id].text
    <3>1. SUFFICES ASSUME o.pc \in {"run", "answered"}
                   PROVE  table'[o.id].by = table[o.id].by /\ table'[o.id].text = table[o.id].text
      OBVIOUS
    <3>2. o.id \in Ids /\ table[o.id].by = c /\ In(list[c], o.id) = {}
      BY <2>3, <2>4, <3>1 DEF Debt
    <3>3. CASE o.id = id
      <4>1. ~Has(table[id].by, id)
        BY <3>2, <3>3, HasIn
      <4> QED
        BY <4>1, <3>3, <1>3, <1>4
    <3> QED
      BY <3>2, <3>3, <1>3
  <2>6. Debt(c, list[c][i].text, o, table', send, wire[c]["message"], list[c])
    BY <2>3, <2>5, DebtStays
  <2> QED
    BY <2>6 DEF o
<1>16. AllDebts'
  BY <1>1, <1>15 DEF AllDebts
<1> QED
  BY <1>10, <1>11, <1>12, <1>14, <1>16 DEF MessageInv

\* ... by its author, or by the embed parser.
LEMMA EditKeeps ==
  ASSUME MessageInv, NEW e \in Editors, NEW id \in Ids, Edit(e, id) \/ Embed(e, id)
  PROVE  MessageInv'
<1>1. Here(id) /\ table[id].st # "none"
  BY DEF Edit, Embed, Here
<1>2. Content(id) \in Msgs /\ Content(id).text = table[id].text
  BY <1>1, ContentIs
<1>3. CASE Edit(e, id)
  <2>1. PICK x \in Texts : Has(table[id].by, id) /\ Write(e, id, [Content(id) EXCEPT !.text = x])
    BY <1>3 DEF Edit
  <2> DEFINE m == [Content(id) EXCEPT !.text = x]
  <2>2. m \in Msgs
    BY <1>2 DEF Msgs
  <2> HIDE DEF m
  <2>3. Write(e, id, m) /\ Has(table[id].by, id)
    BY <2>1 DEF m
  <2> QED
    BY <1>1, <2>2, <2>3, WriteKeeps
<1>4. CASE Embed(e, id)
  <2> DEFINE m == [Content(id) EXCEPT !.emb = TRUE]
  <2>2. m \in Msgs /\ m.text = table[id].text
    BY <1>2 DEF Msgs
  <2>3. Write(e, id, m)
    BY <1>4 DEF Embed
  <2> HIDE DEF m
  <2> QED
    BY <1>1, <2>2, <2>3, WriteKeeps
<1> QED
  BY <1>3, <1>4

\* Debts depend on a row only by its author and text.
LEMMA DebtsRows ==
  ASSUME NEW c, NEW t, NEW d, NEW o, NEW q, NEW V, Debts(c, t, d, o, q, V), NEW u,
         V # NoList => \A i \in 1 .. Len(V) : V[i].is = "pending" => V[i].tmp \in Temps,
         \A s \in Temps : o[s].id = 0 \/ o[s].id \in Ids,
         \A i \in Ids : u[i].by = t[i].by /\ u[i].text = t[i].text
  PROVE  Debts(c, u, d, o, q, V)
<1>1. SUFFICES ASSUME V # NoList, NEW i \in 1 .. Len(V), V[i].is = "pending"
               PROVE  Debt(c, V[i].text, o[V[i].tmp], u, d, q, V)
  BY DEF Debts
<1> DEFINE z == o[V[i].tmp]
<1>2. Debt(c, V[i].text, z, t, d, q, V) /\ (z.id = 0 \/ z.id \in Ids)
  BY <1>1 DEF Debts
<1> HIDE DEF z
<1>3. z.pc \in {"run", "answered"} => u[z.id].by = t[z.id].by /\ u[z.id].text = t[z.id].text
  BY <1>2 DEF Debt
<1>4. Debt(c, V[i].text, z, u, d, q, V)
  BY <1>2, <1>3, DebtStays
<1> QED
  BY <1>4 DEF z

\* A row goes.
LEMMA DeleteKeeps == ASSUME MessageInv, NEW id \in Ids, Delete(id) PROVE MessageInv'
<1> DEFINE z == [table[id] EXCEPT !.st = "gone"]
<1>1. /\ UNCHANGED <<send, editor, out, wire, list, late, load, seen, over, mixed, cut>>
      /\ table' = [table EXCEPT ![id] = z] /\ del' = [del EXCEPT ![id] = "gone"] /\
           table[id].st = "here"
  BY DEF Delete, Here, client, history
<1>2. Rows(table, send, del)
  BY DEF MessageInv, TablesFit
<1>3. table'[id] = z /\ \A i \in Ids : i # id => table'[i] = table[i]
  BY <1>1, <1>2 DEF Rows
<1>4. z \in [st : {"none", "here", "gone"}, by : {0} \cup Clients, text : {NoMsg} \cup Texts,
        emb : BOOLEAN]
      /\ z.st = "gone" /\ z.by = table[id].by /\ z.text = table[id].text
  BY <1>2 DEF Rows
<1> HIDE DEF z
<1>5. Known(table') = Known(table) /\ Gone(table) \subseteq Gone(table')
  BY <1>1, <1>3, <1>4 DEF Known, Gone
<1>6. del'[id] = "gone" /\ \A i \in Ids : i # id => del'[i] = del[i]
  BY <1>1, <1>2 DEF Rows
<1>7. Rows(table', send, del')
  <2>1. table' \in [Ids -> [st : {"none", "here", "gone"}, by : {0} \cup Clients,
                    text : {NoMsg} \cup Texts, emb : BOOLEAN]] /\
                      del' \in [Ids -> {"no", "gone", "told"}]
    BY <1>1, <1>2, <1>4 DEF Rows
  <2>2. \A i \in Ids : table'[i].by = table[i].by /\ table'[i].text = table[i].text
                       /\ (table'[i].st = "none" <=> table[i].st = "none")
    BY <1>1, <1>3, <1>4
  <2>3. \A i \in Ids : table'[i].st = "gone" <=> del'[i] # "no"
    BY <1>2, <1>3, <1>4, <1>6 DEF Rows
  <2> QED
    BY <1>2, <2>1, <2>2, <2>3 DEF Rows
<1>8. TablesFit'
  BY <1>1, <1>5, <1>7 DEF MessageInv, TablesFit, Domains
<1>9. ClientsFit'
  <2>1. ASSUME NEW c \in Clients PROVE Wires(Known(table), Gone(table'), wire[c])
    <3>1. Wires(Known(table), Gone(table), wire[c])
      BY DEF MessageInv, ClientsFit
    <3>2. Mail(Gone(table)) \subseteq Mail(Gone(table'))
      BY <1>5 DEF Mail
    <3>3. Seq(Mail(Gone(table))) \subseteq Seq(Mail(Gone(table')))
      BY <3>2, SeqGrows
    <3> QED
      BY <3>1, <3>3 DEF Wires
  <2> QED
    BY <1>1, <1>5, <2>1 DEF MessageInv, ClientsFit
<1>10. AllOnce'
  BY <1>1 DEF MessageInv, AllOnce
<1>11. ASSUME NEW c \in Clients \ cut, NEW i \in Ids \ over[c]
       PROVE  Pair(c, i, table', send, editor, del', wire[c], list[c], late[c], load[c], seen[c])
  <2>1. Pair(c, i, table, send, editor, del, wire[c], list[c], late[c], load[c], seen[c])
    BY DEF MessageInv, AllPairs
  <2>2. CASE i # id
    <3>1. table'[i] = table[i] /\ del'[i] = del[i]
      BY <2>2, <1>3, <1>6
    <3> QED
      BY <2>1, <3>1, AlikeSelf, AsideSelf, PairStays
  <2>3. CASE i = id
    <3>1. ~Is(table', id)
      BY <1>3, <1>4 DEF Is
    <3>2. \A X \in Views(list[c], load[c], id) :
            Sight(In(X, id), table', send, del', c, wire[c], id)
      BY <3>1, <1>6 DEF Sight, Departing
    <3> QED
      BY <2>1, <2>3, <3>1, <3>2, <1>6 DEF Pair
  <2> QED
    BY <2>2, <2>3
<1>12. AllPairs'
  BY <1>1, <1>11 DEF AllPairs
<1>13. AllDebts'
  <2>1. ASSUME NEW c \in Clients \ (cut \cup mixed)
        PROVE  Debts(c, table', send, out, wire[c]["message"], list[c])
    <3>1. Debts(c, table, send, out, wire[c]["message"], list[c])
      BY DEF MessageInv, AllDebts
    <3>2. list[c] # NoList => \A i \in 1 .. Len(list[c]) : list[c][i].is = "pending" =>
            list[c][i].tmp \in Temps
      BY PendingIs
    <3>3. \A s \in Temps : out[s].id = 0 \/ out[s].id \in Ids
      BY DEF MessageInv, TablesFit, Mutations
    <3>4. \A i \in Ids : table'[i].by = table[i].by /\ table'[i].text = table[i].text
      BY <1>3, <1>4
    <3> QED
      BY <3>1, <3>2, <3>3, <3>4, DebtsRows
  <2> QED
    BY <1>1, <2>1 DEF AllDebts
<1> QED
  BY <1>8, <1>9, <1>10, <1>12, <1>13 DEF MessageInv

\* ... and everybody is told.
LEMMA TellDeleteKeeps == ASSUME MessageInv, NEW id \in Ids, TellDelete(id) PROVE MessageInv'
<1> DEFINE v == [id |-> id, msg |-> NoMsg]
           K == Known(table)
           G == Gone(table)
<1>1. /\ UNCHANGED <<table, send, editor, out, list, late, load, seen, over, mixed, cut>>
      /\ del[id] = "gone" /\ del' = [del EXCEPT ![id] = "told"]
      /\ wire' = [c \in Clients |-> [wire[c] EXCEPT !["delete"] = Append(wire[c]["delete"], v)]]
  BY DEF TellDelete, PublishAll, client, history
<1>2. Rows(table, send, del) /\ K \in SUBSET Ids /\ G \in SUBSET K
  BY KnownAre DEF MessageInv, TablesFit
<1>3. id \in G /\ table[id].st = "gone"
  BY <1>1, <1>2 DEF Rows, Gone
<1>4. v \in Mail(G) /\ v.id = id
  BY <1>3 DEF Mail
<1> HIDE DEF v, K, G
<1>5. ASSUME NEW c \in Clients
      PROVE  /\ Wires(K, G, wire'[c]) /\ wire[c]["delete"] \in Seq(Mail(G))
             /\ wire'[c]["delete"] = Append(wire[c]["delete"], v)
             /\ wire'[c]["message"] = wire[c]["message"] /\ wire'[c]["edit"] = wire[c]["edit"]
  <2> DEFINE w == wire[c]
             p == wire'[c]
  <2>1. Wires(K, G, w) /\ p = [w EXCEPT !["delete"] = Append(w["delete"], v)]
    BY <1>1 DEF MessageInv, ClientsFit, K, G
  <2>2. w["delete"] \in Seq(Mail(G))
    BY <2>1 DEF Wires
  <2> DEFINE k == "delete"
  <2>3. k \in Topics /\ "edit" \in Topics /\ "message" \in Topics /\ k # "edit" /\
          k # "message" /\ k = "delete"
    BY TopicsAre
  <2> DEFINE q == Append(w[k], v)
  <2>4. p = [w EXCEPT ![k] = q] /\ q = Append(w[k], v)
    BY <2>1
  <2> HIDE DEF w, p, k, q
  <2>5. Wires(K, G, [w EXCEPT ![k] = q]) /\ [w EXCEPT ![k] = q][k] = q
        /\ \A j \in Topics : j # k => [w EXCEPT ![k] = q][j] = w[j]
    <3>1. w["delete"] \in Seq(Mail(G)) /\ q \in Seq(Mail(G))
      <4>1. w[k] \in Seq(Mail(G))
        BY <2>1, <2>3 DEF Wires
      <4> QED
        BY <4>1, <2>4, <2>3, <1>4, AppendFits
    <3>2. Wires(K, G, [w EXCEPT ![k] = q])
      BY <2>1, <2>3, <3>1, <1>2, WiresOf
    <3> QED
      BY <2>1, <2>3, <3>2 DEF Wires
  <2>6. Wires(K, G, p) /\ p[k] = q /\ \A j \in Topics : j # k => p[j] = w[j]
    BY <2>4, <2>5
  <2> QED
    BY <2>2, <2>3, <2>6, <2>4 DEF w, p
<1>6. del'[id] = "told" /\ \A i \in Ids : i # id => del'[i] = del[i]
  BY <1>1, <1>2 DEF Rows
<1>7. Rows(table, send, del')
  <2>1. del' \in [Ids -> {"no", "gone", "told"}] /\ \A i \in Ids : del'[i] # "no" <=> del[i] # "no"
    BY <1>1, <1>2, <1>6 DEF Rows
  <2> QED
    BY <2>1, <1>2 DEF Rows
<1>8. TablesFit'
  BY <1>1, <1>7 DEF MessageInv, TablesFit, Domains
<1>9. ClientsFit'
  BY <1>1, <1>5 DEF MessageInv, ClientsFit, K, G
<1>10. AllOnce' /\ AllDebts'
  BY <1>1, <1>5 DEF MessageInv, AllOnce, AllDebts
<1>11. ASSUME NEW c \in Clients \ cut, NEW i \in Ids \ over[c]
       PROVE  Pair(c, i, table, send, editor, del', wire'[c], list[c], late[c], load[c], seen[c])
  <2>1. Pair(c, i, table, send, editor, del, wire[c], list[c], late[c], load[c], seen[c])
    BY DEF MessageInv, AllPairs
  <2> DEFINE q == wire[c]["delete"]
  <2>2. q \in Seq(Mail(G)) /\ wire'[c]["delete"] = Append(q, v)
    BY <1>5
  <2> HIDE DEF q
  <2>3. Waits(Append(q, v), i) <=> Waits(q, i) \/ v.id = i
    BY <2>2, <1>4, AppendHears
  <2>4. CASE i # id
    <3>1. del'[i] = del[i] /\ (Waits(wire'[c]["delete"], i) <=> Waits(wire[c]["delete"], i))
      BY <2>2, <2>3, <2>4, <1>4, <1>6 DEF q
    <3>2. wire'[c]["message"] = wire[c]["message"] /\ wire'[c]["edit"] = wire[c]["edit"]
      BY <1>5
    <3> QED
      BY <2>1, <3>1, <3>2, AlikeSelf, AsideSelf, PairStays
  <2>5. CASE i = id
    <3>1. ~Is(table, id) /\ Waits(wire'[c]["delete"], id)
      BY <2>2, <2>3, <2>5, <1>3, <1>4 DEF Is
    <3>2. \A X \in Views(list[c], load[c], id) :
            Sight(In(X, id), table, send, del', c, wire'[c], id)
      BY <3>1 DEF Sight, Departing
    <3> QED
      BY <2>1, <2>5, <3>1, <3>2 DEF Pair
  <2> QED
    BY <2>4, <2>5
<1>12. AllPairs'
  BY <1>1, <1>11 DEF AllPairs
<1> QED
  BY <1>8, <1>9, <1>10, <1>12 DEF MessageInv

\* What fits still does when more is known.
LEMMA FitsGrow ==
  ASSUME NEW K, NEW L, K \subseteq L, NEW G, NEW w, NEW V, NEW lt, NEW ld,
         Wires(K, G, w), Lists(K, V, lt), Loading(K, ld)
  PROVE  Wires(L, G, w) /\ Lists(L, V, lt) /\ Loading(L, ld)
<1>1. /\ Mail(K) \subseteq Mail(L) /\ Posts(K) \subseteq Posts(L) /\ Listed(K) \subseteq Listed(L)
      /\ Sent(K) \subseteq Sent(L)
  BY DEF Mail, Posts, Listed, Sent
<1>2. /\ Seq(Mail(K)) \subseteq Seq(Mail(L)) /\ Seq(Posts(K)) \subseteq Seq(Posts(L))
      /\ Seq(Listed(K)) \subseteq Seq(Listed(L)) /\ Seq(Sent(K)) \subseteq Seq(Sent(L))
  BY <1>1, SeqGrows
<1>3. Wires(L, G, w)
  BY <1>2 DEF Wires
<1>4. Lists(L, V, lt)
  BY <1>2 DEF Lists
<1>5. Loading(L, ld)
  BY <1>2 DEF Loading
<1> QED
  BY <1>3, <1>4, <1>5

\* A row is created: every client has it still to come.
LEMMA CreateKeeps == ASSUME MessageInv, NEW t \in Temps, Create(t) PROVE MessageInv'
<1> DEFINE row == [st |-> "here", by |-> out[t].by, text |-> out[t].text, emb |-> FALSE]
           K == Known(table)
           L == Known(table')
           G == Gone(table)
<1>1. PICK id \in Ids :
        /\ out[t].pc = "sent" /\ table[id].st = "none" /\ table' = [table EXCEPT ![id] = row]
        /\ send' = [send EXCEPT ![id] = [send[id] EXCEPT !.pc = "created"]]
        /\ out' = [out EXCEPT ![t] = [out[t] EXCEPT !.pc = "run", !.id = id]]
        /\ UNCHANGED <<editor, del, wire, list, late, load, seen, over, mixed, cut>>
  BY DEF Create, client, history
<1> DEFINE r == [out[t] EXCEPT !.pc = "run", !.id = id]
           z == [send[id] EXCEPT !.pc = "created"]
<1>2. Rows(table, send, del) /\ Pens(K, editor) /\ Mutations(K, out) /\ K \in SUBSET Ids /\
        G \in SUBSET K
  BY KnownAre DEF MessageInv, TablesFit
<1>3. /\ out[t].by \in Clients /\ out[t].text \in Texts /\ id # 0
      /\ out[t] \in [pc : {"new", "sent", "refused", "run", "answered"}, by : {0} \cup Clients,
                      text : {NoMsg} \cup Texts, id : {0} \cup Ids]
  BY <1>1, <1>2, IdsAre DEF Mutations
<1>4. /\ row \in [st : {"none", "here", "gone"}, by : {0} \cup Clients, text : {NoMsg} \cup Texts,
           emb : BOOLEAN]
      /\ row.st = "here" /\ row.by = out[t].by /\ row.text = out[t].text
  BY <1>3
<1>5. z \in [pc : {"none", "created", "tell", "failed"}, msg : {NoMsg} \cup Msgs, todo :
        SUBSET Clients] /\ z.pc = "created"
  BY <1>2 DEF Rows
<1> HIDE DEF row, z
<1>6. table'[id] = row /\ \A i \in Ids : i # id => table'[i] = table[i]
  BY <1>1, <1>2 DEF Rows
<1>7. send'[id] = z /\ \A i \in Ids : i # id => send'[i] = send[i]
  BY <1>1, <1>2 DEF Rows, z
<1>8. L = K \cup {id} /\ Gone(table') = G /\ id \notin K /\ L \in SUBSET Ids
  BY <1>1, <1>4, <1>6 DEF Known, Gone
<1>9. Rows(table', send', del)
  <2>1. table' \in [Ids -> [st : {"none", "here", "gone"}, by : {0} \cup Clients,
                    text : {NoMsg} \cup Texts, emb : BOOLEAN]]
    BY <1>1, <1>2, <1>4 DEF Rows
  <2>2. send' \in [Ids -> [pc : {"none", "created", "tell", "failed"}, msg : {NoMsg} \cup Msgs,
          todo : SUBSET Clients]]
    BY <1>1, <1>2, <1>5 DEF Rows, z
  <2>3. ASSUME NEW i \in Ids
        PROVE  /\ table'[i].st # "none" => table'[i].by \in Clients /\ table'[i].text \in Texts
               /\ table'[i].st = "none" <=> send'[i].pc = "none"
               /\ send'[i].pc = "tell" => send'[i].msg \in Msgs
               /\ table'[i].st = "gone" <=> del[i] # "no"
    BY <1>1, <1>2, <1>3, <1>4, <1>5, <1>6, <1>7 DEF Rows
  <2> QED
    BY <1>2, <2>1, <2>2, <2>3 DEF Rows
<1>10. Pens(L, editor)
  BY <1>2, <1>8 DEF Pens
<1>11. r.pc = "run" /\ r.id = id /\ r.by = out[t].by /\ r.text = out[t].text
      /\ r \in [pc : {"new", "sent", "refused", "run", "answered"}, by : {0} \cup Clients,
                      text : {NoMsg} \cup Texts, id : {0} \cup L]
  BY <1>3, <1>8
<1>12. out' = [out EXCEPT ![t] = r]
  BY <1>1
<1> HIDE DEF r, L, K, G
<1>13. Mutations(L, out')
  <2>1. Mutations(L, out)
    BY <1>2, <1>8 DEF Mutations
  <2>2. \A s \in Temps : out[s].id # id
    BY <1>2, <1>3, <1>8 DEF Mutations
  <2>3. /\ r.pc # "new" => r.by \in Clients /\ r.text \in Texts
        /\ r.pc \in {"new", "sent", "refused"} => r.id = 0
        /\ r.pc = "run" => r.id # 0
        /\ r.id # 0 => \A s \in Temps : s # t => out[s].id # r.id
    BY <2>2, <1>3, <1>11
  <2> QED
    BY <2>1, <2>3, <1>8, <1>11, <1>12, MutationOf
<1>14. out'[t] = r /\ \A s \in Temps : s # t => out'[s] = out[s]
  BY <1>2, <1>12 DEF Mutations
<1>15. TablesFit'
  BY <1>1, <1>9, <1>10, <1>13 DEF MessageInv, TablesFit, Domains, L
<1>16. ClientsFit'
  <2>1. ASSUME NEW c \in Clients
        PROVE  Wires(L, G, wire[c]) /\ Lists(L, list[c], late[c]) /\ Loading(L, load[c]) /\
                 seen[c] \subseteq L
    <3>1. Wires(K, G, wire[c]) /\ Lists(K, list[c], late[c]) /\ Loading(K, load[c]) /\
            seen[c] \subseteq K
      BY DEF MessageInv, ClientsFit, K, G
    <3>2. K \subseteq L
      BY <1>8
    <3> QED
      BY <3>1, <3>2, FitsGrow
  <2> QED
    BY <1>1, <1>8, <2>1 DEF ClientsFit, L
<1>17. ASSUME NEW c \in Clients
       PROVE  /\ ~Waits(wire[c]["message"], id) /\ ~Waits(wire[c]["edit"], id) /\
                   ~Waits(wire[c]["delete"], id)
              /\ ~Waits(late[c], id) /\ id \notin seen[c] /\
                   \A X \in Views(list[c], load[c], id) : In(X, id) = {}
  <2>1. Wires(K, G, wire[c]) /\ Lists(K, list[c], late[c]) /\ Loading(K, load[c]) /\
          seen[c] \subseteq K
    BY DEF MessageInv, ClientsFit, K, G
  <2> DEFINE w == wire[c]
             V == list[c]
             lt == late[c]
             ld == load[c]
             sn == seen[c]
  <2>2. Wires(K, G, w) /\ Lists(K, V, lt) /\ Loading(K, ld) /\ sn \subseteq K
    BY <2>1
  <2> HIDE DEF w, V, lt, ld, sn
  <2>3. /\ ~Waits(w["message"], id) /\ ~Waits(w["edit"], id) /\ ~Waits(w["delete"], id)
        /\ ~Waits(lt, id) /\ id \notin sn /\ \A X \in Views(V, ld, id) : In(X, id) = {}
    BY <2>2, <1>2, <1>8, Blank
  <2> QED
    BY <2>3 DEF w, V, lt, ld, sn
<1>18. AllOnce'
  <2>1. ASSUME NEW c \in Clients, NEW i \in Ids PROVE Once(send', c, wire[c]["message"], seen[c], i)
    <3>1. Once(send, c, wire[c]["message"], seen[c], i)
      BY DEF MessageInv, AllOnce
    <3>2. CASE i = id
      BY <3>2, <1>17 DEF Once, Lone, Waits
    <3>3. CASE i # id
      BY <3>1, <3>3, <1>7 DEF Once, Told
    <3> QED
      BY <3>2, <3>3
  <2> QED
    BY <1>1, <2>1 DEF AllOnce
<1>19. ASSUME NEW c \in Clients \ cut, NEW i \in Ids \ over[c]
       PROVE  Pair(c, i, table', send', editor, del, wire[c], list[c], late[c], load[c], seen[c])
  <2>1. Pair(c, i, table, send, editor, del, wire[c], list[c], late[c], load[c], seen[c])
    BY DEF MessageInv, AllPairs
  <2>2. CASE i # id
    <3>1. table'[i] = table[i] /\ send'[i] = send[i]
      BY <2>2, <1>6, <1>7
    <3> QED
      BY <2>1, <3>1, AlikeSelf, AsideSelf, PairStays, ComingStays
  <2>3. CASE i = id
    <3>1. \A f \in Editors : editor[f].pc = "idle" \/ editor[f].id # id
      BY <1>2, <1>8 DEF Pens
    <3>2. Alone(editor, id) /\ Reads(editor, id, Now(table', id))
      BY <3>1 DEF Alone, Reads
    <3>3. del[id] = "no"
      BY <1>1, <1>2 DEF Rows
    <3>4. ASSUME NEW X \in Views(list[c], load[c], id)
          PROVE  Sight(In(X, id), table', send', del, c, wire[c], id) /\
                   Right(In(X, id), table', send', c, wire[c], id)
      <4>1. In(X, id) = {}
        BY <1>17
      <4>2. Coming(send', c, wire[c]["message"], id) /\
              Says(send', c, wire[c]["message"], id, Now(table', id))
        BY <1>5, <1>7, <1>17 DEF Coming, Says, Told, Said, Waits
      <4> QED
        BY <4>1, <4>2 DEF Sight, Right
    <3> QED
      BY <2>3, <3>2, <3>3, <3>4, <1>17 DEF Pair
  <2> QED
    BY <2>2, <2>3
<1>20. AllPairs'
  BY <1>1, <1>19 DEF AllPairs
<1>21. ASSUME NEW c \in Clients \ (cut \cup mixed)
       PROVE  Debts(c, table', send', out', wire[c]["message"], list[c])
  <2>1. Debts(c, table, send, out, wire[c]["message"], list[c])
    BY DEF MessageInv, AllDebts
  <2>2. SUFFICES ASSUME list[c] # NoList, NEW i \in 1 .. Len(list[c]), list[c][i].is = "pending"
                 PROVE  Debt(c, list[c][i].text, out'[list[c][i].tmp], table', send',
                          wire[c]["message"], list[c])
    BY <2>1 DEF Debts
  <2>3. Debt(c, list[c][i].text, out[list[c][i].tmp], table, send, wire[c]["message"], list[c])
    BY <2>1, <2>2 DEF Debts
  <2>4. list[c][i].tmp \in Temps /\ list[c] \in Seq(Listed(K))
    BY <2>2, PendingIs DEF K
  <2>5. CASE list[c][i].tmp = t
    <3>1. In(list[c], id) = {}
      BY <2>4, <1>3, <1>8, Unlisted
    <3>2. table'[id].by = c /\ table'[id].text = list[c][i].text
      BY <2>3, <2>5, <1>4, <1>6 DEF Debt
    <3>3. send'[id].pc = "created"
      BY <1>5, <1>7
    <3>4. \A j \in 1 .. Len(wire[c]["message"]) : wire[c]["message"][j].id # id
      BY <1>17 DEF Waits
    <3>5. /\ out'[list[c][i].tmp].pc = "run" /\ out'[list[c][i].tmp].id = id
          /\ out'[list[c][i].tmp].by = c /\ out'[list[c][i].tmp].text = list[c][i].text
      BY <2>3, <2>5, <1>11, <1>14 DEF Debt
    <3> QED
      BY <3>1, <3>2, <3>3, <3>4, <3>5, <1>3 DEF Debt, Coming
  <2>6. CASE list[c][i].tmp # t
    <3> DEFINE o == out[list[c][i].tmp]
    <3>1. o.id \in K \/ o.id = 0
      BY <2>4, <1>2 DEF Mutations
    <3>2. Debt(c, list[c][i].text, o, table, send, wire[c]["message"], list[c]) /\
            out'[list[c][i].tmp] = o
      BY <2>3, <2>4, <2>6, <1>14
    <3> HIDE DEF o
    <3>3. o.pc \in {"run", "answered"} => table'[o.id] = table[o.id] /\ send'[o.id] = send[o.id]
      BY <3>1, <3>2, <1>2, <1>6, <1>7, <1>8 DEF Debt
    <3>4. Debt(c, list[c][i].text, o, table', send', wire[c]["message"], list[c])
      BY <3>2, <3>3, DebtStays
    <3> QED
      BY <3>2, <3>4
  <2> QED
    BY <2>5, <2>6
<1>22. AllDebts'
  BY <1>1, <1>21 DEF AllDebts
<1> QED
  BY <1>15, <1>16, <1>18, <1>20, <1>22 DEF MessageInv

\* The server reads it again: what it will tell is what the row says.
LEMMA ReadBackKeeps == ASSUME MessageInv, NEW id \in Ids, ReadBack(id) PROVE MessageInv'
<1> DEFINE z == IF Here(id) THEN [pc |-> "tell", msg |-> Content(id), todo |-> Clients]
                ELSE [send[id] EXCEPT !.pc = "failed"]
<1>1. /\ UNCHANGED <<table, editor, del, out, wire, list, late, load, seen, over, mixed, cut>>
      /\ send[id].pc = "created" /\ send' = [send EXCEPT ![id] = z]
  BY DEF ReadBack, client, history
<1>2. Rows(table, send, del)
  BY DEF MessageInv, TablesFit
<1>3. table[id].st # "none" /\ (Here(id) <=> Is(table, id))
  BY <1>1, <1>2 DEF Rows, Here, Is
<1>4. Content(id) = Now(table, id) /\ Content(id) \in Msgs /\ Content(id).text = table[id].text
  BY <1>3, ContentIs
<1>5. /\ z \in [pc : {"none", "created", "tell", "failed"}, msg : {NoMsg} \cup Msgs, todo :
           SUBSET Clients]
      /\ Is(table, id) => z.pc = "tell" /\ z.msg = Now(table, id) /\ z.todo = Clients
      /\ ~Is(table, id) => z.pc = "failed"
  <2>1. send[id] \in [pc : {"none", "created", "tell", "failed"}, msg : {NoMsg} \cup Msgs, todo :
          SUBSET Clients]
    BY <1>2 DEF Rows
  <2>2. CASE Is(table, id)
    <3>1. z = [pc |-> "tell", msg |-> Content(id), todo |-> Clients]
      BY <2>2, <1>3
    <3> QED
      BY <2>2, <3>1, <1>4
  <2>3. CASE ~Is(table, id)
    <3>1. z = [send[id] EXCEPT !.pc = "failed"]
      BY <2>3, <1>3
    <3> QED
      BY <2>1, <2>3, <3>1
  <2> QED
    BY <2>2, <2>3
<1> HIDE DEF z
<1>6. send'[id] = z /\ \A i \in Ids : i # id => send'[i] = send[i]
  BY <1>1, <1>2 DEF Rows
<1>7. Rows(table, send', del)
  <2>1. send' \in [Ids -> [pc : {"none", "created", "tell", "failed"}, msg : {NoMsg} \cup Msgs,
          todo : SUBSET Clients]]
    BY <1>1, <1>2, <1>5 DEF Rows
  <2>2. ASSUME NEW i \in Ids
        PROVE  (table[i].st = "none" <=> send'[i].pc = "none") /\
                 (send'[i].pc = "tell" => send'[i].msg \in Msgs)
    BY <1>2, <1>3, <1>4, <1>5, <1>6 DEF Rows
  <2> QED
    BY <1>2, <2>1, <2>2 DEF Rows
<1>8. TablesFit' /\ ClientsFit'
  BY <1>1, <1>7 DEF MessageInv, TablesFit, ClientsFit, Domains
<1>9. AllOnce'
  <2>1. ASSUME NEW c \in Clients, NEW i \in Ids PROVE Once(send', c, wire[c]["message"], seen[c], i)
    <3>1. Once(send, c, wire[c]["message"], seen[c], i)
      BY DEF MessageInv, AllOnce
    <3>2. CASE i = id
      BY <3>1, <3>2, <1>1 DEF Once
    <3>3. CASE i # id
      BY <3>1, <3>3, <1>6 DEF Once, Told
    <3> QED
      BY <3>2, <3>3
  <2> QED
    BY <1>1, <2>1 DEF AllOnce
<1>10. ASSUME NEW c \in Clients \ cut, NEW i \in Ids \ over[c]
       PROVE  Pair(c, i, table, send', editor, del, wire[c], list[c], late[c], load[c], seen[c])
  <2>1. Pair(c, i, table, send, editor, del, wire[c], list[c], late[c], load[c], seen[c])
    BY DEF MessageInv, AllPairs
  <2>2. CASE i # id
    <3>1. send'[i] = send[i]
      BY <2>2, <1>6
    <3> QED
      BY <2>1, <3>1, AlikeSelf, AsideSelf, PairStays, ComingStays
  <2>3. CASE i = id
    <3>1. Is(table, id) => Coming(send', c, wire[c]["message"], id)
      BY <1>5, <1>6 DEF Coming, Told
    <3>2. Is(table, id) /\ Says(send, c, wire[c]["message"], id, Now(table, id)) =>
            Says(send', c, wire[c]["message"], id, Now(table, id))
      BY <1>5, <1>6 DEF Says
    <3> QED
      BY <2>1, <2>3, <3>1, <3>2, AlikeSelf, AsideSelf, PairStays
  <2> QED
    BY <2>2, <2>3
<1>11. AllPairs'
  BY <1>1, <1>10 DEF AllPairs
<1>12. ASSUME NEW c \in Clients \ (cut \cup mixed)
       PROVE  Debts(c, table, send', out, wire[c]["message"], list[c])
  <2>1. Debts(c, table, send, out, wire[c]["message"], list[c])
    BY DEF MessageInv, AllDebts
  <2>2. SUFFICES ASSUME list[c] # NoList, NEW i \in 1 .. Len(list[c]), list[c][i].is = "pending"
                 PROVE  Debt(c, list[c][i].text, out[list[c][i].tmp], table, send',
                          wire[c]["message"], list[c])
    BY <2>1 DEF Debts
  <2> DEFINE o == out[list[c][i].tmp]
  <2>3. Debt(c, list[c][i].text, o, table, send, wire[c]["message"], list[c])
    BY <2>1, <2>2 DEF Debts
  <2>4. o.id = 0 \/ o.id \in Ids
    BY <2>2, PendingIs DEF MessageInv, TablesFit, Mutations
  <2> HIDE DEF o
  <2>5. CASE o.id = id
    <3>1. z.pc = "tell" => z.msg.text = table[id].text
      BY <1>4, <1>5
    <3>2. z.pc = "failed" \/ Coming(send', c, wire[c]["message"], id)
      BY <1>5, <1>6 DEF Coming, Told
    <3>3. Debt(c, list[c][i].text, o, table, send', wire[c]["message"], list[c])
      BY <2>3, <2>5, <3>1, <3>2, <1>6 DEF Debt
    <3> QED
      BY <3>3 DEF o
  <2>6. CASE o.id # id
    <3>1. o.pc \in {"run", "answered"} => send'[o.id] = send[o.id]
      BY <2>3, <2>4, <2>6, <1>6 DEF Debt
    <3>2. Debt(c, list[c][i].text, o, table, send', wire[c]["message"], list[c])
      BY <2>3, <3>1, DebtStays
    <3> QED
      BY <3>2 DEF o
  <2> QED
    BY <2>5, <2>6
<1>13. AllDebts'
  BY <1>1, <1>12 DEF AllDebts
<1> QED
  BY <1>8, <1>9, <1>11, <1>13 DEF MessageInv

\* One client is told.
LEMMA TellKeeps ==
  ASSUME MessageInv, NEW id \in Ids, NEW c0 \in Clients, Tell(id, c0)
  PROVE  MessageInv'
<1> DEFINE v == [id |-> id, msg |-> send[id].msg]
           K == Known(table)
           G == Gone(table)
           z == [send[id] EXCEPT !.todo = @ \ {c0}]
           q0 == wire[c0]["message"]
           q == Append(q0, v)
           w0 == wire[c0]
<1>1. /\ UNCHANGED <<table, editor, del, out, list, late, load, seen, over, mixed, cut>>
      /\ send[id].pc = "tell" /\ c0 \in send[id].todo /\ send' = [send EXCEPT ![id] = z]
      /\ wire' = [wire EXCEPT ![c0] = [wire[c0] EXCEPT !["message"] = q]]
  BY DEF Tell, Publish, client, history
<1>2. Rows(table, send, del) /\ K \in SUBSET Ids /\ G \in SUBSET K /\ DOMAIN wire = Clients
  BY KnownAre DEF MessageInv, TablesFit, Domains
<1>3. /\ z \in [pc : {"none", "created", "tell", "failed"}, msg : {NoMsg} \cup Msgs, todo :
           SUBSET Clients]
      /\ z.pc = "tell" /\ z.msg = send[id].msg /\ c0 \notin z.todo /\ \A c \in Clients :
           c # c0 => (c \in z.todo <=> c \in send[id].todo)
  BY <1>1, <1>2 DEF Rows
<1>4. id \in K /\ send[id].msg \in Msgs
  BY <1>1, <1>2 DEF Rows, Known
<1>5. v \in Posts(K) /\ v.id = id /\ v.msg = send[id].msg
  BY <1>4 DEF Posts
<1>6. Wires(K, G, w0) /\ q0 \in Seq(Posts(K))
  BY DEF MessageInv, ClientsFit, Wires
<1>7. wire'[c0] = [w0 EXCEPT !["message"] = q] /\ DOMAIN wire' = Clients /\ \A c \in Clients :
        c # c0 => wire'[c] = wire[c]
  BY <1>1, <1>2
<1> HIDE DEF v, K, G, z, w0
<1>8. q \in Seq(Posts(K)) /\ q = Append(q0, v) /\ q0 = wire[c0]["message"]
  BY <1>5, <1>6, AppendFits
<1> HIDE DEF q, q0
<1>9. Wires(K, G, wire'[c0])
  <2>1. "message" \in Topics
    BY TopicsAre
  <2>2. Wires(K, G, [w0 EXCEPT !["message"] = q])
    BY <1>2, <1>6, <1>8, <2>1, WiresOf
  <2> QED
    BY <1>7, <2>2
<1>10. wire'[c0]["message"] = q /\ wire'[c0]["edit"] = wire[c0]["edit"] /\
         wire'[c0]["delete"] = wire[c0]["delete"]
  BY <1>6, <1>7, TopicsAre DEF Wires, w0
<1>11. send'[id] = z /\ \A i \in Ids : i # id => send'[i] = send[i]
  BY <1>1, <1>2 DEF Rows
<1>12. Rows(table, send', del)
  <2>1. send' \in [Ids -> [pc : {"none", "created", "tell", "failed"}, msg : {NoMsg} \cup Msgs,
          todo : SUBSET Clients]]
    BY <1>1, <1>2, <1>3 DEF Rows
  <2>2. ASSUME NEW i \in Ids
        PROVE  (table[i].st = "none" <=> send'[i].pc = "none") /\
                 (send'[i].pc = "tell" => send'[i].msg \in Msgs)
    BY <1>1, <1>2, <1>3, <1>4, <1>11 DEF Rows
  <2> QED
    BY <1>2, <2>1, <2>2 DEF Rows
<1>13. TablesFit'
  BY <1>1, <1>7, <1>12 DEF MessageInv, TablesFit, Domains
<1>14. ClientsFit'
  BY <1>1, <1>7, <1>9 DEF MessageInv, ClientsFit, K, G
<1>15. ASSUME NEW i \in Ids
      PROVE  /\ Waits(q, i) <=> Waits(q0, i) \/ i = id
             /\ i # id => SameAbout(q0, q, i)
             /\ Lone(q0, i) /\ (i = id => ~Waits(q0, i)) => Lone(q, i)
  <2>1. i # id => SameAbout(q0, q, i)
    BY <1>5, <1>6, <1>8, AppendAlike
  <2>2. /\ Waits(Append(q0, v), i) <=> Waits(q0, i) \/ v.id = i
        /\ Lone(q0, i) /\ (v.id = i => ~Waits(q0, i)) => Lone(Append(q0, v), i)
    BY <1>5, <1>6, AppendHears
  <2> QED
    BY <2>1, <2>2, <1>5, <1>8
<1>16. ASSUME NEW i \in Ids, NEW m
      PROVE  Said(q, i, m) <=> Said(q0, i, m) /\ (i = id => send[id].msg = m)
  <2>1. Said(Append(q0, v), i, m) <=> Said(q0, i, m) /\ (v.id = i => v.msg = m)
    BY <1>5, <1>6, AppendHears
  <2> QED
    BY <2>1, <1>5, <1>8
<1>17. ASSUME NEW j \in 1 .. Len(q)
       PROVE  (j = Len(q0) + 1 /\ q[j] = v) \/ (j \in 1 .. Len(q0) /\ q[j] = q0[j])
  <2>1. /\ \A k \in 1 .. Len(q0) : Append(q0, v)[k] = q0[k]
        /\ \A k \in 1 .. Len(Append(q0, v)) : k = Len(q0) + 1 \/ k \in 1 .. Len(q0)
        /\ Append(q0, v)[Len(q0) + 1] = v
    BY <1>5, <1>6, AppendFits
  <2> QED
    BY <2>1, <1>8
<1>18. \A c \in Clients : c # c0 => (Told(send', c, id) <=> Told(send, c, id))
  BY <1>1, <1>3, <1>11 DEF Told
<1>19. AllOnce'
  <2>1. ASSUME NEW c \in Clients, NEW i \in Ids
        PROVE  Once(send', c, wire'[c]["message"], seen[c], i)
    <3>1. Once(send, c, wire[c]["message"], seen[c], i)
      BY DEF MessageInv, AllOnce
    <3>2. CASE c # c0
      <4>1. Told(send', c, i) <=> Told(send, c, i)
        BY <3>2, <1>11, <1>18 DEF Told
      <4>2. send'[i].pc = send[i].pc
        BY <1>1, <1>3, <1>11
      <4> QED
        BY <3>1, <3>2, <4>1, <4>2, <1>7 DEF Once
    <3>3. CASE c = c0
      <4>1. Once(send, c0, q0, seen[c0], i)
        BY <3>1, <3>3, <1>8
      <4>2. CASE i = id
        <5>1. ~Waits(q0, id) /\ id \notin seen[c0] /\ Lone(q0, id)
          BY <4>1, <4>2, <1>1 DEF Once, Told
        <5>2. Lone(q, id)
          BY <5>1, <1>15
        <5>3. ~Told(send', c0, id) /\ send'[id].pc = "tell"
          BY <1>3, <1>11 DEF Told
        <5>4. Once(send', c0, q, seen[c0], id)
          BY <5>1, <5>2, <5>3 DEF Once
        <5> QED
          BY <3>3, <4>2, <5>4, <1>10
      <4>3. CASE i # id
        <5>1. Once(send', c0, q, seen[c0], i)
          BY <4>1, <4>3, <1>11, <1>15 DEF Once, Told
        <5> QED
          BY <3>3, <5>1, <1>10
      <4> QED
        BY <4>2, <4>3
    <3> QED
      BY <3>2, <3>3
  <2> QED
    BY <1>1, <2>1 DEF AllOnce
<1>20. ASSUME NEW c \in Clients \ cut, NEW i \in Ids \ over[c]
       PROVE  Pair(c, i, table, send', editor, del, wire'[c], list[c], late[c], load[c], seen[c])
  <2>1. Pair(c, i, table, send, editor, del, wire[c], list[c], late[c], load[c], seen[c])
    BY DEF MessageInv, AllPairs
  <2>2. CASE i # id
    <3>1. send'[i] = send[i]
      BY <2>2, <1>11
    <3>2. /\ SameAbout(wire[c]["message"], wire'[c]["message"], i) /\
               wire'[c]["edit"] = wire[c]["edit"]
          /\ wire'[c]["delete"] = wire[c]["delete"]
      BY <2>2, <1>7, <1>8, <1>10, <1>15, AlikeSelf
    <3>3. /\ Coming(send, c, wire[c]["message"], i) => Coming(send', c, wire'[c]["message"], i)
          /\ Says(send, c, wire[c]["message"], i, Now(table, i)) =>
               Says(send', c, wire'[c]["message"], i, Now(table, i))
      BY <3>1, <3>2, ComingStays
    <3> QED
      BY <2>1, <3>2, <3>3, AlikeSelf, AsideSelf, PairStays
  <2>3. CASE i = id
    <3>1. /\ Coming(send, c, wire[c]["message"], id) => Coming(send', c, wire'[c]["message"], id)
          /\ Says(send, c, wire[c]["message"], id, Now(table, id)) =>
               Says(send', c, wire'[c]["message"], id, Now(table, id))
      <4>1. CASE c # c0
        <5>1. wire'[c] = wire[c] /\ (Told(send', c, id) <=> Told(send, c, id))
              /\ send'[id].pc = send[id].pc /\ send'[id].msg = send[id].msg
          BY <4>1, <1>1, <1>3, <1>7, <1>11, <1>18
        <5> QED
          BY <5>1 DEF Coming, Says
      <4>2. CASE c = c0
        <5>1. wire'[c]["message"] = q /\ wire[c]["message"] = q0
          BY <4>2, <1>8, <1>10
        <5>2. Coming(send', c, q, id)
          BY <1>15 DEF Coming
        <5>3. ASSUME Says(send, c, q0, id, Now(table, id))
              PROVE  Says(send', c, q, id, Now(table, id))
          <6>1. Said(q0, id, Now(table, id)) /\ send[id].msg = Now(table, id)
            BY <4>2, <5>3, <1>1 DEF Says, Told
          <6>2. Said(q, id, Now(table, id))
            BY <6>1, <1>16
          <6> QED
            BY <6>1, <6>2, <1>3, <1>11 DEF Says
        <5> QED
          BY <5>1, <5>2, <5>3
      <4> QED
        BY <4>1, <4>2
    <3>2. wire'[c]["edit"] = wire[c]["edit"] /\ wire'[c]["delete"] = wire[c]["delete"]
      BY <1>7, <1>10
    <3> QED
      BY <2>1, <2>3, <3>1, <3>2, AlikeSelf, AsideSelf, PairStays
  <2> QED
    BY <2>2, <2>3
<1>21. AllPairs'
  BY <1>1, <1>20 DEF AllPairs
<1>22. ASSUME NEW c \in Clients \ (cut \cup mixed)
       PROVE  Debts(c, table, send', out, wire'[c]["message"], list[c])
  <2>1. Debts(c, table, send, out, wire[c]["message"], list[c])
    BY DEF MessageInv, AllDebts
  <2>2. SUFFICES ASSUME list[c] # NoList, NEW i \in 1 .. Len(list[c]), list[c][i].is = "pending"
                 PROVE  Debt(c, list[c][i].text, out[list[c][i].tmp], table, send',
                          wire'[c]["message"], list[c])
    BY <2>1 DEF Debts
  <2> DEFINE o == out[list[c][i].tmp]
             x == list[c][i].text
             p == wire[c]["message"]
             p2 == wire'[c]["message"]
  <2>3. Debt(c, x, o, table, send, p, list[c])
    BY <2>1, <2>2 DEF Debts
  <2>4. o.id = 0 \/ o.id \in Ids
    BY <2>2, PendingIs DEF MessageInv, TablesFit, Mutations
  <2>5. (c # c0 => p2 = p) /\ (c = c0 => p = q0 /\ p2 = q)
    BY <1>7, <1>8, <1>10
  <2>6. SUFFICES Debt(c, x, o, table, send', p2, list[c])
    OBVIOUS
  <2> HIDE DEF o, x, p, p2
  <2>7. CASE o.id = id
    <3>1. Waits(p, id) => Waits(p2, id)
      BY <2>5, <1>15
    <3>2. Coming(send, c, p, id) => Coming(send', c, p2, id)
      <4>1. CASE c # c0
        BY <4>1, <2>5, <1>1, <1>3, <1>11, <1>18 DEF Coming
      <4>2. CASE c = c0
        BY <4>2, <2>5, <1>15 DEF Coming
      <4> QED
        BY <4>1, <4>2
    <3>3. ASSUME o.pc \in {"run", "answered"}
          PROVE  /\ o.id # 0 /\ table[o.id].by = c /\ table[o.id].text = x /\ In(list[c], o.id) = {}
                 /\ send'[o.id].pc = "tell" => send'[o.id].msg.text = x
                 /\ \A j \in 1 .. Len(p2) : p2[j].id = o.id => p2[j].msg.text = x
      <4>1. /\ o.id # 0 /\ table[o.id].by = c /\ table[o.id].text = x /\ In(list[c], o.id) = {}
            /\ send[id].msg.text = x
            /\ \A j \in 1 .. Len(p) : p[j].id = id => p[j].msg.text = x
        BY <2>3, <2>7, <3>3, <1>1 DEF Debt
      <4>2. ASSUME NEW j \in 1 .. Len(p2), p2[j].id = id PROVE p2[j].msg.text = x
        <5>1. CASE c # c0
          BY <5>1, <4>1, <4>2, <2>5
        <5>2. CASE c = c0
          <6>1. (j = Len(q0) + 1 /\ q[j] = v) \/ (j \in 1 .. Len(q0) /\ q[j] = q0[j])
            BY <5>2, <2>5, <1>17
          <6> QED
            BY <6>1, <5>2, <4>1, <4>2, <2>5, <1>5
        <5> QED
          BY <5>1, <5>2
      <4> QED
        BY <4>1, <4>2, <2>7, <1>3, <1>11
    <3> QED
      BY <2>3, <2>7, <3>1, <3>2, <3>3, <1>1, <1>3, <1>11 DEF Debt
  <2>8. CASE o.id # id
    <3>1. o.pc \in {"run", "answered"} => send'[o.id] = send[o.id] /\ o.id \in Ids
      BY <2>3, <2>4, <2>8, <1>11 DEF Debt
    <3>2. o.id \in Ids => (Waits(p2, o.id) <=> Waits(p, o.id))
      BY <2>5, <2>8, <1>15
    <3>3. ASSUME NEW j \in 1 .. Len(p2), p2[j].id = o.id
          PROVE  \E k \in 1 .. Len(p) : p[k].id = o.id /\ p[k].msg = p2[j].msg
      <5>1. CASE c # c0
        BY <5>1, <3>3, <2>5
      <5>2. CASE c = c0
        <6>1. (j = Len(q0) + 1 /\ q[j] = v) \/ (j \in 1 .. Len(q0) /\ q[j] = q0[j])
          BY <5>2, <3>3, <2>5, <1>17
        <6> QED
          BY <6>1, <5>2, <3>3, <2>5, <2>8, <1>5
      <5> QED
        BY <5>1, <5>2
    <3> QED
      BY <2>3, <3>1, <3>2, <3>3, DebtStays
  <2> QED
    BY <2>7, <2>8
<1>23. AllDebts'
  BY <1>1, <1>22 DEF AllDebts
<1> QED
  BY <1>13, <1>14, <1>19, <1>21, <1>23 DEF MessageInv

\* A mutation fails: what was pending is an error.
LEMMA FailKeeps ==
  ASSUME MessagesAssumption, MessageInv, NEW t \in Temps, out[t].by \in Clients, Fail(t)
  PROVE  MessageInv'
<1> DEFINE c0 == out[t].by
           V == list[c0]
           W == [i \in 1 .. Len(V) |-> IF V[i].tmp = t THEN [V[i] EXCEPT !.is = "error"] ELSE V[i]]
           K == Known(table)
           r == [out[t] EXCEPT !.pc = "answered"]
<1>1. /\ UNCHANGED <<table, send, editor, del, wire, late, load, seen, over, mixed, cut>>
      /\ out' = [out EXCEPT ![t] = r] /\ out[t].pc \in {"refused", "run"}
      /\ list' = [list EXCEPT ![c0] = IF V = NoList THEN V ELSE W]
  BY DEF Fail, server, history
<1>2. Mutations(K, out) /\ K \in SUBSET Ids /\ DOMAIN list = Clients /\ c0 \in Clients
  BY KnownAre DEF MessageInv, TablesFit, Domains
<1>3. list'[c0] = (IF V = NoList THEN V ELSE W) /\
        (\A y \in Clients : y # c0 => list'[y] = list[y]) /\ DOMAIN list' = Clients
  BY <1>1, <1>2
<1>4. /\ out[t] \in [pc : {"new", "sent", "refused", "run", "answered"}, by : {0} \cup Clients,
                      text : {NoMsg} \cup Texts, id : {0} \cup Ids]
      /\ out[t].by \in Clients /\ out[t].text \in Texts /\ (out[t].id # 0 => out[t].id \in K)
      /\ out[t].id # 0 => \A s \in Temps : s # t => out[s].id # out[t].id
  BY <1>1, <1>2 DEF Mutations
<1>5. r.pc = "answered" /\ r.id = out[t].id /\ r.by = c0 /\ r.text = out[t].text
      /\ r \in [pc : {"new", "sent", "refused", "run", "answered"}, by : {0} \cup Clients,
                      text : {NoMsg} \cup Texts, id : {0} \cup K]
  BY <1>4
<1> HIDE DEF r
<1>6. Mutations(K, out')
  <2> HIDE DEF K
  <2> QED
    BY <1>1, <1>2, <1>4, <1>5, MutationOf
<1>7. out'[t] = r /\ \A s \in Temps : s # t => out'[s] = out[s]
  BY <1>1, <1>2 DEF Mutations
<1>8. ASSUME V # NoList
      PROVE  /\ V \in Seq(Listed(K)) /\ Unique(V) /\ Len(W) = Len(V)
             /\ \A i \in 1 .. Len(V) : W[i] \in Listed(K) /\ W[i].id = V[i].id /\
                  W[i].text = V[i].text
                  /\ W[i].emb = V[i].emb /\ W[i].tmp = V[i].tmp /\ (V[i].tmp # t => W[i] = V[i])
                  /\ (V[i].tmp = t => W[i].is = "error")
  <2>1. Lists(K, V, late[c0])
    BY <1>2 DEF MessageInv, ClientsFit
  <2>2. V \in Seq(Listed(K)) /\ Unique(V)
    BY <1>8, <2>1 DEF Lists
  <2>3. Len(W) = Len(V)
    <3>1. Len(V) \in Nat
      BY <2>2
    <3> QED
      BY <3>1
  <2>4. ASSUME NEW i \in 1 .. Len(V)
        PROVE  /\ W[i] \in Listed(K) /\ W[i].id = V[i].id /\ W[i].text = V[i].text
               /\ W[i].emb = V[i].emb /\ W[i].tmp = V[i].tmp /\ (V[i].tmp # t => W[i] = V[i])
               /\ (V[i].tmp = t => W[i].is = "error")
    <3>1. V[i] \in Listed(K) /\ W[i] = IF V[i].tmp = t THEN [V[i] EXCEPT !.is = "error"] ELSE V[i]
      BY <2>2
    <3> HIDE DEF W, V, K
    <3>2. CASE V[i].tmp # t
      BY <3>1, <3>2
    <3>3. CASE V[i].tmp = t
      <4>1. W[i] = [V[i] EXCEPT !.is = "error"] /\ t # 0
        BY <3>1, <3>3 DEF Temps
      <4>2. V[i] \in Own
        BY <3>1, <3>3, <4>1 DEF Listed, Sent
      <4>3. W[i] \in Own /\ W[i].is = "error" /\ W[i].id = V[i].id /\ W[i].text = V[i].text
               /\ W[i].emb = V[i].emb /\ W[i].tmp = V[i].tmp
        BY <4>1, <4>2 DEF Own
      <4> QED
        BY <3>3, <4>3 DEF Listed
    <3> QED
      BY <3>2, <3>3
  <2> QED
    BY <2>2, <2>3, <2>4
<1>9. ASSUME V # NoList
      PROVE  /\ W \in Seq(Listed(K)) /\ Unique(W) /\ W # NoList /\ \A id : In(W, id) = In(V, id)
  <2>1. W \in Seq(Listed(K))
    <3>1. Len(V) \in Nat /\ \A i \in 1 .. Len(V) : W[i] \in Listed(K)
      <4> HIDE DEF W, V, K
      <4> QED
        BY <1>8, <1>9
    <3>2. W \in [1 .. Len(V) -> Listed(K)]
      BY <3>1
    <3> HIDE DEF W
    <3> QED
      BY <3>1, <3>2
  <2> HIDE DEF W, V, K
  <2>2. W # NoList
    BY <2>1, <1>2, ConstantsAre
  <2>3. \A id : In(W, id) = In(V, id) /\ (Unique(V) => Unique(W))
    <3>1. SUFFICES ASSUME NEW id PROVE In(W, id) = In(V, id) /\ (Unique(V) => Unique(W))
      OBVIOUS
    <3>2. Len(W) = Len(V) /\ (\A i \in 1 .. Len(V) : W[i].id = V[i].id)
          /\ \A i \in 1 .. Len(V) : V[i].id = id => W[i].text = V[i].text /\ W[i].emb = V[i].emb
      BY <1>8, <1>9
    <3> QED
      BY <3>2, PatchShows
  <2> QED
    BY <2>1, <2>2, <2>3, <1>8, <1>9
<1> HIDE DEF W
<1>10. TablesFit'
  BY <1>1, <1>3, <1>6 DEF MessageInv, TablesFit, Domains
<1>11. ClientsFit'
  <2>1. V # NoList => Lists(K, W, late[c0])
    BY <1>9 DEF Lists, MessageInv, ClientsFit
  <2> QED
    BY <1>1, <1>3, <2>1 DEF MessageInv, ClientsFit
<1>12. AllOnce'
  BY <1>1 DEF MessageInv, AllOnce
<1>13. ASSUME NEW y \in Clients \ cut, NEW id \in Ids \ over[y]
       PROVE  Pair(y, id, table, send, editor, del, wire[y], list'[y], late[y], load[y], seen[y])
  <2>1. Pair(y, id, table, send, editor, del, wire[y], list[y], late[y], load[y], seen[y])
    BY DEF MessageInv, AllPairs
  <2>2. CASE y # c0 \/ V = NoList
    BY <2>1, <2>2, <1>3
  <2>3. CASE y = c0 /\ V # NoList
    <3>1. In(W, id) = In(V, id)
      BY <1>9, <2>3
    <3>2. \A Y \in Views(W, load[y], id) : \E X \in Views(list[y], load[y], id) :
            In(Y, id) = In(X, id)
      BY <2>3, <3>1, ListViews
    <3> QED
      BY <2>1, <2>3, <3>2, <1>3, PairLists
  <2> QED
    BY <2>2, <2>3
<1>14. AllPairs'
  BY <1>1, <1>13 DEF AllPairs
<1>15. ASSUME NEW y \in Clients \ (cut \cup mixed)
       PROVE  Debts(y, table, send, out', wire[y]["message"], list'[y])
  <2>1. Debts(y, table, send, out, wire[y]["message"], list[y])
    BY DEF MessageInv, AllDebts
  <2>2. CASE y # c0 \/ V = NoList
    <3>1. list'[y] = list[y]
      BY <2>2, <1>3
    <3>2. SUFFICES ASSUME list[y] # NoList, NEW i \in 1 .. Len(list[y]), list[y][i].is = "pending"
                   PROVE  Debt(y, list[y][i].text, out'[list[y][i].tmp], table, send,
                            wire[y]["message"], list[y])
      BY <2>1, <3>1 DEF Debts
    <3>3. Debt(y, list[y][i].text, out[list[y][i].tmp], table, send, wire[y]["message"], list[y])
      BY <2>1, <3>2 DEF Debts
    <3>4. list[y][i].tmp \in Temps /\ list[y][i].tmp # t
      BY <2>2, <3>2, <3>3, PendingIs DEF Debt
    <3> QED
      BY <3>3, <3>4, <1>7
  <2>3. CASE y = c0 /\ V # NoList
    <3>1. list'[y] = W /\ list[y] = V
      BY <2>3, <1>3
    <3>2. ASSUME NEW i \in 1 .. Len(W), W[i].is = "pending"
          PROVE  Debt(y, W[i].text, out'[W[i].tmp], table, send, wire[y]["message"], W)
                 /\ i \in 1 .. Len(V) /\ V[i].is = "pending" /\ W[i].tmp = V[i].tmp
      <4>1. i \in 1 .. Len(V) /\ V[i].tmp # t /\ W[i] = V[i]
        BY <3>2, <2>3, <1>8
      <4>2. list[y][i].tmp \in Temps
        BY <3>1, <3>2, <4>1, <2>3, PendingIs
      <4>3. Debt(y, W[i].text, out'[W[i].tmp], table, send, wire[y]["message"], V)
        BY <2>1, <2>3, <3>1, <3>2, <4>1, <4>2, <1>7 DEF Debts
      <4>4. \A id : In(W, id) = In(V, id)
        BY <2>3, <1>9
      <4>5. Debt(y, W[i].text, out'[W[i].tmp], table, send, wire[y]["message"], W)
        BY <4>3, <4>4, DebtStays
      <4> QED
        BY <4>1, <4>5, <3>2
    <3>3. ASSUME NEW i \in 1 .. Len(W), NEW j \in 1 .. Len(W), W[i].is = "pending",
                   W[j].is = "pending",
                 W[i].tmp = W[j].tmp
          PROVE  i = j
      BY <2>1, <2>3, <3>1, <3>2, <3>3 DEF Debts
    <3>4. Debts(y, table, send, out', wire[y]["message"], W)
      BY <3>2, <3>3 DEF Debts
    <3> QED
      BY <3>1, <3>4
  <2> QED
    BY <2>2, <2>3
<1>16. AllDebts'
  BY <1>1, <1>15 DEF AllDebts
<1> QED
  BY <1>10, <1>11, <1>12, <1>14, <1>16 DEF MessageInv

\* The server reads the page for a load: a new view, which shows the rows.
LEMMA ReadTableKeeps ==
  ASSUME MessagesAssumption, MessageInv, NEW c \in Clients, NEW l \in Loads, ReadTable(c, l)
  PROVE  MessageInv'
<1> DEFINE r == [pc |-> "read", missed |-> {}, rows |-> Page]
           P == Page
           K == Known(table)
<1>1. /\ UNCHANGED <<table, send, editor, del, out, wire, list, late, seen, over, mixed, cut>>
      /\ load' = [load EXCEPT ![c] = [load[c] EXCEPT ![l] = r]]
  BY DEF ReadTable, server, history
<1>2. DOMAIN load = Clients /\ Rows(table, send, del) /\ MaxRows \in Nat
  BY ConstantsAre DEF MessageInv, TablesFit, Domains
<1>3. load'[c] = [load[c] EXCEPT ![l] = r] /\
        (\A x \in Clients : x # c => load'[x] = load[x]) /\ DOMAIN load' = Clients
  BY <1>1, <1>2
<1>4. Loading(K, load[c])
  BY DEF MessageInv, ClientsFit
<1>5. /\ P \in Seq(Sent(K)) /\ Unique(P)
      /\ \A id \in Ids : In(P, id) = IF Here(id) THEN {Content(id)} ELSE {}
  BY <1>2, PageFits
<1> HIDE DEF P, K
<1>6. /\ r.pc = "read" /\ r.rows = P /\ Unique(r.rows)
      /\ r \in [pc : {"new", "asked", "read", "done"}, rows : Seq(Sent(K)), missed : SUBSET Ids]
  <2>1. r = [pc |-> "read", missed |-> {}, rows |-> P]
    BY DEF P
  <2> HIDE DEF r
  <2> QED
    BY <1>5, <2>1
<1> HIDE DEF r
<1>7. Loading(K, load'[c])
  BY <1>3, <1>4, <1>6, LoadingOf
<1>8. TablesFit'
  BY <1>1, <1>3 DEF MessageInv, TablesFit, Domains
<1>9. ClientsFit'
  BY <1>1, <1>3, <1>7 DEF MessageInv, ClientsFit, K
<1>10. AllOnce' /\ AllDebts'
  BY <1>1 DEF MessageInv, AllOnce, AllDebts
<1>11. ASSUME NEW x \in Clients \ cut, NEW id \in Ids \ over[x]
       PROVE  Pair(x, id, table, send, editor, del, wire[x], list[x], late[x], load'[x], seen[x])
  <2>1. Pair(x, id, table, send, editor, del, wire[x], list[x], late[x], load[x], seen[x])
    BY DEF MessageInv, AllPairs
  <2>2. CASE x # c
    BY <2>1, <2>2, <1>3
  <2>3. CASE x = c
    <3>1. /\ Sight(In(P, id), table, send, del, x, wire[x], id)
          /\ Is(table, id) => Right(In(P, id), table, send, x, wire[x], id)
      <4>1. CASE Here(id)
        <5>1. In(P, id) = {Now(table, id)} /\ Is(table, id)
          BY <4>1, <1>5 DEF Content, Now, Here, Is
        <5>2. In(P, id) # {}
          BY <5>1
        <5> QED
          BY <5>1, <5>2 DEF Sight, Right
      <4>2. CASE ~Here(id)
        <5>1. In(P, id) = {} /\ ~Is(table, id)
          BY <4>2, <1>5 DEF Here, Is
        <5> QED
          BY <5>1 DEF Sight
      <4> QED
        BY <4>1, <4>2
    <3>2. \A Y \in Views(list[x], load'[x], id) : Y \in Views(list[x], load[x], id) \/ Y = P
      BY <2>3, <1>3, <1>4, <1>6, LoadViews
    <3> QED
      BY <2>1, <3>1, <3>2 DEF Pair
  <2> QED
    BY <2>2, <2>3
<1>12. AllPairs'
  BY <1>1, <1>11 DEF AllPairs
<1> QED
  BY <1>8, <1>9, <1>10, <1>12 DEF MessageInv

\* The page becomes the list; what it undoes is excepted.
LEMMA AssignKeeps ==
  ASSUME MessagesAssumption, MessageInv, NEW c \in Clients, NEW l \in Loads, Assign(c, l)
  PROVE  MessageInv'
<1> DEFINE r == [Fresh EXCEPT !.pc = "done"]
           R == load[c][l].rows
           K == Known(table)
<1>1. /\ UNCHANGED <<table, send, editor, del, out, wire, late, seen, mixed, cut>>
      /\ load' = [load EXCEPT ![c] = [load[c] EXCEPT ![l] = r]]
      /\ list' = [list EXCEPT ![c] = R] /\ load[c][l].pc = "read"
      /\ over' = [over EXCEPT ![c] = over[c] \cup load[c][l].missed]
  BY DEF Assign, server, history
<1>2. DOMAIN load = Clients /\ DOMAIN list = Clients /\ DOMAIN over = Clients /\ K \in SUBSET Ids
  BY KnownAre DEF MessageInv, TablesFit, Domains
<1>3. /\ load'[c] = [load[c] EXCEPT ![l] = r] /\
           (\A x \in Clients : x # c => load'[x] = load[x]) /\ DOMAIN load' = Clients
      /\ list'[c] = R /\ (\A x \in Clients : x # c => list'[x] = list[x]) /\ DOMAIN list' = Clients
      /\ over'[c] = over[c] \cup load[c][l].missed /\
           (\A x \in Clients : x # c => over'[x] = over[x]) /\ DOMAIN over' = Clients
  BY <1>1, <1>2
<1>4. Loading(K, load[c])
  BY DEF MessageInv, ClientsFit
<1>5. R \in Seq(Sent(K)) /\ Unique(R)
  BY <1>4 DEF Loading
<1> HIDE DEF K, R
<1>6. R \in Seq(Listed(K)) /\ R # NoList
  BY <1>2, <1>5, ListedIsItems, SeqGrows, ConstantsAre
<1>7. /\ r.pc = "done" /\ Unique(r.rows)
      /\ r \in [pc : {"new", "asked", "read", "done"}, rows : Seq(Sent(K)), missed : SUBSET Ids]
  <2>1. r \in [pc : {"done"}, rows : {<<>>}, missed : {{}}]
    BY DEF Fresh
  <2>2. <<>> \in Seq(Sent(K)) /\ Unique(<<>>)
    BY DEF Unique
  <2> HIDE DEF r
  <2> QED
    BY <2>1, <2>2
<1> HIDE DEF r
<1>8. Loading(K, load'[c])
  BY <1>3, <1>4, <1>7, LoadingOf
<1>9. TablesFit'
  BY <1>1, <1>3 DEF MessageInv, TablesFit, Domains
<1>10. ClientsFit'
  <2>1. Lists(K, R, late[c])
    BY <1>5, <1>6 DEF Lists, MessageInv, ClientsFit, K
  <2> QED
    BY <1>1, <1>3, <1>8, <2>1 DEF MessageInv, ClientsFit, K
<1>11. AllOnce'
  BY <1>1 DEF MessageInv, AllOnce
<1>12. ASSUME NEW x \in Clients \ cut, NEW id \in Ids \ over'[x]
       PROVE  Pair(x, id, table, send, editor, del, wire[x], list'[x], late[x], load'[x], seen[x])
  <2>1. Pair(x, id, table, send, editor, del, wire[x], list[x], late[x], load[x], seen[x])
    BY <1>3 DEF MessageInv, AllPairs
  <2>2. CASE x # c
    BY <2>1, <2>2, <1>3
  <2>3. CASE x = c
    <3>1. R \in Views(list[c], load[c], id)
      BY <2>3, <1>1, <1>3 DEF Views, R
    <3>2. ASSUME NEW Y \in Views(R, load'[c], id) PROVE Y \in Views(list[c], load[c], id)
      <4>1. Y \in Views(R, load[c], id)
        BY <1>3, <1>4, <1>7, LoadViews
      <4> QED
        BY <3>1, <4>1 DEF Views
    <3>3. \A Y \in Views(list'[x], load'[x], id) : \E X \in Views(list[x], load[x], id) :
            In(Y, id) = In(X, id)
      BY <2>3, <3>2, <1>3
    <3> QED
      BY <2>1, <3>3, PairLists
  <2> QED
    BY <2>2, <2>3
<1>13. AllPairs'
  BY <1>1, <1>12 DEF AllPairs
<1>14. ASSUME NEW x \in Clients \ (cut \cup mixed)
       PROVE  Debts(x, table, send, out, wire[x]["message"], list'[x])
  <2>1. Debts(x, table, send, out, wire[x]["message"], list[x])
    BY DEF MessageInv, AllDebts
  <2>2. CASE x # c
    BY <2>1, <2>2, <1>3
  <2>3. CASE x = c
    <3>1. \A i \in 1 .. Len(R) : R[i].is # "pending"
      <4>1. SUFFICES ASSUME NEW i \in 1 .. Len(R) PROVE R[i].is # "pending"
        OBVIOUS
      <4>2. R[i] \in Sent(K)
        BY <1>5
      <4> QED
        BY <4>2 DEF Sent
    <3>2. Debts(c, table, send, out, wire[c]["message"], R)
      BY <3>1 DEF Debts
    <3> QED
      BY <2>3, <3>2, <1>3
  <2> QED
    BY <2>2, <2>3
<1>15. AllDebts'
  BY <1>1, <1>14 DEF AllDebts
<1> QED
  BY <1>9, <1>10, <1>11, <1>13, <1>15 DEF MessageInv

\* A connection breaks: its client is excepted.
LEMMA DropKeeps == ASSUME MessageInv, NEW c0 \in Clients, Drop(c0) PROVE MessageInv'
<1> DEFINE K == Known(table)
           G == Gone(table)
           e == [k \in Topics |-> <<>>]
           p == [l \in Loads |-> IF load[c0][l].pc = "read" THEN [Fresh EXCEPT !.pc = "asked"]
                           ELSE load[c0][l]]
<1>1. /\ UNCHANGED <<table, send, editor, del, list, late, seen, over, mixed>>
      /\ wire' = [wire EXCEPT ![c0] = e] /\ load' = [load EXCEPT ![c0] = p] /\ cut' = cut \cup {c0}
      /\ out' = [t \in Temps |-> IF out[t].by = c0 /\ out[t].pc \in {"refused", "run"}
                                 THEN [out[t] EXCEPT !.pc = "sent", !.id = 0] ELSE out[t]]
  BY DEF Drop, server
<1>2. DOMAIN wire = Clients /\ DOMAIN load = Clients /\ Mutations(K, out)
  BY DEF MessageInv, TablesFit, Domains
<1>3. /\ load'[c0] = p /\ (\A x \in Clients : x # c0 => load'[x] = load[x]) /\
           DOMAIN load' = Clients
      /\ wire'[c0] = e /\ (\A x \in Clients : x # c0 => wire'[x] = wire[x]) /\
           DOMAIN wire' = Clients
  <2> HIDE DEF p, e
  <2> QED
    BY <1>1, <1>2
<1>4. ASSUME NEW t \in Temps
      PROVE  /\ out'[t] \in [pc : {"new", "sent", "refused", "run", "answered"}, by : {0} \cup
                  Clients,
                              text : {NoMsg} \cup Texts, id : {0} \cup Ids]
             /\ out'[t] = out[t] \/ (out[t].by = c0 /\ out'[t].pc = "sent" /\ out'[t].id = 0
                                     /\ out'[t].text = out[t].text /\ out'[t].by = c0 /\
                                          out[t].pc # "new")
  <2>1. out[t] \in [pc : {"new", "sent", "refused", "run", "answered"}, by : {0} \cup Clients,
                              text : {NoMsg} \cup Texts, id : {0} \cup Ids]
    BY <1>2 DEF Mutations
  <2>2. CASE out[t].by = c0 /\ out[t].pc \in {"refused", "run"}
    <3>1. out'[t] = [out[t] EXCEPT !.pc = "sent", !.id = 0]
      BY <2>2, <1>1
    <3> QED
      BY <2>1, <2>2, <3>1
  <2>3. CASE ~(out[t].by = c0 /\ out[t].pc \in {"refused", "run"})
    <3>1. out'[t] = out[t]
      BY <2>3, <1>1
    <3> QED
      BY <2>1, <3>1
  <2> QED
    BY <2>2, <2>3
<1>5. Mutations(K, out')
  <2>1. out' \in [Temps -> [pc : {"new", "sent", "refused", "run", "answered"}, by : {0} \cup
          Clients,
                              text : {NoMsg} \cup Texts, id : {0} \cup Ids]]
    <3>1. out' = [t \in Temps |-> out'[t]]
      BY <1>1
    <3> QED
      BY <3>1, <1>4
  <2>2. \A t \in Temps :
       /\ out'[t].pc # "new" => out'[t].by \in Clients /\ out'[t].text \in Texts
       /\ out'[t].pc \in {"new", "sent", "refused"} => out'[t].id = 0
       /\ out'[t].pc = "run" => out'[t].id # 0
       /\ out'[t].id # 0 => out'[t].id \in K
       /\ out'[t].id # 0 => out'[t] = out[t]
    BY <1>2, <1>4 DEF Mutations
  <2>3. \A s, t \in Temps : out'[s].id = out'[t].id /\ out'[s].id # 0 => s = t
    BY <1>2, <2>2 DEF Mutations
  <2> QED
    BY <2>1, <2>2, <2>3 DEF Mutations
<1>6. \A k \in Topics : e[k] = <<>>
  OBVIOUS
<1>7. Wires(K, G, e)
  BY TopicsAre DEF Wires
<1>8. Loading(K, p)
  <2>1. Loading(K, load[c0])
    BY DEF MessageInv, ClientsFit
  <2>2. ASSUME NEW l \in Loads
        PROVE  /\ p[l] \in [pc : {"new", "asked", "read", "done"}, rows : Seq(Sent(K)), missed :
                    SUBSET Ids]
               /\ Unique(p[l].rows)
    <3>1. CASE load[c0][l].pc = "read"
      <4>1. p[l] = [pc |-> "asked", rows |-> <<>>, missed |-> {}]
        BY <3>1 DEF Fresh
      <4>2. <<>> \in Seq(Sent(K)) /\ Unique(<<>>)
        BY DEF Unique
      <4> HIDE DEF p
      <4> QED
        BY <4>1, <4>2
    <3>2. CASE load[c0][l].pc # "read"
      <4>1. p[l] = load[c0][l]
        BY <3>2
      <4> HIDE DEF p
      <4> QED
        BY <2>1, <4>1 DEF Loading
    <3> QED
      BY <3>1, <3>2
  <2>3. p = [l \in Loads |-> p[l]]
    OBVIOUS
  <2> HIDE DEF p
  <2> QED
    BY <2>2, <2>3 DEF Loading
<1> HIDE DEF K, G, e, p
<1>9. TablesFit'
  BY <1>1, <1>3, <1>5 DEF MessageInv, TablesFit, Domains, K
<1>10. ClientsFit'
  BY <1>1, <1>3, <1>7, <1>8 DEF MessageInv, ClientsFit, K, G
<1>11. AllOnce'
  <2>1. ASSUME NEW c \in Clients, NEW id \in Ids
        PROVE  Once(send, c, wire'[c]["message"], seen[c], id)
    <3>1. Once(send, c, wire[c]["message"], seen[c], id)
      BY DEF MessageInv, AllOnce
    <3>2. CASE c # c0
      BY <3>1, <3>2, <1>3
    <3>3. CASE c = c0
      <4>1. wire'[c]["message"] = <<>>
        BY <3>3, <1>3, <1>6, TopicsAre
      <4> QED
        BY <3>1, <4>1, Nothing DEF Once
    <3> QED
      BY <3>2, <3>3
  <2> QED
    BY <1>1, <2>1 DEF AllOnce
<1>12. AllPairs'
  <2>1. ASSUME NEW c \in Clients \ cut', NEW id \in Ids \ over[c]
        PROVE  Pair(c, id, table, send, editor, del, wire'[c], list[c], late[c], load'[c], seen[c])
    <3>1. c # c0 /\ c \notin cut
      BY <1>1
    <3>2. wire'[c] = wire[c] /\ load'[c] = load[c]
      BY <3>1, <1>3
    <3> QED
      BY <3>1, <3>2 DEF MessageInv, AllPairs
  <2> QED
    BY <1>1, <2>1 DEF AllPairs
<1>13. AllDebts'
  <2>1. ASSUME NEW c \in Clients \ (cut' \cup mixed)
        PROVE  Debts(c, table, send, out', wire'[c]["message"], list[c])
    <3>1. c # c0 /\ c \notin cut
      BY <1>1
    <3>2. Debts(c, table, send, out, wire[c]["message"], list[c]) /\ wire'[c] = wire[c]
      BY <3>1, <1>3 DEF MessageInv, AllDebts
    <3>3. SUFFICES ASSUME list[c] # NoList, NEW i \in 1 .. Len(list[c]), list[c][i].is = "pending"
                   PROVE  Debt(c, list[c][i].text, out'[list[c][i].tmp], table, send,
                            wire[c]["message"], list[c])
      BY <3>2 DEF Debts
    <3>4. Debt(c, list[c][i].text, out[list[c][i].tmp], table, send, wire[c]["message"], list[c])
      BY <3>2, <3>3 DEF Debts
    <3>5. list[c][i].tmp \in Temps /\ out[list[c][i].tmp].by # c0
      BY <3>1, <3>3, <3>4, PendingIs DEF Debt
    <3>6. out'[list[c][i].tmp] = out[list[c][i].tmp]
      BY <3>5, <1>4
    <3> QED
      BY <3>4, <3>6
  <2> QED
    BY <1>1, <2>1 DEF AllDebts
<1> QED
  BY <1>9, <1>10, <1>11, <1>12, <1>13 DEF MessageInv

\* After an event a load that has read is no view of its message.
LEMMA MissedIs ==
  ASSUME MessageInv, NEW c \in Clients, NEW id \in Ids, load' = Missed(c, id)
  PROVE  /\ DOMAIN load' = Clients /\ \A x \in Clients : x # c => load'[x] = load[x]
         /\ Loading(Known(table), load'[c])
         /\ \A V, i : Views(V, load'[c], i) \subseteq Views(V, load[c], i)
         /\ \A V : Views(V, load'[c], id) \subseteq {V} \ {NoList}
<1> DEFINE ld == load[c]
           p == Misses(load[c], id)
           K == Known(table)
<1>1. load' = [load EXCEPT ![c] = p] /\ DOMAIN load = Clients
  <2>1. DOMAIN load = Clients
    BY DEF MessageInv, TablesFit, Domains
  <2>2. load' = [load EXCEPT ![c] = p]
    BY DEF Missed
  <2> QED
    BY <2>1, <2>2
<1>2. DOMAIN load' = Clients /\ load'[c] = p /\ \A x \in Clients : x # c => load'[x] = load[x]
  <2> HIDE DEF p
  <2> QED
    BY <1>1
<1>3. Loading(K, ld)
  BY DEF MessageInv, ClientsFit
<1>4. ASSUME NEW l \in Loads
      PROVE  /\ p[l] \in [pc : {"new", "asked", "read", "done"}, rows : Seq(Sent(K)), missed :
                  SUBSET Ids]
             /\ p[l].rows = ld[l].rows /\ p[l].pc = ld[l].pc /\ ld[l].missed \subseteq p[l].missed
             /\ p[l].pc = "read" => id \in p[l].missed
  <2>1. ld[l] \in [pc : {"new", "asked", "read", "done"}, rows : Seq(Sent(K)), missed : SUBSET Ids]
    BY <1>3 DEF Loading
  <2>2. p[l] = IF ld[l].pc = "read" THEN [ld[l] EXCEPT !.missed = @ \cup {id}] ELSE ld[l]
    BY DEF Misses
  <2> HIDE DEF p, ld, K
  <2>3. CASE ld[l].pc = "read"
    <3>1. p[l] = [ld[l] EXCEPT !.missed = @ \cup {id}]
      BY <2>2, <2>3
    <3> QED
      BY <2>1, <2>3, <3>1
  <2>4. CASE ld[l].pc # "read"
    BY <2>1, <2>2, <2>4
  <2> QED
    BY <2>3, <2>4
<1>5. p = [l \in Loads |-> p[l]]
  BY DEF Misses
<1> HIDE DEF p, ld, K
<1>6. Loading(K, p)
  BY <1>3, <1>4, <1>5 DEF Loading
<1>7. ASSUME NEW V, NEW i PROVE Views(V, p, i) \subseteq Views(V, ld, i)
  BY <1>4 DEF Views
<1>8. ASSUME NEW V PROVE Views(V, p, id) \subseteq {V} \ {NoList}
  BY <1>4 DEF Views
<1> QED
  BY <1>2, <1>6, <1>7, <1>8 DEF ld, K

\* An event is taken from a topic.
LEMMA TakenIs ==
  ASSUME MessageInv, NEW c \in Clients, NEW k \in Topics, wire[c][k] # <<>>, wire' = Taken(c, k)
  PROVE  /\ DOMAIN wire' = Clients /\ \A x \in Clients : x # c => wire'[x] = wire[x]
         /\ Wires(Known(table), Gone(table), wire'[c]) /\ wire'[c][k] = Tail(wire[c][k])
         /\ \A j \in Topics : j # k => wire'[c][j] = wire[c][j]
         /\ k # "delete" => wire[c][k] \in Seq(Posts(Known(table))) /\
              Head(wire[c][k]) \in Posts(Known(table))
         /\ k = "delete" => wire[c][k] \in Seq(Mail(Gone(table))) /\
              Head(wire[c][k]) \in Mail(Gone(table))
<1> DEFINE w == wire[c]
           q == Tail(w[k])
           K == Known(table)
           G == Gone(table)
<1>1. wire' = [wire EXCEPT ![c] = [w EXCEPT ![k] = q]] /\ DOMAIN wire = Clients
  BY DEF MessageInv, TablesFit, Domains, Taken
<1>2. Wires(K, G, w) /\ G \in SUBSET K
  BY KnownAre DEF MessageInv, ClientsFit
<1>3. w[k] # <<>> /\ q = Tail(w[k])
  OBVIOUS
<1> HIDE DEF w, q, K, G
<1>4. wire'[c] = [w EXCEPT ![k] = q] /\ DOMAIN wire' = Clients /\ \A x \in Clients : x # c =>
        wire'[x] = wire[x]
  BY <1>1
<1>5. (k # "delete" => w[k] \in Seq(Posts(K))) /\ (k = "delete" => w[k] \in Seq(Mail(G)))
  BY <1>2, TopicsAre DEF Wires
<1>6. /\ k # "delete" => q \in Seq(Posts(K)) /\ Head(w[k]) \in Posts(K)
      /\ k = "delete" => q \in Seq(Mail(G)) /\ Head(w[k]) \in Mail(G)
  BY <1>3, <1>5, TailFits
<1>7. Wires(K, G, [w EXCEPT ![k] = q])
  BY <1>2, <1>6, WiresOf
<1>8. [w EXCEPT ![k] = q][k] = q /\ \A j \in Topics : j # k => [w EXCEPT ![k] = q][j] = w[j]
  BY <1>2 DEF Wires
<1>9. Wires(K, G, wire'[c]) /\ wire'[c][k] = q /\ \A j \in Topics : j # k => wire'[c][j] = w[j]
  BY <1>4, <1>7, <1>8
<1> QED
  BY <1>3, <1>4, <1>5, <1>6, <1>9 DEF w, K, G

\* An edit reaches a client.
LEMMA EditMeets ==
  ASSUME NEW c, NEW id, NEW t, NEW d, NEW ed, NEW dl, NEW w, NEW V, NEW lt, NEW ld, NEW sn,
         NEW w2, NEW W, NEW lt2, NEW ld2, Pair(c, id, t, d, ed, dl, w, V, lt, ld, sn),
         w2["message"] = w["message"], w2["delete"] = w["delete"],
         Views(W, ld2, id) \subseteq {W} \ {NoList},
         W # NoList => V # NoList /\ (In(W, id) = {} <=> In(V, id) = {}),
         Is(t, id) /\ ~Working(ed, id) =>
           IF Waits(w2["edit"], id) THEN LastSays(w2["edit"], id, Now(t, id))
           ELSE IF Waits(lt2, id) THEN LastSays(lt2, id, Now(t, id))
           ELSE W # NoList => Right(In(W, id), t, d, c, w, id)
  PROVE  Pair(c, id, t, d, ed, dl, w2, W, lt2, ld2, sn)
<1>1. ASSUME NEW X \in Views(W, ld2, id) PROVE Sight(In(X, id), t, d, dl, c, w2, id)
  <2>1. X = W /\ W # NoList
    OBVIOUS
  <2>2. V \in Views(V, ld, id) /\ (In(W, id) = {} <=> In(V, id) = {})
    BY <2>1 DEF Views
  <2>3. Sight(In(V, id), t, d, dl, c, w, id)
    BY <2>2 DEF Pair
  <2> QED
    BY <2>1, <2>2, <2>3 DEF Sight, Departing
<1>2. ASSUME Is(t, id), ~Working(ed, id)
      PROVE  IF Waits(w2["edit"], id) THEN LastSays(w2["edit"], id, Now(t, id))
             ELSE IF Waits(lt2, id) THEN LastSays(lt2, id, Now(t, id))
             ELSE \A X \in Views(W, ld2, id) : Right(In(X, id), t, d, c, w2, id)
  <2>1. CASE Waits(w2["edit"], id) \/ Waits(lt2, id)
    BY <1>2, <2>1
  <2>2. CASE ~(Waits(w2["edit"], id) \/ Waits(lt2, id))
    <3>1. W # NoList => Right(In(W, id), t, d, c, w2, id)
      BY <1>2, <2>2 DEF Right
    <3> QED
      BY <2>2, <3>1
  <2> QED
    BY <2>1, <2>2
<1> QED
  BY <1>1, <1>2 DEF Pair

\* Debts when the list changes otherwise than by a pending message.
LEMMA DebtsLists ==
  ASSUME NEW c, NEW t, NEW d, NEW o, NEW q, NEW V, NEW W, V # NoList, Debts(c, t, d, o, q, V),
         NEW f \in [1 .. Len(W) -> 1 .. Len(V)],
         \A i \in 1 .. Len(W) : W[i].is = "pending" => W[i] = V[f[i]],
         \A i, j \in 1 .. Len(W) : f[i] = f[j] => i = j,
         \A i \in 1 .. Len(V) : V[i].is = "pending" /\ o[V[i].tmp].pc \in {"run", "answered"} =>
           In(W, o[V[i].tmp].id) = In(V, o[V[i].tmp].id)
  PROVE  Debts(c, t, d, o, q, W)
<1>1. ASSUME NEW i \in 1 .. Len(W), W[i].is = "pending"
      PROVE  Debt(c, W[i].text, o[W[i].tmp], t, d, q, W)
  <2>1. f[i] \in 1 .. Len(V) /\ W[i] = V[f[i]]
    BY <1>1
  <2>2. Debt(c, W[i].text, o[W[i].tmp], t, d, q, V)
    BY <1>1, <2>1 DEF Debts
  <2>3. o[W[i].tmp].pc \in {"run", "answered"} => In(W, o[W[i].tmp].id) = In(V, o[W[i].tmp].id)
    BY <1>1, <2>1
  <2> QED
    BY <2>2, <2>3, DebtStays
<1>2. ASSUME NEW i \in 1 .. Len(W), NEW j \in 1 .. Len(W), W[i].is = "pending", W[j].is = "pending",
             W[i].tmp = W[j].tmp
      PROVE  i = j
  <2>1. f[i] \in 1 .. Len(V) /\ W[i] = V[f[i]] /\ f[j] \in 1 .. Len(V) /\ W[j] = V[f[j]]
    BY <1>2
  <2>2. f[i] = f[j]
    BY <1>2, <2>1 DEF Debts
  <2> QED
    BY <2>2
<1> QED
  BY <1>1, <1>2 DEF Debts

\* A message is its two fields.
LEMMA MsgIs == ASSUME NEW m \in Msgs PROVE [text |-> m.text, emb |-> m.emb] = m
  BY DEF Msgs

\* What an edit of a message in the list makes of the list.
Patched(V, k, m) == [V EXCEPT ![k] = [@ EXCEPT !.text = m.text, !.emb = m.emb]]

\* ... shows that content, and all else as before.
LEMMA PatchedIs ==
  ASSUME MessagesAssumption, NEW K \in SUBSET Ids, NEW V \in Seq(Listed(K)), Unique(V),
           NEW k \in 1 .. Len(V),
         NEW id \in Ids, V[k].id = id, NEW m \in Msgs
  PROVE  /\ Patched(V, k, m) \in Seq(Listed(K)) /\ Unique(Patched(V, k, m)) /\
              Patched(V, k, m) # NoList
         /\ Len(Patched(V, k, m)) = Len(V)
         /\ \A i \in 1 .. Len(V) : Patched(V, k, m)[i].is = "pending" => Patched(V, k, m)[i] = V[i]
         /\ \A i : i # id => In(Patched(V, k, m), i) = In(V, i)
         /\ In(Patched(V, k, m), id) = {[text |-> m.text, emb |-> m.emb]}
<1> DEFINE x == [V[k] EXCEPT !.text = m.text, !.emb = m.emb]
           W == Patched(V, k, m)
<1>1. V[k] \in Sent(K)
  <2>1. V[k] \in Listed(K) /\ id # 0
    BY IdsAre
  <2> QED
    BY <2>1 DEF Listed, Own
<1>2. x \in Sent(K) /\ x.id = id /\ x.text = m.text /\ x.emb = m.emb /\ x.is = "sent"
  BY <1>1 DEF Sent, Msgs
<1>3. W = [V EXCEPT ![k] = x]
  BY DEF Patched
<1> HIDE DEF x, W
<1>4. x \in Listed(K)
  BY <1>2 DEF Listed
<1>5. Len(W) = Len(V) /\ W \in Seq(Listed(K)) /\ W[k] = x /\ \A i \in 1 .. Len(V) : i # k =>
        W[i] = V[i]
  BY <1>3, <1>4
<1>6. \A i \in 1 .. Len(V) : W[i].id = V[i].id /\ (W[i].is = "pending" => W[i] = V[i])
  BY <1>2, <1>5
<1>7. ASSUME NEW i, i # id PROVE In(W, i) = In(V, i) /\ Unique(W)
  <2>1. \A j \in 1 .. Len(V) : V[j].id = i => W[j].text = V[j].text /\ W[j].emb = V[j].emb
    BY <1>5, <1>7
  <2>2. Len(W) = Len(V) /\ \A j \in 1 .. Len(V) : W[j].id = V[j].id
    BY <1>5, <1>6
  <2>3. In(W, i) = In(V, i) /\ (Unique(V) => Unique(W))
    BY <2>1, <2>2, PatchShows
  <2> QED
    BY <2>3
<1>8. Unique(W)
  BY <1>7, IdsAre
<1>9. In(W, id) = {[text |-> m.text, emb |-> m.emb]}
  <2>1. k \in 1 .. Len(W) /\ W[k].id = id /\ id # 0
    BY <1>2, <1>5, IdsAre
  <2>2. In(W, id) = {[text |-> W[k].text, emb |-> W[k].emb]}
    BY <2>1, <1>8, InOne
  <2> QED
    BY <2>2, <1>2, <1>5
<1>10. W # NoList
  BY <1>5, ConstantsAre
<1> QED
  BY <1>5, <1>6, <1>7, <1>8, <1>9, <1>10 DEF W

\* ... and the event of a new one.
LEMMA WithIs ==
  ASSUME MessagesAssumption, NEW K \in SUBSET Ids, NEW c, list[c] \in Seq(Listed(K)),
           Unique(list[c]),
         NEW id \in K, In(list[c], id) = {}, NEW m \in Msgs
  PROVE  /\ With(c, id, m) \in Seq(Listed(K)) /\ Unique(With(c, id, m)) /\ With(c, id, m) # NoList
         /\ \A i \in Ids : i # id => In(With(c, id, m), i) = In(list[c], i)
         /\ In(With(c, id, m), id) = {m}
         /\ \E f \in [1 .. Len(With(c, id, m)) -> 0 .. Len(list[c])] :
              /\ \A i \in 1 .. Len(With(c, id, m)) : With(c, id, m)[i].is = "pending" =>
                   f[i] \in 1 .. Len(list[c]) /\ f[i] # Place(c, m) /\
                     With(c, id, m)[i] = list[c][f[i]]
              /\ \A i, j \in 1 .. Len(With(c, id, m)) : f[i] = f[j] => i = j
<1> DEFINE V == list[c]
           k == Place(c, m)
           R == IF k = 0 THEN V ELSE RemoveAt(V, k)
           x == Shown(id, m)
           W == With(c, id, m)
<1>1. W = <<x>> \o R
  BY DEF With
<1>2. x \in Listed(K) /\ x.id = id /\ x.text = m.text /\ x.emb = m.emb /\ x.is = "sent" /\ id # 0
  BY IdsAre DEF Shown, Listed, Sent, Msgs
<1>3. k = 0 \/ (k \in 1 .. Len(V) /\ V[k].is = "pending")
  BY PlaceFits
<1> HIDE DEF V, k, x, W
<1>4. V \in Seq(Listed(K)) /\ Unique(V) /\ In(V, id) = {}
  BY DEF V
<1>5. /\ R \in Seq(Listed(K)) /\ Unique(R) /\ \A i \in Ids : In(R, i) = In(V, i)
      /\ \E g \in [1 .. Len(R) -> 1 .. Len(V)] :
           /\ \A i \in 1 .. Len(R) : R[i] = V[g[i]] /\ g[i] # k
           /\ \A i, j \in 1 .. Len(R) : g[i] = g[j] => i = j
  <2>1. CASE k = 0
    <3>1. R = V
      BY <2>1
    <3> DEFINE g == [i \in 1 .. Len(V) |-> i]
    <3>2. /\ g \in [1 .. Len(V) -> 1 .. Len(V)]
          /\ \A i \in 1 .. Len(V) : V[i] = V[g[i]] /\ g[i] # k
          /\ \A i, j \in 1 .. Len(V) : g[i] = g[j] => i = j
      BY <2>1
    <3> HIDE DEF g, R
    <3>3. \E h \in [1 .. Len(R) -> 1 .. Len(V)] :
           /\ \A i \in 1 .. Len(R) : R[i] = V[h[i]] /\ h[i] # k
           /\ \A i, j \in 1 .. Len(R) : h[i] = h[j] => i = j
      BY <3>1, <3>2
    <3> QED
      BY <3>1, <3>3, <1>4
  <2>2. CASE k # 0
    <3>1. R = RemoveAt(V, k) /\ k \in 1 .. Len(V) /\ V[k].is = "pending"
      BY <2>2, <1>3
    <3> HIDE DEF R
    <3>2. V[k].id = 0
      <4>1. V[k] \in Listed(K)
        BY <3>1, <1>4
      <4> QED
        BY <3>1, <4>1 DEF Listed, Sent, Own
    <3>3. ASSUME NEW i \in Ids PROVE In(R, i) = In(V, i)
      <4>1. V[k].id # i
        BY <3>2, IdsAre
      <4> QED
        BY <3>1, <4>1, <1>4, CutShows
    <3>4. R \in Seq(Listed(K))
      BY <3>1, <1>4, InCut
    <3>5. Unique(R)
      BY <3>1, <1>4, CutShows
    <3>6. \E g \in [1 .. Len(RemoveAt(V, k)) -> (1 .. Len(V)) \ {k}] :
           /\ \A i \in 1 .. Len(RemoveAt(V, k)) : RemoveAt(V, k)[i] = V[g[i]]
           /\ \A i, j \in 1 .. Len(RemoveAt(V, k)) : g[i] = g[j] => i = j
           /\ \A i \in (1 .. Len(V)) \ {k} : \E j \in 1 .. Len(RemoveAt(V, k)) : g[j] = i
      BY <3>1, <1>4, CutFrom
    <3>7. PICK g \in [1 .. Len(R) -> (1 .. Len(V)) \ {k}] :
           /\ \A i \in 1 .. Len(R) : R[i] = V[g[i]]
           /\ \A i, j \in 1 .. Len(R) : g[i] = g[j] => i = j
      BY <3>1, <3>6
    <3>8. g \in [1 .. Len(R) -> 1 .. Len(V)] /\ \A i \in 1 .. Len(R) : g[i] # k
      BY <3>7
    <3> QED
      BY <3>3, <3>4, <3>5, <3>7, <3>8
  <2> QED
    BY <2>1, <2>2
<1> HIDE DEF R
<1>6. W \in Seq(Listed(K)) /\ Len(W) = Len(R) + 1 /\ Len(R) \in Nat /\ Len(V) \in Nat
      /\ W[1] = x /\ \A i \in 1 .. Len(W) : i = 1 \/ (i - 1 \in 1 .. Len(R) /\ W[i] = R[i - 1])
  BY <1>1, <1>2, <1>4, <1>5, InFront
<1>7. Unique(W) /\ In(W, id) = {[text |-> x.text, emb |-> x.emb]}
  <2>1. id \in Ids /\ In(R, id) = {}
    BY <1>4, <1>5
  <2> QED
    BY <2>1, <1>1, <1>2, <1>5, FrontShows
<1>8. In(W, id) = {m}
  BY <1>2, <1>7, MsgIs
<1>9. \A i \in Ids : i # id => In(W, i) = In(V, i)
  <2>1. SUFFICES ASSUME NEW i \in Ids, i # id PROVE In(W, i) = In(V, i)
    OBVIOUS
  <2>2. In(W, i) = In(R, i)
    BY <2>1, <1>1, <1>2, <1>5, FrontShows
  <2> QED
    BY <2>2, <1>5
<1>10. W # NoList
  BY <1>6, ConstantsAre
<1>11. PICK g \in [1 .. Len(R) -> 1 .. Len(V)] :
           /\ \A i \in 1 .. Len(R) : R[i] = V[g[i]] /\ g[i] # k
           /\ \A i, j \in 1 .. Len(R) : g[i] = g[j] => i = j
  BY <1>5
<1> DEFINE f == [i \in 1 .. Len(W) |-> IF i = 1 THEN 0 ELSE g[i - 1]]
<1>12. ASSUME NEW i \in 1 .. Len(W)
       PROVE  /\ f[i] \in 0 .. Len(V)
              /\ i # 1 => i - 1 \in 1 .. Len(R) /\ f[i] = g[i - 1] /\ f[i] \in 1 .. Len(V) /\
                   f[i] # k /\ W[i] = V[f[i]]
              /\ i = 1 => f[i] = 0 /\ W[i].is = "sent"
  <2>1. CASE i = 1
    BY <2>1, <1>2, <1>6
  <2>2. CASE i # 1
    <3>1. i - 1 \in 1 .. Len(R) /\ W[i] = R[i - 1] /\ f[i] = g[i - 1]
      BY <2>2, <1>6
    <3> HIDE DEF f
    <3> QED
      BY <2>2, <3>1, <1>6, <1>11
  <2> QED
    BY <2>1, <2>2
<1>13. f \in [1 .. Len(W) -> 0 .. Len(V)]
  BY <1>12
<1> HIDE DEF f
<1>14. \A i \in 1 .. Len(W) : W[i].is = "pending" => f[i] \in 1 .. Len(V) /\ f[i] # k /\
         W[i] = V[f[i]]
  BY <1>12
<1>15. \A i, j \in 1 .. Len(W) : f[i] = f[j] => i = j
  <2>1. SUFFICES ASSUME NEW i \in 1 .. Len(W), NEW j \in 1 .. Len(W), f[i] = f[j] PROVE i = j
    OBVIOUS
  <2>2. CASE i = 1 \/ j = 1
    BY <2>1, <2>2, <1>6, <1>12
  <2>3. CASE i # 1 /\ j # 1
    <3>1. i - 1 \in 1 .. Len(R) /\ j - 1 \in 1 .. Len(R) /\ g[i - 1] = g[j - 1]
      BY <2>1, <2>3, <1>12
    <3>2. i - 1 = j - 1
      BY <3>1, <1>11
    <3> QED
      BY <3>1, <3>2, <1>6
  <2> QED
    BY <2>2, <2>3
<1> QED
  BY <1>6, <1>7, <1>8, <1>9, <1>10, <1>13, <1>14, <1>15 DEF W, V, k

\* A message comes.
LEMMA OnMessageKeeps ==
  ASSUME MessagesAssumption, MessageInv, NEW c0 \in Clients, OnMessage(c0)
  PROVE  MessageInv'
<1> DEFINE q == wire[c0]["message"]
           e == Head(q)
           V == list[c0]
           W == Added(c0, e)
           K == Known(table)
           k == "message"
<1>1. /\ UNCHANGED <<table, send, editor, del, out, late, over, cut>> /\ q # <<>>
      /\ list' = [list EXCEPT ![c0] = W] /\ seen' = [seen EXCEPT ![c0] = @ \cup {e.id}]
      /\ mixed' = (IF Foreign(c0, e) THEN mixed \cup {c0} ELSE mixed)
      /\ load' = Missed(c0, e.id) /\ wire' = Taken(c0, "message")
  BY DEF OnMessage, Next1, server
<1>2. /\ DOMAIN list = Clients /\ DOMAIN seen = Clients /\ K \in SUBSET Ids /\
           Rows(table, send, del)
      /\ Mutations(K, out)
  BY KnownAre DEF MessageInv, TablesFit, Domains
<1>3. /\ DOMAIN wire' = Clients /\ \A x \in Clients : x # c0 => wire'[x] = wire[x]
      /\ Wires(K, Gone(table), wire'[c0]) /\ wire'[c0]["message"] = Tail(q)
      /\ wire'[c0]["edit"] = wire[c0]["edit"] /\ wire'[c0]["delete"] = wire[c0]["delete"]
      /\ q \in Seq(Posts(K)) /\ e \in Posts(K)
  <2>1. k \in Topics /\ k # "delete" /\ "edit" \in Topics /\ "delete" \in Topics /\ k # "edit"
    BY TopicsAre
  <2>2. wire[c0][k] # <<>> /\ wire' = Taken(c0, k)
    BY <1>1
  <2>3. wire[c0][k] = q /\ Head(wire[c0][k]) = e /\ wire'[c0][k] = wire'[c0]["message"]
    OBVIOUS
  <2> HIDE DEF k, q, e, K
  <2> QED
    BY <2>1, <2>2, <2>3, TakenIs DEF K
<1>4. e.id \in K /\ e.id \in Ids /\ e.msg \in Msgs
  BY <1>2, <1>3 DEF Posts
<1>5. /\ list'[c0] = W /\ (\A x \in Clients : x # c0 => list'[x] = list[x]) /\
           DOMAIN list' = Clients
      /\ seen'[c0] = seen[c0] \cup {e.id} /\
           (\A x \in Clients : x # c0 => seen'[x] = seen[x]) /\ DOMAIN seen' = Clients
  <2> HIDE DEF W, e
  <2> QED
    BY <1>1, <1>2
<1> DEFINE id == e.id
<1>6. id \in Ids /\ load' = Missed(c0, id)
  BY <1>1, <1>4
<1>7. id \in K /\ e.msg \in Msgs /\ seen'[c0] = seen[c0] \cup {id} /\ e.id = id
  BY <1>4, <1>5
<1>8. W = IF V = NoList \/ Has(c0, id) THEN V ELSE With(c0, id, e.msg)
  BY DEF Added
<1> HIDE DEF q, e, W, K, k, id
<1>9. /\ DOMAIN load' = Clients /\ \A x \in Clients : x # c0 => load'[x] = load[x]
      /\ Loading(K, load'[c0])
      /\ \A U, i : Views(U, load'[c0], i) \subseteq Views(U, load[c0], i)
      /\ \A U : Views(U, load'[c0], id) \subseteq {U} \ {NoList}
  BY <1>6, MissedIs DEF K
<1>10. Lists(K, V, late[c0]) /\ (Has(c0, id) <=> V # NoList /\ In(V, id) # {})
  BY HasIn DEF MessageInv, ClientsFit, K
<1>11. ASSUME V # NoList, In(V, id) = {}
       PROVE  /\ W \in Seq(Listed(K)) /\ Unique(W) /\ W # NoList
              /\ \A i \in Ids : i # id => In(W, i) = In(V, i)
              /\ In(W, id) = {e.msg}
              /\ \E f \in [1 .. Len(W) -> 0 .. Len(V)] :
                   /\ \A i \in 1 .. Len(W) : W[i].is = "pending" =>
                        f[i] \in 1 .. Len(V) /\ f[i] # Place(c0, e.msg) /\ W[i] = V[f[i]]
                   /\ \A i, j \in 1 .. Len(W) : f[i] = f[j] => i = j
  <2> DEFINE m == e.msg
             Z == With(c0, id, m)
  <2>1. W = Z
    BY <1>8, <1>10, <1>11
  <2>2. list[c0] \in Seq(Listed(K)) /\ Unique(list[c0]) /\ In(list[c0], id) = {} /\ m \in Msgs
    BY <1>7, <1>10, <1>11 DEF Lists
  <2> HIDE DEF m
  <2>3. /\ Z \in Seq(Listed(K)) /\ Unique(Z) /\ Z # NoList
        /\ \A i \in Ids : i # id => In(Z, i) = In(list[c0], i)
        /\ In(Z, id) = {m}
        /\ \E f \in [1 .. Len(Z) -> 0 .. Len(list[c0])] :
              /\ \A i \in 1 .. Len(Z) : Z[i].is = "pending" =>
                   f[i] \in 1 .. Len(list[c0]) /\ f[i] # Place(c0, m) /\ Z[i] = list[c0][f[i]]
              /\ \A i, j \in 1 .. Len(Z) : f[i] = f[j] => i = j
    BY <2>2, <1>2, <1>7, WithIs
  <2> QED
    BY <2>1, <2>3 DEF m
<1>12. V = NoList \/ In(V, id) # {} => W = V
  BY <1>8, <1>10
<1>13. /\ V = NoList <=> W = NoList
       /\ Lists(K, W, late[c0])
       /\ \A i \in Ids : i # id /\ V # NoList => In(W, i) = In(V, i)
  BY <1>10, <1>11, <1>12 DEF Lists
<1>14. TablesFit'
  BY <1>1, <1>3, <1>5, <1>9 DEF MessageInv, TablesFit, Domains, K
<1>15. ClientsFit'
  BY <1>1, <1>3, <1>5, <1>7, <1>9, <1>13 DEF MessageInv, ClientsFit, K
<1>16. ASSUME NEW i \in Ids
       PROVE  /\ i # id => SameAbout(q, Tail(q), i)
              /\ Lone(q, i) => Lone(Tail(q), i)
              /\ Waits(Tail(q), i) => Waits(q, i)
  <2>1. i # id => SameAbout(q, Tail(q), i)
    BY <1>1, <1>3, <1>7, TailAlike DEF e
  <2>2. (Lone(q, i) => Lone(Tail(q), i)) /\ (Waits(Tail(q), i) => Waits(q, i))
    BY <1>1, <1>3, TailHears
  <2> QED
    BY <2>1, <2>2
<1>17. Waits(q, id)
  <2>1. q[1].id = id /\ 1 \in 1 .. Len(q)
    BY <1>1, <1>3, <1>7, TailFits DEF e
  <2> QED
    BY <2>1 DEF Waits
<1>18. Once(send, c0, q, seen[c0], id)
  BY <1>6 DEF MessageInv, AllOnce, q
<1>19. id \notin seen[c0] /\ ~Waits(Tail(q), id) /\ send[id].pc \notin {"none", "created"} /\
         ~Told(send, c0, id)
  <2>1. Lone(q, id) /\ id \notin seen[c0] /\ send[id].pc \notin {"none", "created"} /\
          ~Told(send, c0, id)
    BY <1>17, <1>18 DEF Once
  <2>2. ~Waits(Tail(q), id)
    BY <2>1, <1>1, <1>3, <1>7, TailHears DEF e
  <2> QED
    BY <2>1, <2>2
<1>20. AllOnce'
  <2>1. ASSUME NEW c \in Clients, NEW i \in Ids
        PROVE  Once(send, c, wire'[c]["message"], seen'[c], i)
    <3>1. Once(send, c, wire[c]["message"], seen[c], i)
      BY DEF MessageInv, AllOnce
    <3>2. CASE c # c0
      BY <3>1, <3>2, <1>3, <1>5
    <3>3. CASE c = c0
      <4>1. Once(send, c0, q, seen[c0], i)
        BY <3>1, <3>3 DEF q
      <4>2. Once(send, c0, Tail(q), seen[c0] \cup {id}, i)
        <5>1. CASE i = id
          BY <5>1, <1>16, <1>18, <1>19 DEF Once
        <5>2. CASE i # id
          BY <4>1, <5>2, <1>16 DEF Once
        <5> QED
          BY <5>1, <5>2
      <4> QED
        BY <3>3, <4>2, <1>3, <1>7
    <3> QED
      BY <3>2, <3>3
  <2> QED
    BY <1>1, <2>1 DEF AllOnce
<1>21. ASSUME NEW c \in Clients \ cut, NEW i \in Ids \ over[c]
       PROVE  Pair(c, i, table, send, editor, del, wire'[c], list'[c], late[c], load'[c], seen'[c])
  <2>1. Pair(c, i, table, send, editor, del, wire[c], list[c], late[c], load[c], seen[c])
    BY DEF MessageInv, AllPairs
  <2>2. CASE c # c0
    BY <2>1, <2>2, <1>3, <1>5, <1>9
  <2>3. CASE c = c0 /\ i # id
    <3>1. SameAbout(wire[c]["message"], wire'[c]["message"], i)
      BY <2>3, <1>3, <1>16 DEF q
    <3>2. /\ Coming(send, c, wire[c]["message"], i) => Coming(send, c, wire'[c]["message"], i)
          /\ Says(send, c, wire[c]["message"], i, Now(table, i)) =>
               Says(send, c, wire'[c]["message"], i, Now(table, i))
      BY <3>1, ComingStays
    <3>3. ASSUME NEW Y \in Views(list'[c], load'[c], i)
          PROVE  \E X \in Views(list[c], load[c], i) : In(Y, i) = In(X, i)
      <4>1. Y \in Views(W, load[c], i)
        BY <2>3, <1>5, <1>9
      <4>2. CASE V = NoList
        <5>1. W = V
          BY <4>2, <1>12
        <5> QED
          BY <4>1, <5>1, <2>3
      <4>3. CASE V # NoList
        <5>1. In(W, i) = In(V, i)
          BY <2>3, <4>3, <1>13
        <5> QED
          BY <4>1, <4>3, <5>1, <2>3, ListViews
      <4> QED
        BY <4>2, <4>3
    <3>4. wire'[c]["edit"] = wire[c]["edit"] /\ wire'[c]["delete"] = wire[c]["delete"] /\
            seen[c] \subseteq seen'[c]
      BY <2>3, <1>3, <1>7
    <3> QED
      BY <2>1, <3>2, <3>3, <3>4, AlikeSelf, AsideSelf, PairStays
  <2>4. CASE c = c0 /\ i = id
    <3> DEFINE w == wire[c0]
               w2 == wire'[c0]
               sn == seen[c0]
               lt == late[c0]
               ld == load[c0]
               ld2 == load'[c0]
    <3>1. Pair(c0, id, table, send, editor, del, w, V, lt, ld, sn) /\ w["message"] = q
      BY <2>1, <2>4 DEF q
    <3>2. /\ w2["edit"] = w["edit"] /\ w2["delete"] = w["delete"] /\ seen'[c0] = sn \cup {id}
          /\ Views(W, ld2, id) \subseteq {W} \ {NoList}
      BY <1>3, <1>7, <1>9
    <3>3. V # NoList => V \in Views(V, ld, id)
      BY DEF Views
    <3>4. V # NoList => Sight(In(V, id), table, send, del, c0, w, id)
      BY <3>1, <3>3 DEF Pair
    <3>5. W # NoList => In(W, id) # {}
      BY <1>11, <1>12
    <3>6. ASSUME W # NoList, ~Is(table, id) PROVE Departing(del, w["delete"], id)
      <4>1. CASE In(V, id) # {}
        BY <4>1, <3>4, <3>6, <1>13 DEF Sight
      <4>2. CASE In(V, id) = {}
        <5>1. table[id].st = "gone" /\ del[id] \in {"gone", "told"}
          BY <3>6, <1>2, <1>6, <1>7 DEF Known, K, Is, Rows
        <5>2. del[id] = "told" /\ ~Waits(w["delete"], id) => id \in sn
          BY <3>1 DEF Pair
        <5> QED
          BY <5>1, <5>2, <1>19 DEF Departing
      <4> QED
        BY <4>1, <4>2
    <3>7. \A X \in Views(W, ld2, id) : Sight(In(X, id), table, send, del, c0, w2, id)
      BY <3>2, <3>5, <3>6 DEF Sight, Departing
    <3>8. ASSUME Is(table, id), ~Working(editor, id)
          PROVE  IF Waits(w2["edit"], id) THEN LastSays(w2["edit"], id, Now(table, id))
                 ELSE IF Waits(lt, id) THEN LastSays(lt, id, Now(table, id))
                 ELSE \A X \in Views(W, ld2, id) : Right(In(X, id), table, send, c0, w2, id)
      <4>1. CASE Waits(w["edit"], id) \/ Waits(lt, id)
        BY <3>1, <3>2, <3>8, <4>1 DEF Pair
      <4>2. CASE ~(Waits(w["edit"], id) \/ Waits(lt, id))
        <5>1. V # NoList => Right(In(V, id), table, send, c0, w, id)
          BY <3>1, <3>3, <3>8, <4>2 DEF Pair
        <5>2. ASSUME W # NoList PROVE In(W, id) = {Now(table, id)}
          <6>1. V # NoList
            BY <5>2, <1>13
          <6>2. CASE In(V, id) # {}
            BY <5>1, <6>1, <6>2, <1>12 DEF Right
          <6>3. CASE In(V, id) = {}
            <7>1. Said(q, id, Now(table, id))
              BY <3>1, <5>1, <6>1, <6>3 DEF Right, Says
            <7>2. e.msg = Now(table, id)
              BY <7>1, <1>1, <1>3, <1>7, TailSays DEF e
            <7> QED
              BY <7>2, <6>1, <6>3, <1>11
          <6> QED
            BY <6>2, <6>3
        <5>3. W # NoList => Right(In(W, id), table, send, c0, w2, id)
          BY <5>2 DEF Right
        <5> QED
          BY <3>2, <4>2, <5>3
      <4> QED
        BY <4>1, <4>2
    <3>9. Pair(c0, id, table, send, editor, del, w2, W, lt, ld2, sn \cup {id})
      <4> HIDE DEF w, w2, sn, lt, ld, ld2
      <4> QED
        BY <3>1, <3>2, <3>7, <3>8 DEF Pair
    <3> QED
      BY <2>4, <3>2, <3>9, <1>5
  <2> QED
    BY <2>2, <2>3, <2>4
<1>22. AllPairs'
  BY <1>1, <1>21 DEF AllPairs
<1>23. ASSUME NEW c \in Clients \ (cut \cup mixed')
       PROVE  Debts(c, table, send, out, wire'[c]["message"], list'[c])
  <2>1. Debts(c, table, send, out, wire[c]["message"], list[c]) /\ c \notin mixed
    BY <1>1 DEF MessageInv, AllDebts
  <2>2. CASE c # c0
    BY <2>1, <2>2, <1>3, <1>5
  <2>3. CASE c = c0
    <3>1. ~Foreign(c0, e) /\ Debts(c0, table, send, out, q, V)
      BY <2>1, <2>3, <1>1 DEF q
    <3>2. ASSUME V # NoList, NEW i \in 1 .. Len(V), V[i].is = "pending",
                 In(V, id) = {} => i # Place(c0, e.msg)
          PROVE  out[V[i].tmp].id # id /\ (out[V[i].tmp].id \in Ids \/ out[V[i].tmp].id = 0)
                 /\ Debt(c0, V[i].text, out[V[i].tmp], table, send, q, V)
      <4> DEFINE o == out[V[i].tmp]
                 p == Place(c0, e.msg)
      <4>1. Debt(c0, V[i].text, o, table, send, q, V)
        BY <3>1, <3>2 DEF Debts
      <4>2. V[i].tmp \in Temps /\ (o.id \in Ids \/ o.id = 0)
        BY <3>2, <1>2, PendingIs DEF Mutations
      <4>3. ASSUME o.id = id PROVE FALSE
        <5>1. id # 0 /\ o.pc \in {"run", "answered"}
          <6>1. id # 0 /\ (o.pc \in {"new", "sent", "refused"} => o.id = 0)
                /\ o.pc \in {"new", "sent", "refused", "run", "answered"}
            BY <4>2, <1>2, <1>6, IdsAre DEF Mutations
          <6> QED
            BY <6>1, <4>3
        <5>2. In(V, id) = {} /\ \A j \in 1 .. Len(q) : q[j].id = id => q[j].msg.text = V[i].text
          BY <4>1, <4>3, <5>1 DEF Debt
        <5>3. q[1] = e /\ 1 \in 1 .. Len(q)
          BY <1>1, <1>3, TailFits DEF e
        <5>4. e.msg.text = V[i].text
          BY <5>2, <5>3, <1>7
        <5>5. V \in Seq(Listed(K))
          BY <3>2, <1>10 DEF Lists
        <5>6. p # 0 /\ p \in 1 .. Len(V) /\ V[p].is = "pending"
          BY <5>4, <5>5, <3>2, PlaceFits
        <5>7. out[V[p].tmp].id = id
          <6>1. ~Has(c0, e.id)
            BY <5>2, <1>7, <1>10
          <6> QED
            BY <6>1, <5>6, <3>1, <3>2, <1>7 DEF Foreign
        <5>8. V[p].tmp \in Temps
          BY <3>2, <5>6, PendingIs
        <5>9. V[p].tmp = V[i].tmp
          BY <5>1, <5>7, <5>8, <4>2, <4>3, <1>2 DEF Mutations
        <5>10. p = i
          BY <5>6, <5>9, <3>1, <3>2 DEF Debts
        <5> QED
          BY <5>2, <5>10, <3>2
      <4> QED
        BY <4>1, <4>2, <4>3
    <3>3. ASSUME V # NoList, NEW i \in 1 .. Len(V), V[i].is = "pending",
                 In(V, id) = {} => i # Place(c0, e.msg)
          PROVE  Debt(c0, V[i].text, out[V[i].tmp], table, send, Tail(q), W)
      <4> DEFINE o == out[V[i].tmp]
      <4>1. o.id # id /\ (o.id \in Ids \/ o.id = 0) /\ Debt(c0, V[i].text, o, table, send, q, V)
        BY <3>2, <3>3
      <4>2. o.pc \in {"run", "answered"} => o.id \in Ids
        BY <4>1 DEF Debt
      <4> HIDE DEF o
      <4>3. o.id \in Ids => In(W, o.id) = In(V, o.id) /\ (Waits(Tail(q), o.id) <=> Waits(q, o.id))
        BY <4>1, <3>3, <1>13, <1>16 DEF SameAbout
      <4>4. ASSUME NEW j \in 1 .. Len(Tail(q)), Tail(q)[j].id = o.id
            PROVE  \E h \in 1 .. Len(q) : q[h].id = o.id /\ q[h].msg = Tail(q)[j].msg
        <5>1. Tail(q)[j] = q[j + 1] /\ j + 1 \in 2 .. Len(q) /\ Len(q) \in Nat
          BY <1>1, <1>3, TailFits
        <5>2. j + 1 \in 1 .. Len(q)
          BY <5>1
        <5> QED
          BY <4>4, <5>1, <5>2
      <4>5. Debt(c0, V[i].text, o, table, send, Tail(q), W)
        BY <4>1, <4>2, <4>3, <4>4, DebtStays
      <4> QED
        BY <4>5 DEF o
    <3>4. CASE V = NoList
      <4>1. W = NoList
        BY <3>4, <1>12
      <4> QED
        BY <4>1, <2>3, <1>5 DEF Debts
    <3>5. CASE V # NoList /\ In(V, id) # {}
      <4>1. W = V
        BY <3>5, <1>12
      <4>2. Debts(c0, table, send, out, Tail(q), V)
        BY <3>1, <3>3, <3>5, <4>1 DEF Debts
      <4> QED
        BY <4>1, <4>2, <2>3, <1>3, <1>5
    <3>6. CASE V # NoList /\ In(V, id) = {}
      <4>1. PICK f \in [1 .. Len(W) -> 0 .. Len(V)] :
              /\ \A i \in 1 .. Len(W) : W[i].is = "pending" =>
                   f[i] \in 1 .. Len(V) /\ f[i] # Place(c0, e.msg) /\ W[i] = V[f[i]]
              /\ \A i, j \in 1 .. Len(W) : f[i] = f[j] => i = j
        BY <3>6, <1>11
      <4>2. ASSUME NEW i \in 1 .. Len(W), W[i].is = "pending"
            PROVE  Debt(c0, W[i].text, out[W[i].tmp], table, send, Tail(q), W)
        <5>1. f[i] \in 1 .. Len(V) /\ f[i] # Place(c0, e.msg) /\ W[i] = V[f[i]]
          BY <4>1, <4>2
        <5> QED
          BY <5>1, <4>2, <3>3, <3>6
      <4>3. ASSUME NEW i \in 1 .. Len(W), NEW j \in 1 .. Len(W), W[i].is = "pending",
                     W[j].is = "pending",
                   W[i].tmp = W[j].tmp
            PROVE  i = j
        <5>1. f[i] \in 1 .. Len(V) /\ W[i] = V[f[i]] /\ f[j] \in 1 .. Len(V) /\ W[j] = V[f[j]]
          BY <4>1, <4>3
        <5>2. f[i] = f[j]
          BY <5>1, <4>3, <3>1, <3>6 DEF Debts
        <5> QED
          BY <5>2, <4>1
      <4>4. Debts(c0, table, send, out, Tail(q), W)
        BY <4>2, <4>3 DEF Debts
      <4> QED
        BY <4>4, <2>3, <1>3, <1>5
    <3> QED
      BY <3>4, <3>5, <3>6
  <2> QED
    BY <2>2, <2>3
<1>24. AllDebts'
  BY <1>1, <1>23 DEF AllDebts
<1> QED
  BY <1>14, <1>15, <1>20, <1>22, <1>24 DEF MessageInv

\* Whatever a client does with an edit, when the newest that waits is the row's.
EditStep(c0, id) ==
  /\ UNCHANGED <<table, send, editor, del, out, seen, mixed, cut>>
  /\ DOMAIN wire' = Clients /\ \A x \in Clients : x # c0 => wire'[x] = wire[x]
  /\ Wires(Known(table), Gone(table), wire'[c0])
  /\ wire'[c0]["message"] = wire[c0]["message"] /\ wire'[c0]["delete"] = wire[c0]["delete"]
  /\ DOMAIN list' = Clients /\ \A x \in Clients : x # c0 => list'[x] = list[x]
  /\ DOMAIN late' = Clients /\ \A x \in Clients : x # c0 => late'[x] = late[x]
  /\ DOMAIN over' = Clients /\ \A x \in Clients : x # c0 => over'[x] = over[x]
  /\ over[c0] \subseteq over'[c0] /\ Lists(Known(table), list'[c0], late'[c0]) /\
       load' = Missed(c0, id)
  /\ \A i \in Ids : i # id => /\ SameAbout(wire[c0]["edit"], wire'[c0]["edit"], i)
                              /\ SameAbout(late[c0], late'[c0], i)
                              /\ list[c0] # NoList => In(list'[c0], i) = In(list[c0], i)
  /\ list'[c0] = NoList <=> list[c0] = NoList
  /\ list[c0] # NoList =>
       /\ In(list'[c0], id) = {} <=> In(list[c0], id) = {}
       /\ Len(list'[c0]) = Len(list[c0])
       /\ \A i \in 1 .. Len(list[c0]) : list'[c0][i].is = "pending" => list'[c0][i] = list[c0][i]
  /\ c0 \notin cut /\ id \notin over'[c0] /\ Is(table, id) /\ ~Working(editor, id) =>
       IF Waits(wire'[c0]["edit"], id) THEN LastSays(wire'[c0]["edit"], id, Now(table, id))
       ELSE IF Waits(late'[c0], id) THEN LastSays(late'[c0], id, Now(table, id))
       ELSE list'[c0] # NoList => Right(In(list'[c0], id), table, send, c0, wire[c0], id)

\* ... keeps the invariant.
LEMMA Edited ==
  ASSUME MessageInv, NEW c0 \in Clients, NEW id \in Ids, EditStep(c0, id)
  PROVE  MessageInv'
<1> USE DEF EditStep
<1> DEFINE V == list[c0]
           W == list'[c0]
           K == Known(table)
<1>1. /\ DOMAIN load' = Clients /\ \A x \in Clients : x # c0 => load'[x] = load[x]
      /\ Loading(K, load'[c0])
      /\ \A U, i : Views(U, load'[c0], i) \subseteq Views(U, load[c0], i)
      /\ \A U : Views(U, load'[c0], id) \subseteq {U} \ {NoList}
  BY MissedIs
<1>2. TablesFit'
  BY <1>1 DEF MessageInv, TablesFit, Domains
<1>3. ClientsFit'
  BY <1>1 DEF MessageInv, ClientsFit
<1>4. ASSUME NEW c \in Clients PROVE wire'[c]["message"] = wire[c]["message"]
  OBVIOUS
<1>5. AllOnce'
  BY <1>4 DEF MessageInv, AllOnce
<1>6. ASSUME NEW c \in Clients \ cut, NEW i \in Ids \ over'[c]
      PROVE  Pair(c, i, table, send, editor, del, wire'[c], list'[c], late'[c], load'[c], seen[c])
  <2>1. Pair(c, i, table, send, editor, del, wire[c], list[c], late[c], load[c], seen[c])
    BY DEF MessageInv, AllPairs
  <2>2. CASE c # c0
    BY <2>1, <2>2, <1>1
  <2>3. CASE c = c0 /\ i # id
    <3>1. ASSUME NEW Y \in Views(W, load'[c0], i)
          PROVE  \E X \in Views(V, load[c0], i) : In(Y, i) = In(X, i)
      <4>1. Y \in Views(W, load[c0], i)
        BY <1>1
      <4>2. CASE V = NoList
        <5>1. W = V
          BY <4>2
        <5> QED
          BY <4>1, <5>1
      <4>3. CASE V # NoList
        <5>1. In(W, i) = In(V, i)
          BY <2>3, <4>3
        <5> QED
          BY <4>1, <4>3, <5>1, ListViews
      <4> QED
        BY <4>2, <4>3
    <3>2. /\ SameAbout(wire[c]["edit"], wire'[c]["edit"], i) /\ SameAbout(late[c], late'[c], i)
          /\ wire'[c]["message"] = wire[c]["message"] /\ wire'[c]["delete"] = wire[c]["delete"]
          /\ \A Y \in Views(list'[c], load'[c], i) : \E X \in Views(list[c], load[c], i) :
               In(Y, i) = In(X, i)
      BY <2>3, <3>1
    <3> QED
      BY <2>1, <3>2, AsideSelf, PairStays
  <2>4. CASE c = c0 /\ i = id
    <3> DEFINE w == wire[c0]
               w2 == wire'[c0]
               sn == seen[c0]
               lt == late[c0]
               lt2 == late'[c0]
               ld == load[c0]
               ld2 == load'[c0]
    <3>1. Pair(c0, id, table, send, editor, del, w, V, lt, ld, sn)
      BY <2>1, <2>4
    <3>2. /\ w2["message"] = w["message"] /\ w2["delete"] = w["delete"]
          /\ Views(W, ld2, id) \subseteq {W} \ {NoList}
          /\ W # NoList => V # NoList /\ (In(W, id) = {} <=> In(V, id) = {})
      BY <1>1
    <3>3. Is(table, id) /\ ~Working(editor, id) =>
           IF Waits(w2["edit"], id) THEN LastSays(w2["edit"], id, Now(table, id))
           ELSE IF Waits(lt2, id) THEN LastSays(lt2, id, Now(table, id))
           ELSE W # NoList => Right(In(W, id), table, send, c0, w, id)
      BY <2>4
    <3>4. Pair(c0, id, table, send, editor, del, w2, W, lt2, ld2, sn)
      <4> HIDE DEF w, w2, sn, lt, lt2, ld, ld2, V, W
      <4> QED
        BY <3>1, <3>2, <3>3, EditMeets
    <3> QED
      BY <2>4, <3>4
  <2> QED
    BY <2>2, <2>3, <2>4
<1>7. AllPairs'
  BY <1>6 DEF AllPairs
<1>8. ASSUME NEW c \in Clients \ (cut \cup mixed)
      PROVE  Debts(c, table, send, out, wire'[c]["message"], list'[c])
  <2>1. Debts(c, table, send, out, wire[c]["message"], list[c])
    BY DEF MessageInv, AllDebts
  <2>2. CASE c # c0
    BY <2>1, <2>2
  <2>3. CASE c = c0 /\ V = NoList
    <3>1. list'[c] = NoList
      BY <2>3
    <3> QED
      BY <3>1 DEF Debts
  <2>4. CASE c = c0 /\ V # NoList
    <3> DEFINE f == [i \in 1 .. Len(W) |-> i]
               q == wire[c0]["message"]
    <3>1. /\ f \in [1 .. Len(W) -> 1 .. Len(V)] /\ \A i, j \in 1 .. Len(W) : f[i] = f[j] => i = j
          /\ \A i \in 1 .. Len(W) : W[i].is = "pending" => W[i] = V[f[i]]
      BY <2>4
    <3>2. ASSUME NEW i \in 1 .. Len(V), V[i].is = "pending", out[V[i].tmp].pc \in {"run",
                   "answered"}
          PROVE  In(W, out[V[i].tmp].id) = In(V, out[V[i].tmp].id)
      <4>1. Debt(c0, V[i].text, out[V[i].tmp], table, send, q, V)
        BY <2>1, <2>4, <3>2 DEF Debts
      <4>2. V[i].tmp \in Temps
        BY <2>4, <3>2, PendingIs
      <4>3. out[V[i].tmp].id \in Ids /\ In(V, out[V[i].tmp].id) = {}
        BY <3>2, <4>1, <4>2 DEF Debt, MessageInv, TablesFit, Mutations
      <4>4. CASE out[V[i].tmp].id = id
        BY <2>4, <4>3, <4>4
      <4>5. CASE out[V[i].tmp].id # id
        BY <2>4, <4>3, <4>5
      <4> QED
        BY <4>4, <4>5
    <3>3. Debts(c0, table, send, out, q, V)
      BY <2>1, <2>4
    <3>4. Debts(c0, table, send, out, q, W)
      <4>1. V # NoList
        BY <2>4
      <4> HIDE DEF V, W, f, q
      <4> QED
        BY <3>1, <3>2, <3>3, <4>1, DebtsLists
    <3> QED
      BY <2>4, <3>4
  <2> QED
    BY <2>2, <2>3, <2>4
<1>9. AllDebts'
  BY <1>8 DEF AllDebts
<1> QED
  BY <1>2, <1>3, <1>5, <1>7, <1>9 DEF MessageInv

\* An edit that goes to the list.
LEMMA ApplyIs ==
  ASSUME MessagesAssumption, MessageInv, NEW c0 \in Clients, NEW e \in Posts(Known(table)),
           Has(c0, e.id), Apply(c0, e)
  PROVE  /\ list[c0] # NoList /\ DOMAIN list' = Clients /\ \A x \in Clients : x # c0 =>
              list'[x] = list[x]
         /\ list'[c0] # NoList /\ list'[c0] \in Seq(Listed(Known(table))) /\ Unique(list'[c0])
         /\ \A i \in Ids : i # e.id => In(list'[c0], i) = In(list[c0], i)
         /\ In(list'[c0], e.id) = {e.msg} /\ In(list[c0], e.id) # {}
         /\ Len(list'[c0]) = Len(list[c0])
         /\ \A i \in 1 .. Len(list[c0]) : list'[c0][i].is = "pending" => list'[c0][i] = list[c0][i]
<1> DEFINE V == list[c0]
           k == At(c0, e.id)
           id == e.id
           m == e.msg
           K == Known(table)
           W == Patched(V, k, m)
<1>1. DOMAIN list = Clients /\ K \in SUBSET Ids /\ id \in Ids /\ m \in Msgs
  BY KnownAre DEF MessageInv, TablesFit, Domains, Posts
<1>2. k \in 1 .. Len(V) /\ V[k].id = id /\ V # NoList /\ In(V, id) # {}
  BY AtFits, HasIn
<1>3. V \in Seq(Listed(K)) /\ Unique(V)
  BY <1>2 DEF MessageInv, ClientsFit, Lists
<1>4. list' = [list EXCEPT ![c0] = W]
  BY DEF Apply, Patched
<1> HIDE DEF V, k, id, m, K, W
<1>5. list'[c0] = W /\ DOMAIN list' = Clients /\ \A x \in Clients : x # c0 => list'[x] = list[x]
  BY <1>1, <1>4
<1>6. /\ W \in Seq(Listed(K)) /\ Unique(W) /\ W # NoList
      /\ Len(W) = Len(V)
      /\ \A i \in 1 .. Len(V) : W[i].is = "pending" => W[i] = V[i]
      /\ \A i : i # id => In(W, i) = In(V, i)
      /\ In(W, id) = {m}
  <2>1. V \in Seq(Listed(K)) /\ Unique(V) /\ k \in 1 .. Len(V) /\ V[k].id = id
    BY <1>2, <1>3
  <2>2. /\ Patched(V, k, m) \in Seq(Listed(K)) /\ Unique(Patched(V, k, m)) /\
             Patched(V, k, m) # NoList
        /\ Len(Patched(V, k, m)) = Len(V)
        /\ \A i \in 1 .. Len(V) : Patched(V, k, m)[i].is = "pending" => Patched(V, k, m)[i] = V[i]
        /\ \A i : i # id => In(Patched(V, k, m), i) = In(V, i)
        /\ In(Patched(V, k, m), id) = {[text |-> m.text, emb |-> m.emb]}
    <3>1. K \in SUBSET Ids /\ id \in Ids /\ m \in Msgs
      BY <1>1
    <3> QED
      BY <3>1, <2>1, PatchedIs
  <2> QED
    BY <1>1, <2>2, MsgIs DEF W
<1> QED
  BY <1>2, <1>5, <1>6 DEF V, id, m, K

\* An edit comes: it is applied, put aside or given up.
LEMMA OnEditKeeps ==
  ASSUME MessagesAssumption, MessageInv, NEW c0 \in Clients, OnEdit(c0)
  PROVE  MessageInv'
<1> DEFINE q == wire[c0]["edit"]
           e == Head(q)
           V == list[c0]
           L == late[c0]
           K == Known(table)
           k == "edit"
<1>1. /\ UNCHANGED <<table, send, editor, del, out, seen, mixed, cut>> /\ q # <<>>
      /\ load' = Missed(c0, e.id) /\ wire' = Taken(c0, "edit")
      /\ IF V = NoList THEN UNCHANGED <<list, late, tries, over>>
         ELSE IF Has(c0, e.id)
         THEN /\ Apply(c0, e) /\ UNCHANGED <<late, tries>>
              /\ over' = IF Waits(L, e.id) THEN [over EXCEPT ![c0] = @ \cup {e.id}] ELSE over
         ELSE Postpone(c0, e, L, FALSE) /\ UNCHANGED list
  BY DEF OnEdit, Next1, server
<1>2. /\ DOMAIN list = Clients /\ DOMAIN late = Clients /\ DOMAIN over = Clients /\ K \in SUBSET Ids
  BY KnownAre DEF MessageInv, TablesFit, Domains
<1>3. /\ DOMAIN wire' = Clients /\ \A x \in Clients : x # c0 => wire'[x] = wire[x]
      /\ Wires(K, Gone(table), wire'[c0]) /\ wire'[c0]["edit"] = Tail(q)
      /\ wire'[c0]["message"] = wire[c0]["message"] /\ wire'[c0]["delete"] = wire[c0]["delete"]
      /\ q \in Seq(Posts(K)) /\ e \in Posts(K)
  <2>1. k \in Topics /\ k # "delete" /\ "message" \in Topics /\ "delete" \in Topics /\ k # "message"
    BY TopicsAre
  <2>2. wire[c0][k] # <<>> /\ wire' = Taken(c0, k)
    BY <1>1
  <2>3. wire[c0][k] = q /\ Head(wire[c0][k]) = e /\ wire'[c0][k] = wire'[c0]["edit"]
    OBVIOUS
  <2> HIDE DEF k, q, e, K
  <2> QED
    BY <2>1, <2>2, <2>3, TakenIs DEF K
<1> DEFINE id == e.id
<1>4. id \in K /\ id \in Ids /\ e.msg \in Msgs /\ e.id = id
  BY <1>2, <1>3 DEF Posts
<1>5. Lists(K, V, L)
  BY DEF MessageInv, ClientsFit
<1>6. Has(c0, id) <=> V # NoList /\ In(V, id) # {}
  BY HasIn
<1>7. load' = Missed(c0, id)
  BY <1>1
<1> HIDE DEF q, e, K, k, id
<1>8. ASSUME NEW i \in Ids, i # id PROVE SameAbout(q, Tail(q), i) /\ SameAbout(L, L, i)
  BY <1>1, <1>3, <1>4, <1>8, TailAlike, AlikeSelf DEF e
<1>9. ASSUME c0 \notin cut, id \notin over[c0], Is(table, id), ~Working(editor, id)
      PROVE  (Waits(Tail(q), id) => LastSays(Tail(q), id, Now(table, id))) /\
               (~Waits(Tail(q), id) => e.msg = Now(table, id))
  <2>1. Pair(c0, id, table, send, editor, del, wire[c0], V, L, load[c0], seen[c0])
    BY <1>4, <1>9 DEF MessageInv, AllPairs
  <2>2. q[1] = e /\ 1 \in 1 .. Len(q)
    BY <1>1, <1>3, TailFits DEF e
  <2>3. Waits(q, id)
    BY <2>2, <1>4 DEF Waits
  <2>4. LastSays(q, id, Now(table, id))
    BY <2>1, <2>3, <1>9 DEF Pair, q
  <2> QED
    BY <2>4, <1>1, <1>3, TailSays DEF e
<1>10. CASE V = NoList
  <2>1. list' = list /\ late' = late /\ over' = over /\ L = <<>>
    BY <1>1, <1>5, <1>10 DEF Lists
  <2>2. ASSUME c0 \notin cut, id \notin over'[c0], Is(table, id), ~Working(editor, id)
        PROVE  /\ Waits(Tail(q), id) => LastSays(Tail(q), id, Now(table, id))
               /\ ~Waits(late'[c0], id) /\ list'[c0] = NoList
    BY <2>1, <2>2, <1>9, <1>10, Nothing
  <2> QED
    <3>1. EditStep(c0, id)
      BY <2>1, <2>2, <1>1, <1>2, <1>3, <1>4, <1>5, <1>7, <1>8, <1>10 DEF q, K, EditStep
    <3> QED
      BY <3>1, <1>4, Edited
<1>11. CASE V # NoList /\ Has(c0, id)
  <2>1. /\ Apply(c0, e) /\ late' = late
        /\ over' = IF Waits(L, id) THEN [over EXCEPT ![c0] = @ \cup {id}] ELSE over
    BY <1>1, <1>4, <1>11
  <2>2. /\ DOMAIN over' = Clients /\ (\A x \in Clients : x # c0 => over'[x] = over[x]) /\
             over[c0] \subseteq over'[c0]
        /\ id \notin over'[c0] => ~Waits(L, id)
    BY <2>1, <1>2
  <2>3. /\ DOMAIN list' = Clients /\ \A x \in Clients : x # c0 => list'[x] = list[x]
        /\ list'[c0] # NoList /\ list'[c0] \in Seq(Listed(K)) /\ Unique(list'[c0])
        /\ \A i \in Ids : i # id => In(list'[c0], i) = In(list[c0], i)
        /\ In(list'[c0], id) = {e.msg} /\ In(list[c0], id) # {}
        /\ Len(list'[c0]) = Len(list[c0])
        /\ \A i \in 1 .. Len(list[c0]) : list'[c0][i].is = "pending" => list'[c0][i] = list[c0][i]
    <3>1. Has(c0, e.id)
      BY <1>4, <1>11
    <3>2. e \in Posts(Known(table)) /\ Apply(c0, e)
      BY <2>1, <1>3 DEF K
    <3>3. /\ DOMAIN list' = Clients /\ \A x \in Clients : x # c0 => list'[x] = list[x]
          /\ list'[c0] # NoList /\ list'[c0] \in Seq(Listed(Known(table))) /\ Unique(list'[c0])
          /\ \A i \in Ids : i # e.id => In(list'[c0], i) = In(list[c0], i)
          /\ In(list'[c0], e.id) = {e.msg} /\ In(list[c0], e.id) # {}
          /\ Len(list'[c0]) = Len(list[c0])
          /\ \A i \in 1 .. Len(list[c0]) : list'[c0][i].is = "pending" => list'[c0][i] = list[c0][i]
      BY <3>1, <3>2, ApplyIs
    <3> QED
      BY <3>3, <1>4 DEF K
  <2>4. Lists(K, list'[c0], late'[c0])
    BY <2>1, <2>3, <1>5 DEF Lists
  <2>5. ASSUME c0 \notin cut, id \notin over'[c0], Is(table, id), ~Working(editor, id)
        PROVE  /\ Waits(Tail(q), id) => LastSays(Tail(q), id, Now(table, id))
               /\ ~Waits(late'[c0], id)
               /\ ~Waits(Tail(q), id) => Right(In(list'[c0], id), table, send, c0, wire[c0], id)
    <3>1. id \notin over[c0] /\ ~Waits(L, id)
      BY <2>2, <2>5
    <3>2. ~Waits(Tail(q), id) => In(list'[c0], id) = {Now(table, id)}
      BY <3>1, <2>3, <2>5, <1>9
    <3> QED
      BY <3>1, <3>2, <2>1, <2>5, <1>9 DEF Right
  <2>6. In(list'[c0], id) # {}
    BY <2>3
  <2>7. late'[c0] = L /\ DOMAIN late' = Clients /\ \A x \in Clients : x # c0 => late'[x] = late[x]
    BY <2>1, <1>2
  <2>8. \A i \in Ids : i # id =>
          /\ SameAbout(wire[c0]["edit"], wire'[c0]["edit"], i)
          /\ SameAbout(late[c0], late'[c0], i)
          /\ list[c0] # NoList => In(list'[c0], i) = In(list[c0], i)
    BY <2>3, <2>7, <1>3, <1>8 DEF q
  <2>9. c0 \notin cut /\ id \notin over'[c0] /\ Is(table, id) /\ ~Working(editor, id) =>
           IF Waits(wire'[c0]["edit"], id) THEN LastSays(wire'[c0]["edit"], id, Now(table, id))
           ELSE IF Waits(late'[c0], id) THEN LastSays(late'[c0], id, Now(table, id))
           ELSE list'[c0] # NoList => Right(In(list'[c0], id), table, send, c0, wire[c0], id)
    BY <2>5, <1>3
  <2>10. /\ list'[c0] = NoList <=> list[c0] = NoList
         /\ list[c0] # NoList =>
              /\ In(list'[c0], id) = {} <=> In(list[c0], id) = {}
              /\ Len(list'[c0]) = Len(list[c0])
              /\ \A i \in 1 .. Len(list[c0]) : list'[c0][i].is = "pending" =>
                   list'[c0][i] = list[c0][i]
    BY <2>3, <2>6, <1>11
  <2>11. /\ Wires(Known(table), Gone(table), wire'[c0]) /\ Lists(Known(table), list'[c0], late'[c0])
         /\ UNCHANGED <<table, send, editor, del, out, seen, mixed, cut>>
    BY <2>4, <1>1, <1>3 DEF K
  <2> QED
    <3>1. /\ id \in Ids /\ load' = Missed(c0, id)
          /\ DOMAIN wire' = Clients /\ \A x \in Clients : x # c0 => wire'[x] = wire[x]
          /\ wire'[c0]["message"] = wire[c0]["message"] /\ wire'[c0]["delete"] = wire[c0]["delete"]
      BY <1>3, <1>4, <1>7
    <3>2. /\ DOMAIN list' = Clients /\ \A x \in Clients : x # c0 => list'[x] = list[x]
          /\ DOMAIN late' = Clients /\ \A x \in Clients : x # c0 => late'[x] = late[x]
          /\ DOMAIN over' = Clients /\ \A x \in Clients : x # c0 => over'[x] = over[x]
          /\ over[c0] \subseteq over'[c0]
      BY <2>2, <2>3, <2>7
    <3> QED
      <4>1. EditStep(c0, id)
        BY <3>1, <3>2, <2>8, <2>9, <2>10, <2>11 DEF EditStep
      <4> QED
        BY <4>1, <1>4, Edited
<1>12. CASE V # NoList /\ ~Has(c0, id)
  <2>1. Postpone(c0, e, L, FALSE) /\ list' = list
    BY <1>1, <1>4, <1>12
  <2>2. In(V, id) = {}
    BY <1>6, <1>12
  <2>3. CASE tries[c0][id] >= Tries
    <3>1. late' = [late EXCEPT ![c0] = L] /\ over' = [over EXCEPT ![c0] = @ \cup {id}]
      BY <2>1, <2>3, <1>4 DEF Postpone
    <3>2. /\ late'[c0] = L /\ DOMAIN late' = Clients /\
               (\A x \in Clients : x # c0 => late'[x] = late[x])
          /\ DOMAIN over' = Clients /\ (\A x \in Clients : x # c0 => over'[x] = over[x]) /\
               over[c0] \subseteq over'[c0]
          /\ id \in over'[c0]
      BY <3>1, <1>2
    <3> QED
      <4>1. EditStep(c0, id)
        BY <3>2, <2>1, <1>1, <1>2, <1>3, <1>4, <1>5, <1>7, <1>8 DEF q, K, EditStep
      <4> QED
        BY <4>1, <1>4, Edited
  <2>4. CASE ~(tries[c0][id] >= Tries)
    <3> DEFINE A == Append(L, e)
    <3>1. late' = [late EXCEPT ![c0] = A] /\ over' = over
      BY <2>1, <2>4, <1>4 DEF Postpone
    <3>2. L \in Seq(Posts(K))
      BY <1>5 DEF Lists
    <3>3. A \in Seq(Posts(K)) /\ Waits(A, id) /\ LastSays(A, id, e.msg)
      <4>1. Append(L, e) \in Seq(Posts(K))
        BY <3>2, <1>3, AppendFits
      <4>2. Waits(Append(L, e), id) /\ LastSays(Append(L, e), e.id, e.msg)
        BY <3>2, <1>3, <1>4, AppendHears
      <4> QED
        BY <4>1, <4>2, <1>4
    <3>4. ASSUME NEW i \in Ids, i # id PROVE SameAbout(L, A, i)
      BY <3>2, <3>4, <1>3, <1>4, AppendAlike
    <3> HIDE DEF A
    <3>5. late'[c0] = A /\ DOMAIN late' = Clients /\
            (\A x \in Clients : x # c0 => late'[x] = late[x])
      BY <3>1, <1>2
    <3>6. Lists(K, list'[c0], late'[c0])
      BY <3>3, <3>5, <2>1, <1>5, <1>12 DEF Lists
    <3>7. ASSUME c0 \notin cut, id \notin over'[c0], Is(table, id), ~Working(editor, id)
          PROVE  /\ Waits(Tail(q), id) => LastSays(Tail(q), id, Now(table, id))
                 /\ ~Waits(Tail(q), id) => Waits(late'[c0], id) /\
                      LastSays(late'[c0], id, Now(table, id))
      BY <3>1, <3>3, <3>5, <3>7, <1>9
    <3> QED
      <4>1. EditStep(c0, id)
        BY <3>1, <3>4, <3>5, <3>6, <3>7, <2>1, <1>1, <1>2, <1>3, <1>4, <1>7, <1>8 DEF q, K, EditStep
      <4> QED
        BY <4>1, <1>4, Edited
  <2> QED
    BY <2>3, <2>4
<1> QED
  BY <1>10, <1>11, <1>12

\* The timer of an edit that was put aside.
LEMMA AgainKeeps ==
  ASSUME MessagesAssumption, MessageInv, NEW c0 \in Clients, Again(c0)
  PROVE  MessageInv'
<1> DEFINE L == late[c0]
           e == Head(L)
           V == list[c0]
           K == Known(table)
           R == Tail(L)
<1>1. /\ UNCHANGED <<table, send, editor, del, out, wire, seen, mixed, cut>> /\ L # <<>> /\
           V # NoList
      /\ load' = Missed(c0, e.id)
      /\ IF Has(c0, e.id)
         THEN Apply(c0, e) /\ late' = [late EXCEPT ![c0] = R] /\ UNCHANGED <<tries, over>>
         ELSE Postpone(c0, e, R, Waits(R, e.id)) /\ UNCHANGED list
  BY DEF Again, server
<1>2. /\ DOMAIN list = Clients /\ DOMAIN late = Clients /\ DOMAIN over = Clients /\
           DOMAIN wire = Clients
      /\ K \in SUBSET Ids
  BY KnownAre DEF MessageInv, TablesFit, Domains
<1>3. Lists(K, V, L) /\ L \in Seq(Posts(K)) /\ Wires(Known(table), Gone(table), wire[c0])
  BY DEF MessageInv, ClientsFit, Lists
<1>4. e \in Posts(K) /\ R \in Seq(Posts(K))
  BY <1>1, <1>3, TailFits
<1> DEFINE id == e.id
<1>5. id \in K /\ id \in Ids /\ e.msg \in Msgs /\ e.id = id
  BY <1>2, <1>4 DEF Posts
<1>6. Has(c0, id) <=> V # NoList /\ In(V, id) # {}
  BY HasIn
<1>7. load' = Missed(c0, id)
  BY <1>1
<1> HIDE DEF e, K, id, L
<1>8. ASSUME NEW i \in Ids, i # id PROVE SameAbout(L, R, i)
  BY <1>1, <1>3, <1>5, <1>8, TailAlike DEF e
<1>9. ASSUME c0 \notin cut, id \notin over[c0], Is(table, id), ~Working(editor, id)
      PROVE  IF Waits(wire[c0]["edit"], id) THEN LastSays(wire[c0]["edit"], id, Now(table, id))
             ELSE /\ Waits(R, id) => LastSays(R, id, Now(table, id))
                  /\ ~Waits(R, id) => e.msg = Now(table, id)
  <2>1. Pair(c0, id, table, send, editor, del, wire[c0], V, L, load[c0], seen[c0])
    BY <1>5, <1>9 DEF MessageInv, AllPairs, L
  <2>2. CASE Waits(wire[c0]["edit"], id)
    BY <2>1, <2>2, <1>9 DEF Pair
  <2>3. CASE ~Waits(wire[c0]["edit"], id)
    <3>1. L[1] = e /\ 1 \in 1 .. Len(L)
      BY <1>1, <1>3, TailFits DEF e
    <3>2. Waits(L, id)
      BY <3>1, <1>5 DEF Waits
    <3>3. LastSays(L, id, Now(table, id))
      BY <2>1, <2>3, <3>2, <1>9 DEF Pair
    <3> QED
      BY <2>3, <3>3, <1>1, <1>3, TailSays DEF e
  <2> QED
    BY <2>2, <2>3
<1> HIDE DEF R
<1>10. wire' = wire /\ wire'[c0] = wire[c0] /\ DOMAIN wire' = Clients /\ \A x \in Clients :
         x # c0 => wire'[x] = wire[x]
  BY <1>1, <1>2
<1>11. \A i \in Ids : SameAbout(wire[c0]["edit"], wire'[c0]["edit"], i)
  BY <1>10, AlikeSelf
<1>12. CASE Has(c0, id)
  <2>1. Apply(c0, e) /\ late' = [late EXCEPT ![c0] = R] /\ over' = over
    BY <1>1, <1>5, <1>12
  <2>2. late'[c0] = R /\ DOMAIN late' = Clients /\ \A x \in Clients : x # c0 => late'[x] = late[x]
    BY <2>1, <1>2
  <2>3. /\ DOMAIN list' = Clients /\ \A x \in Clients : x # c0 => list'[x] = list[x]
        /\ list'[c0] # NoList /\ list'[c0] \in Seq(Listed(K)) /\ Unique(list'[c0])
        /\ \A i \in Ids : i # id => In(list'[c0], i) = In(list[c0], i)
        /\ In(list'[c0], id) = {e.msg} /\ In(list[c0], id) # {}
        /\ Len(list'[c0]) = Len(list[c0])
        /\ \A i \in 1 .. Len(list[c0]) : list'[c0][i].is = "pending" => list'[c0][i] = list[c0][i]
    <3>1. Has(c0, e.id)
      BY <1>5, <1>12
    <3>2. e \in Posts(Known(table)) /\ Apply(c0, e)
      BY <2>1, <1>4 DEF K
    <3>3. /\ DOMAIN list' = Clients /\ \A x \in Clients : x # c0 => list'[x] = list[x]
          /\ list'[c0] # NoList /\ list'[c0] \in Seq(Listed(Known(table))) /\ Unique(list'[c0])
          /\ \A i \in Ids : i # e.id => In(list'[c0], i) = In(list[c0], i)
          /\ In(list'[c0], e.id) = {e.msg} /\ In(list[c0], e.id) # {}
          /\ Len(list'[c0]) = Len(list[c0])
          /\ \A i \in 1 .. Len(list[c0]) : list'[c0][i].is = "pending" => list'[c0][i] = list[c0][i]
      BY <3>1, <3>2, ApplyIs
    <3> QED
      BY <3>3, <1>5 DEF K
  <2>4. Lists(K, list'[c0], late'[c0])
    BY <2>2, <2>3, <1>4 DEF Lists
  <2>5. c0 \notin cut /\ id \notin over'[c0] /\ Is(table, id) /\ ~Working(editor, id) =>
           IF Waits(wire'[c0]["edit"], id) THEN LastSays(wire'[c0]["edit"], id, Now(table, id))
           ELSE IF Waits(late'[c0], id) THEN LastSays(late'[c0], id, Now(table, id))
           ELSE list'[c0] # NoList => Right(In(list'[c0], id), table, send, c0, wire[c0], id)
    <3>1. ASSUME c0 \notin cut, id \notin over'[c0], Is(table, id), ~Working(editor, id),
                 ~Waits(wire'[c0]["edit"], id), ~Waits(late'[c0], id)
          PROVE  Right(In(list'[c0], id), table, send, c0, wire[c0], id)
      <4>1. In(list'[c0], id) = {Now(table, id)}
        BY <3>1, <2>1, <2>2, <2>3, <1>9, <1>10
      <4> QED
        BY <4>1 DEF Right
    <3> QED
      BY <3>1, <2>1, <2>2, <1>9, <1>10
  <2>6. \A i \in Ids : i # id =>
          /\ SameAbout(wire[c0]["edit"], wire'[c0]["edit"], i)
          /\ SameAbout(late[c0], late'[c0], i)
          /\ list[c0] # NoList => In(list'[c0], i) = In(list[c0], i)
    BY <2>2, <2>3, <1>8, <1>11 DEF L
  <2>7. EditStep(c0, id)
    BY <2>1, <2>2, <2>3, <2>4, <2>5, <2>6, <1>1, <1>2, <1>3, <1>7, <1>10 DEF EditStep, K
  <2> QED
    BY <2>7, <1>5, Edited
<1>13. CASE ~Has(c0, id)
  <2>1. Postpone(c0, e, R, Waits(R, id)) /\ list' = list
    BY <1>1, <1>5, <1>13
  <2>2. In(V, id) = {}
    BY <1>1, <1>6, <1>13
  <2>3. CASE tries[c0][id] >= Tries
    <3>1. late' = [late EXCEPT ![c0] = R] /\ over' = [over EXCEPT ![c0] = @ \cup {id}]
      BY <2>1, <2>3, <1>5 DEF Postpone
    <3>2. /\ late'[c0] = R /\ DOMAIN late' = Clients /\
               (\A x \in Clients : x # c0 => late'[x] = late[x])
          /\ DOMAIN over' = Clients /\ (\A x \in Clients : x # c0 => over'[x] = over[x]) /\
               over[c0] \subseteq over'[c0]
          /\ id \in over'[c0]
      BY <3>1, <1>2
    <3>3. Lists(K, list'[c0], late'[c0])
      BY <3>2, <2>1, <1>1, <1>3, <1>4 DEF Lists
    <3>4. \A i \in Ids : i # id =>
            /\ SameAbout(wire[c0]["edit"], wire'[c0]["edit"], i)
            /\ SameAbout(late[c0], late'[c0], i)
            /\ list[c0] # NoList => In(list'[c0], i) = In(list[c0], i)
      BY <3>2, <2>1, <1>8, <1>11 DEF L
    <3>5. EditStep(c0, id)
      BY <3>2, <3>3, <3>4, <2>1, <1>1, <1>2, <1>3, <1>7, <1>10 DEF EditStep, K
    <3> QED
      BY <3>5, <1>5, Edited
  <2>4. CASE ~(tries[c0][id] >= Tries)
    <3> DEFINE A == Append(R, e)
    <3>1. late' = [late EXCEPT ![c0] = A]
          /\ over' = IF Waits(R, id) THEN [over EXCEPT ![c0] = @ \cup {id}] ELSE over
      BY <2>1, <2>4, <1>5 DEF Postpone
    <3>2. A \in Seq(Posts(K)) /\ Waits(A, id) /\ LastSays(A, id, e.msg)
      <4>1. Append(R, e) \in Seq(Posts(K))
        BY <1>4, AppendFits
      <4>2. Waits(Append(R, e), id) /\ LastSays(Append(R, e), e.id, e.msg)
        BY <1>4, <1>5, AppendHears
      <4> QED
        BY <4>1, <4>2, <1>5
    <3>3. ASSUME NEW i \in Ids, i # id PROVE SameAbout(L, A, i)
      <4>1. SameAbout(R, Append(R, e), i)
        BY <3>3, <1>4, <1>5, AppendAlike
      <4> QED
        BY <4>1, <3>3, <1>8, AlikeTrans
    <3> HIDE DEF A
    <3>4. late'[c0] = A /\ DOMAIN late' = Clients /\
            (\A x \in Clients : x # c0 => late'[x] = late[x])
      BY <3>1, <1>2
    <3>5. /\ DOMAIN over' = Clients /\ (\A x \in Clients : x # c0 => over'[x] = over[x]) /\
               over[c0] \subseteq over'[c0]
          /\ id \notin over'[c0] => ~Waits(R, id)
      BY <3>1, <1>2
    <3>6. Lists(K, list'[c0], late'[c0])
      BY <3>2, <3>4, <2>1, <1>1, <1>3 DEF Lists
    <3>7. c0 \notin cut /\ id \notin over'[c0] /\ Is(table, id) /\ ~Working(editor, id) =>
             IF Waits(wire'[c0]["edit"], id) THEN LastSays(wire'[c0]["edit"], id, Now(table, id))
             ELSE IF Waits(late'[c0], id) THEN LastSays(late'[c0], id, Now(table, id))
             ELSE list'[c0] # NoList => Right(In(list'[c0], id), table, send, c0, wire[c0], id)
      BY <3>2, <3>4, <3>5, <1>9, <1>10
    <3>8. \A i \in Ids : i # id =>
            /\ SameAbout(wire[c0]["edit"], wire'[c0]["edit"], i)
            /\ SameAbout(late[c0], late'[c0], i)
            /\ list[c0] # NoList => In(list'[c0], i) = In(list[c0], i)
      BY <3>3, <3>4, <2>1, <1>11 DEF L
    <3>9. EditStep(c0, id)
      BY <3>4, <3>5, <3>6, <3>7, <3>8, <2>1, <1>1, <1>2, <1>3, <1>7, <1>10 DEF EditStep, K
    <3> QED
      BY <3>9, <1>5, Edited
  <2> QED
    BY <2>3, <2>4
<1> QED
  BY <1>12, <1>13

\* A list without one of its messages.
CutTo(K, V, W, id) ==
  /\ W \in Seq(Listed(K)) /\ Unique(W) /\ W # NoList
  /\ \A i : i # id => In(W, i) = In(V, i)
  /\ In(W, id) = {}
  /\ \E f \in [1 .. Len(W) -> 1 .. Len(V)] :
       /\ \A i \in 1 .. Len(W) : W[i] = V[f[i]]
       /\ \A i, j \in 1 .. Len(W) : f[i] = f[j] => i = j

\* ... is what RemoveAt makes.
LEMMA CutIs ==
  ASSUME MessagesAssumption, NEW K \in SUBSET Ids, NEW V \in Seq(Listed(K)), Unique(V),
           NEW k \in 1 .. Len(V),
         NEW id \in Ids, V[k].id = id
  PROVE  CutTo(K, V, RemoveAt(V, k), id)
<1> DEFINE W == RemoveAt(V, k)
<1>1. W \in Seq(Listed(K)) /\ W # NoList
  <2>1. W \in Seq(Listed(K))
    BY InCut
  <2>2. NoList \notin Seq(Listed(K))
    BY ConstantsAre
  <2> QED
    BY <2>1, <2>2
<1>2. Unique(W) /\ In(W, id) = {}
  BY IdsAre, CutShows
<1>3. ASSUME NEW i, i # id PROVE In(W, i) = In(V, i)
  BY <1>3, CutShows
<1>4. PICK f \in [1 .. Len(W) -> (1 .. Len(V)) \ {k}] :
        /\ \A i \in 1 .. Len(W) : W[i] = V[f[i]]
        /\ \A i, j \in 1 .. Len(W) : f[i] = f[j] => i = j
        /\ \A i \in (1 .. Len(V)) \ {k} : \E j \in 1 .. Len(W) : f[j] = i
  <2> DEFINE S == Listed(K)
  <2>1. V \in Seq(S) /\ k \in 1 .. Len(V)
    OBVIOUS
  <2> HIDE DEF S
  <2> QED
    BY <2>1, CutFrom
<1>5. f \in [1 .. Len(W) -> 1 .. Len(V)]
  BY <1>4
<1> QED
  BY <1>1, <1>2, <1>3, <1>4, <1>5 DEF CutTo

\* A deletion comes.
LEMMA OnDeleteKeeps ==
  ASSUME MessagesAssumption, MessageInv, NEW c0 \in Clients, OnDelete(c0)
  PROVE  MessageInv'
<1> DEFINE q == wire[c0]["delete"]
           e == Head(q)
           V == list[c0]
           W == list'[c0]
           K == Known(table)
           k == "delete"
<1>1. /\ UNCHANGED <<table, send, editor, del, out, late, seen, mixed, cut>> /\ q # <<>>
      /\ list' = (IF Has(c0, e.id) THEN [list EXCEPT ![c0] = RemoveAt(V, At(c0, e.id))] ELSE list)
      /\ over' = (IF e.id \in seen[c0] THEN over ELSE [over EXCEPT ![c0] = @ \cup {e.id}])
      /\ load' = Missed(c0, e.id) /\ wire' = Taken(c0, "delete")
  BY DEF OnDelete, Next1, server
<1>2. /\ DOMAIN list = Clients /\ DOMAIN over = Clients /\ K \in SUBSET Ids /\
           Gone(table) \subseteq K
  BY KnownAre DEF MessageInv, TablesFit, Domains
<1>3. /\ DOMAIN wire' = Clients /\ \A x \in Clients : x # c0 => wire'[x] = wire[x]
      /\ Wires(K, Gone(table), wire'[c0]) /\ wire'[c0]["delete"] = Tail(q)
      /\ wire'[c0]["message"] = wire[c0]["message"] /\ wire'[c0]["edit"] = wire[c0]["edit"]
      /\ q \in Seq(Mail(Gone(table))) /\ e \in Mail(Gone(table))
  <2>1. k \in Topics /\ "message" \in Topics /\ "edit" \in Topics /\ k # "message" /\
          k # "edit" /\ k = "delete"
    BY TopicsAre
  <2>2. wire[c0][k] # <<>> /\ wire' = Taken(c0, k)
    BY <1>1
  <2>3. wire[c0][k] = q /\ Head(wire[c0][k]) = e /\ wire'[c0][k] = wire'[c0]["delete"]
    OBVIOUS
  <2> HIDE DEF k, q, e, K
  <2> QED
    BY <2>1, <2>2, <2>3, TakenIs DEF K
<1> DEFINE id == e.id
<1>4. id \in Gone(table) /\ id \in K /\ id \in Ids /\ ~Is(table, id)
  <2>1. id \in Gone(table)
    BY <1>3 DEF Mail
  <2> QED
    BY <2>1, <1>2 DEF Gone, Is
<1>5. Lists(K, V, late[c0])
  BY DEF MessageInv, ClientsFit
<1> HIDE DEF q, e, K, k
<1>6. /\ DOMAIN over' = Clients /\ (\A x \in Clients : over[x] \subseteq over'[x])
      /\ id \notin over'[c0] => id \in seen[c0]
  BY <1>1, <1>2
<1>7. /\ DOMAIN load' = Clients /\ \A x \in Clients : x # c0 => load'[x] = load[x]
      /\ Loading(K, load'[c0])
      /\ \A U, i : Views(U, load'[c0], i) \subseteq Views(U, load[c0], i)
      /\ \A U : Views(U, load'[c0], id) \subseteq {U} \ {NoList}
  BY <1>1, <1>4, MissedIs DEF K
<1> HIDE DEF id
<1>8. /\ DOMAIN list' = Clients /\ \A x \in Clients : x # c0 => list'[x] = list[x]
      /\ V = NoList => W = NoList
      /\ V # NoList => /\ W \in Seq(Listed(K)) /\ Unique(W) /\ W # NoList
                       /\ \A i : i # id => In(W, i) = In(V, i)
                       /\ In(W, id) = {}
                       /\ In(V, id) = {} => W = V
                       /\ \E f \in [1 .. Len(W) -> 1 .. Len(V)] :
                            /\ \A i \in 1 .. Len(W) : W[i] = V[f[i]]
                            /\ \A i, j \in 1 .. Len(W) : f[i] = f[j] => i = j
  <2>1. CASE Has(c0, id)
    <3> DEFINE n == At(c0, id)
               R == RemoveAt(V, n)
    <3>1. list' = [list EXCEPT ![c0] = R]
      BY <1>1, <2>1 DEF id
    <3>2. n \in 1 .. Len(V) /\ V[n].id = id
      BY <2>1, AtFits
    <3>3. V # NoList /\ In(V, id) # {}
      BY <2>1, HasIn
    <3>4. V \in Seq(Listed(K)) /\ Unique(V)
      BY <3>3, <1>5 DEF Lists
    <3> HIDE DEF n, V
    <3>5. CutTo(K, V, R, id)
      <4>1. K \in SUBSET Ids /\ id \in Ids
        BY <1>2, <1>4
      <4>2. CutTo(K, V, RemoveAt(V, n), id)
        BY <3>2, <3>4, <4>1, CutIs
      <4> QED
        BY <4>2
    <3> HIDE DEF R
    <3>6. W = R /\ DOMAIN list' = Clients
      BY <3>1, <1>2
    <3>7. \A x \in Clients : x # c0 => list'[x] = list[x]
      BY <3>1, <1>2
    <3> HIDE DEF W
    <3>8. CutTo(K, V, W, id)
      BY <3>5, <3>6
    <3>9. In(V, id) = {} => W = V
      BY <3>3
    <3>10. /\ W \in Seq(Listed(K)) /\ Unique(W) /\ W # NoList
           /\ \A i : i # id => In(W, i) = In(V, i)
           /\ In(W, id) = {}
           /\ \E f \in [1 .. Len(W) -> 1 .. Len(V)] :
                /\ \A i \in 1 .. Len(W) : W[i] = V[f[i]]
                /\ \A i, j \in 1 .. Len(W) : f[i] = f[j] => i = j
      BY <3>8 DEF CutTo
    <3> QED
      BY <3>3, <3>6, <3>7, <3>9, <3>10
  <2>2. CASE ~Has(c0, id)
    <3>1. list' = list
      BY <1>1, <2>2 DEF id
    <3>2. V # NoList => In(V, id) = {} /\ V \in Seq(Listed(K)) /\ Unique(V)
      BY <2>2, <1>5, HasIn DEF Lists
    <3>3. ASSUME V # NoList
          PROVE  \E f \in [1 .. Len(V) -> 1 .. Len(V)] :
                   /\ \A i \in 1 .. Len(V) : V[i] = V[f[i]]
                   /\ \A i, j \in 1 .. Len(V) : f[i] = f[j] => i = j
      <4> DEFINE f == [i \in 1 .. Len(V) |-> i]
      <4>1. /\ f \in [1 .. Len(V) -> 1 .. Len(V)]
            /\ \A i \in 1 .. Len(V) : V[i] = V[f[i]]
            /\ \A i, j \in 1 .. Len(V) : f[i] = f[j] => i = j
        OBVIOUS
      <4> QED
        BY <4>1
    <3>4. W = V /\ DOMAIN list' = Clients
      BY <3>1, <1>2
    <3> HIDE DEF V, W
    <3>5. \A x \in Clients : x # c0 => list'[x] = list[x]
      BY <3>1
    <3> QED
      BY <3>2, <3>3, <3>4, <3>5
  <2> QED
    BY <2>1, <2>2
<1>9. TablesFit'
  BY <1>1, <1>3, <1>6, <1>7, <1>8 DEF MessageInv, TablesFit, Domains, K
<1>10. Lists(K, W, late[c0])
  BY <1>5, <1>8 DEF Lists
<1>11. ClientsFit'
  <2>1. ASSUME NEW c \in Clients
        PROVE  /\ Wires(Known(table), Gone(table), wire'[c]) /\
                    Lists(Known(table), list'[c], late[c])
               /\ Loading(Known(table), load'[c]) /\ seen[c] \subseteq Known(table)
    <3>1. CASE c = c0
      BY <3>1, <1>3, <1>7, <1>10 DEF MessageInv, ClientsFit, K
    <3>2. CASE c # c0
      BY <3>2, <1>3, <1>7, <1>8 DEF MessageInv, ClientsFit
    <3> QED
      BY <3>1, <3>2
  <2> QED
    BY <2>1, <1>1 DEF ClientsFit
<1>12. ASSUME NEW c \in Clients PROVE wire'[c]["message"] = wire[c]["message"]
  BY <1>3
<1>13. AllOnce'
  BY <1>1, <1>12 DEF MessageInv, AllOnce
<1>14. ASSUME NEW c \in Clients \ cut, NEW i \in Ids \ over'[c]
       PROVE  Pair(c, i, table, send, editor, del, wire'[c], list'[c], late[c], load'[c], seen[c])
  <2>1. Pair(c, i, table, send, editor, del, wire[c], list[c], late[c], load[c], seen[c])
    BY <1>6 DEF MessageInv, AllPairs
  <2>2. CASE c # c0
    BY <2>1, <2>2, <1>3, <1>7, <1>8
  <2>3. CASE c = c0 /\ i # id
    <3>1. ASSUME NEW Y \in Views(W, load'[c0], i)
          PROVE  \E X \in Views(V, load[c0], i) : In(Y, i) = In(X, i)
      <4>1. Y \in Views(W, load[c0], i)
        BY <1>7
      <4>2. CASE V = NoList
        <5>1. W = V
          BY <4>2, <1>8
        <5> QED
          BY <4>1, <5>1
      <4>3. CASE V # NoList
        <5>1. In(W, i) = In(V, i)
          BY <2>3, <4>3, <1>8
        <5> QED
          BY <4>1, <4>3, <5>1, ListViews
      <4> QED
        BY <4>2, <4>3
    <3>2. SameAbout(q, Tail(q), i)
      BY <2>3, <1>1, <1>3, TailAlike DEF id, e
    <3>3. /\ Waits(wire'[c]["delete"], i) <=> Waits(wire[c]["delete"], i)
          /\ wire'[c]["message"] = wire[c]["message"] /\ wire'[c]["edit"] = wire[c]["edit"]
          /\ \A Y \in Views(list'[c], load'[c], i) : \E X \in Views(list[c], load[c], i) :
               In(Y, i) = In(X, i)
      BY <2>3, <3>1, <3>2, <1>3 DEF SameAbout, q
    <3> QED
      BY <2>1, <3>3, AlikeSelf, AsideSelf, PairStays
  <2>4. CASE c = c0 /\ i = id
    <3> DEFINE w2 == wire'[c0]
               lt == late[c0]
               ld2 == load'[c0]
               sn == seen[c0]
    <3>1. Alone(editor, id) /\ id \in sn
      BY <2>1, <2>4, <1>6 DEF Pair
    <3>2. \A X \in Views(W, ld2, id) : In(X, id) = {}
      BY <1>7, <1>8
    <3> HIDE DEF w2, lt, ld2, sn, W
    <3>3. Pair(c0, id, table, send, editor, del, w2, W, lt, ld2, sn)
      BY <3>1, <3>2, <1>4 DEF Pair, Sight
    <3> QED
      BY <2>4, <3>3 DEF w2, lt, ld2, sn, W
  <2> QED
    BY <2>2, <2>3, <2>4
<1>15. AllPairs'
  BY <1>1, <1>14 DEF AllPairs
<1>16. ASSUME NEW c \in Clients \ (cut \cup mixed)
       PROVE  Debts(c, table, send, out, wire'[c]["message"], list'[c])
  <2>1. Debts(c, table, send, out, wire[c]["message"], list[c])
    BY DEF MessageInv, AllDebts
  <2>2. CASE c # c0
    BY <2>1, <2>2, <1>3, <1>8
  <2>3. CASE c = c0 /\ V = NoList
    BY <2>3, <1>8 DEF Debts
  <2>4. CASE c = c0 /\ V # NoList
    <3> DEFINE p == wire[c0]["message"]
    <3>1. PICK f \in [1 .. Len(W) -> 1 .. Len(V)] :
            /\ \A i \in 1 .. Len(W) : W[i] = V[f[i]]
            /\ \A i, j \in 1 .. Len(W) : f[i] = f[j] => i = j
      BY <2>4, <1>8
    <3>2. Debts(c0, table, send, out, p, V)
      BY <2>1, <2>4
    <3>3. ASSUME NEW i \in 1 .. Len(V), V[i].is = "pending", out[V[i].tmp].pc \in {"run",
                   "answered"}
          PROVE  In(W, out[V[i].tmp].id) = In(V, out[V[i].tmp].id)
      <4> DEFINE h == out[V[i].tmp].id
      <4>1. In(V, h) = {}
        BY <2>4, <3>2, <3>3 DEF Debts, Debt
      <4> HIDE DEF h
      <4>2. In(W, h) = In(V, h)
        BY <4>1, <2>4, <1>8
      <4> QED
        BY <4>2 DEF h
    <3>4. V # NoList
      BY <2>4
    <3> HIDE DEF p, V, W
    <3>5. Debts(c0, table, send, out, p, W)
      BY <3>1, <3>2, <3>3, <3>4, DebtsLists
    <3> QED
      BY <2>4, <3>5, <1>3 DEF p, V, W
  <2> QED
    BY <2>2, <2>3, <2>4
<1>17. AllDebts'
  BY <1>1, <1>16 DEF AllDebts
<1> QED
  BY <1>9, <1>11, <1>13, <1>15, <1>17 DEF MessageInv

\* At first nobody has heard of anything.
LEMMA MessagesBegin == ASSUME MessagesAssumption, Init PROVE MessageInv
<1> USE DEF Init
<1>1. Known(table) = {} /\ Gone(table) = {}
  BY DEF Known, Gone, None
<1>2. Domains
  BY DEF Domains
<1>3. Rows(table, send, del)
  BY DEF Rows, None, Mute
<1>4. Pens(Known(table), editor)
  BY DEF Pens, Quill
<1>5. Mutations(Known(table), out)
  <2>1. out = [t \in Temps |-> [pc |-> "new", by |-> 0, text |-> NoMsg, id |-> 0]]
    OBVIOUS
  <2> QED
    BY <2>1 DEF Mutations
<1>6. ASSUME NEW c \in Clients
      PROVE  /\ Wires(Known(table), Gone(table), wire[c]) /\ Lists(Known(table), list[c], late[c])
             /\ Loading(Known(table), load[c]) /\ seen[c] \subseteq Known(table)
  <2>1. wire[c] = [k \in Topics |-> <<>>] /\ list[c] = NoList /\ late[c] = <<>> /\ seen[c] = {}
        /\ load[c] = [l \in Loads |-> Fresh]
    OBVIOUS
  <2>2. Wires(Known(table), Gone(table), wire[c])
    BY <2>1, TopicsAre DEF Wires
  <2>3. Loading(Known(table), load[c])
    <3>1. Fresh \in [pc : {"new", "asked", "read", "done"}, rows : Seq(Sent(Known(table))),
            missed : SUBSET Ids]
          /\ Fresh.rows = <<>>
      BY DEF Fresh
    <3>2. Unique(<<>>)
      BY DEF Unique
    <3> QED
      BY <2>1, <3>1, <3>2 DEF Loading
  <2> QED
    BY <2>1, <2>2, <2>3 DEF Lists
<1>7. ClientsFit
  BY <1>6 DEF ClientsFit
<1>8. AllOnce
  <2>1. ASSUME NEW c \in Clients, NEW id \in Ids
        PROVE  Once(send, c, wire[c]["message"], seen[c], id)
    <3>1. wire[c]["message"] = <<>> /\ seen[c] = {}
      BY TopicsAre
    <3> QED
      BY <3>1, Nothing DEF Once
  <2> QED
    BY <2>1 DEF AllOnce
<1>9. AllPairs
  <2>1. ASSUME NEW c \in Clients, NEW id \in Ids
        PROVE  Pair(c, id, table, send, editor, del, wire[c], list[c], late[c], load[c], seen[c])
    <3>1. ~Is(table, id) /\ del[id] = "no"
      BY DEF Is, None
    <3>2. Alone(editor, id)
      BY DEF Alone, Quill
    <3>3. list[c] = NoList /\ load[c] = [l \in Loads |-> Fresh]
      OBVIOUS
    <3>4. Views(list[c], load[c], id) = {}
      BY <3>3 DEF Views, Fresh
    <3> HIDE DEF Init
    <3> QED
      BY <3>1, <3>2, <3>4 DEF Pair
  <2> QED
    BY <2>1 DEF AllPairs
<1>10. AllDebts
  BY DEF AllDebts, Debts
<1> QED
  BY <1>2, <1>3, <1>4, <1>5, <1>7, <1>8, <1>9, <1>10 DEF MessageInv, TablesFit

\* Nothing happens.
LEMMA MessagesStay == ASSUME MessageInv, UNCHANGED vars PROVE MessageInv'
<1>1. UNCHANGED <<table, send, editor, del, out, wire, list, late, load, seen, over, mixed, cut>>
  BY DEF vars, server, client, history
<1>2. TablesFit' /\ ClientsFit'
  BY <1>1 DEF MessageInv, TablesFit, ClientsFit, Domains
<1>3. AllOnce' /\ AllPairs' /\ AllDebts'
  BY <1>1 DEF MessageInv, AllOnce, AllPairs, AllDebts
<1> QED
  BY <1>2, <1>3 DEF MessageInv

\* Every step keeps the invariant.
LEMMA MessagesKeep == ASSUME MessagesAssumption, MessageInv, [Next]_vars PROVE MessageInv'
<1>1. CASE Server
  <2>1. ASSUME NEW t \in Temps, Create(t) \/ Refuse(t) \/ Answer(t) PROVE MessageInv'
    BY <2>1, CreateKeeps, RefuseKeeps, AnswerKeeps
  <2>2. ASSUME NEW id \in Ids, ReadBack(id) \/ TellDelete(id) \/ \E c \in Clients : Tell(id, c)
        PROVE  MessageInv'
    BY <2>2, ReadBackKeeps, TellDeleteKeeps, TellKeeps
  <2>3. ASSUME NEW e \in Editors, ReadRow(e) \/ TellEdit(e) PROVE MessageInv'
    BY <2>3, ReadRowKeeps, TellEditKeeps
  <2>4. ASSUME NEW c \in Clients, NEW l \in Loads, ReadTable(c, l) PROVE MessageInv'
    BY <2>4, ReadTableKeeps
  <2> QED
    BY <1>1, <2>1, <2>2, <2>3, <2>4 DEF Server
<1>2. CASE Users
  <2>1. ASSUME NEW c \in Clients, NEW x \in Texts, Type(c, x) PROVE MessageInv'
    BY <2>1, TypeKeeps
  <2>2. ASSUME NEW c \in Clients, Drop(c) PROVE MessageInv'
    BY <2>2, DropKeeps
  <2>3. ASSUME NEW c \in Clients, NEW l \in Loads, Ask(c, l) PROVE MessageInv'
    BY <2>3, AskKeeps
  <2>4. ASSUME NEW e \in Editors, NEW id \in Ids, Edit(e, id) \/ Embed(e, id) PROVE MessageInv'
    BY <2>4, EditKeeps
  <2>5. ASSUME NEW id \in Ids, Delete(id) PROVE MessageInv'
    BY <2>5, DeleteKeeps
  <2> QED
    BY <1>2, <2>1, <2>2, <2>3, <2>4, <2>5 DEF Users
<1>3. ASSUME NEW c \in Clients, Deliver(c) PROVE MessageInv'
  <2>1. ASSUME OnMessage(c) \/ OnEdit(c) \/ Again(c) \/ OnDelete(c) PROVE MessageInv'
    BY <2>1, OnMessageKeeps, OnEditKeeps, AgainKeeps, OnDeleteKeeps
  <2>2. ASSUME NEW l \in Loads, Assign(c, l) PROVE MessageInv'
    BY <2>2, AssignKeeps
  <2>3. ASSUME NEW t \in Temps, out[t].by = c, Fail(t) PROVE MessageInv'
    <3>1. out[t].by \in Clients
      BY <2>3
    <3> QED
      BY <2>3, <3>1, FailKeeps
  <2> QED
    BY <1>3, <2>1, <2>2, <2>3 DEF Deliver
<1>4. CASE UNCHANGED vars
  BY <1>4, MessagesStay
<1> QED
  BY <1>1, <1>2, <1>3, <1>4 DEF Next

\* When nothing is on its way, only what is shown is left, and it is what the rows say.
LEMMA InvSettles == ASSUME MessageInv PROVE Settled
<1>1. NoTwins
  <2>1. ASSUME NEW c \in Clients, list[c] # NoList PROVE Unique(list[c])
    BY <2>1 DEF MessageInv, ClientsFit, Lists
  <2> QED
    BY <2>1 DEF NoTwins, Unique
<1>2. ShowsTheTable
  <2>1. SUFFICES ASSUME NEW c \in Clients \ cut, ServerQuiet, ClientQuiet(c),
                          NEW id \in Ids \ over[c]
                 PROVE  /\ Here(id) <=> Has(c, id)
                        /\ Has(c, id) => LET m == list[c][At(c, id)]
                                         IN [text |-> m.text, emb |-> m.emb] = Content(id)
    BY DEF ShowsTheTable
  <2> DEFINE V == list[c]
             w == wire[c]
  <2>2. Pair(c, id, table, send, editor, del, w, V, late[c], load[c], seen[c])
    BY DEF MessageInv, AllPairs
  <2>3. /\ V # NoList /\ late[c] = <<>> /\ w["message"] = <<>> /\ w["edit"] = <<>> /\
             w["delete"] = <<>>
        /\ V \in Views(V, load[c], id)
    BY <2>1, TopicsAre DEF ClientQuiet, Views
  <2>4. /\ ~Waits(w["message"], id) /\ ~Waits(w["edit"], id) /\ ~Waits(w["delete"], id) /\
             ~Waits(late[c], id)
    BY <2>3, Nothing
  <2>5. /\ ~Working(editor, id) /\ del[id] # "gone" /\ send[id].pc # "created" /\ ~Told(send, c, id)
    BY <2>1 DEF ServerQuiet, Working, Told
  <2>6. Sight(In(V, id), table, send, del, c, w, id)
    BY <2>2, <2>3 DEF Pair
  <2>7. Is(table, id) <=> In(V, id) # {}
    BY <2>4, <2>5, <2>6 DEF Sight, Coming, Departing
  <2>8. Here(id) <=> Has(c, id)
    BY <2>3, <2>7, HasIn DEF Here, Is
  <2>9. ASSUME Has(c, id)
        PROVE  [text |-> list[c][At(c, id)].text, emb |-> list[c][At(c, id)].emb] = Content(id)
    <3>1. Is(table, id) /\ In(V, id) # {}
      BY <2>9, <2>3, <2>7, HasIn
    <3>2. In(V, id) = {Now(table, id)}
      BY <3>1, <2>2, <2>3, <2>4, <2>5 DEF Pair, Right
    <3>3. At(c, id) \in 1 .. Len(V) /\ V[At(c, id)].id = id
      BY <2>9, AtFits
    <3>4. Unique(V) /\ id # 0
      BY <2>3, IdsAre DEF MessageInv, ClientsFit, Lists
    <3>5. In(V, id) = {[text |-> V[At(c, id)].text, emb |-> V[At(c, id)].emb]}
      <4> DEFINE k == At(c, id)
      <4> HIDE DEF k, V
      <4>1. k \in 1 .. Len(V) /\ V[k].id = id
        BY <3>3 DEF k
      <4> QED
        BY <4>1, <3>4, InOne DEF k
    <3> QED
      BY <3>2, <3>5 DEF Now, Content
  <2> QED
    BY <2>8, <2>9
<1>3. PendingEnds
  <2>1. SUFFICES ASSUME NEW c \in Clients \ (cut \cup mixed), ServerQuiet, ClientQuiet(c),
                        NEW i \in 1 .. Len(list[c]), list[c][i].is = "pending"
                 PROVE  FALSE
    BY DEF PendingEnds
  <2> DEFINE o == out[list[c][i].tmp]
             q == wire[c]["message"]
  <2>2. list[c] # NoList /\ q = <<>>
    BY <2>1, TopicsAre DEF ClientQuiet
  <2>3. Debt(c, list[c][i].text, o, table, send, q, list[c])
    BY <2>1, <2>2 DEF MessageInv, AllDebts, Debts
  <2>4. list[c][i].tmp \in Temps
    BY <2>1, <2>2, PendingIs
  <2>5. o.pc = "answered"
    BY <2>1, <2>3, <2>4 DEF ServerQuiet, Debt
  <2>6. Waits(q, o.id)
    BY <2>3, <2>5 DEF Debt
  <2> QED
    BY <2>2, <2>6, Nothing
<1> QED
  BY <1>1, <1>2, <1>3 DEF Settled

\* However the events of sending, editing, embedding and deleting are interleaved with the loads
\* of the clients, and for any number of clients, messages, editors, loads and tries: a list shows
\* no message twice, and when all is quiet it shows exactly the rows, as they are, and nothing
\* pending, except where one of the named races was met.
THEOREM MessagesSettle == ASSUME MessagesAssumption PROVE Spec => []Settled
<1>1. Init => MessageInv
  BY MessagesBegin
<1>2. MessageInv /\ [Next]_vars => MessageInv'
  BY MessagesKeep
<1>3. MessageInv => Settled
  BY InvSettles
<1> QED
  BY <1>1, <1>2, <1>3, PTL DEF Spec

------------------------------------------------------------------------------
(* The types: what the invariant does not say of them is how often an edit *)
(* was put aside, and which messages are excepted.                          *)

Tallied ==
  /\ tries \in [Clients -> [Ids -> 0 .. Tries]]
  /\ over \in [Clients -> SUBSET Ids]

\* One client more excepts a message.
LEMMA OverGrows ==
  ASSUME Tallied, NEW c \in Clients, NEW S \in SUBSET Ids
  PROVE  [over EXCEPT ![c] = @ \cup S] \in [Clients -> SUBSET Ids]
  BY DEF Tallied

\* An edit that waits is counted, and given up when it has waited long enough.
LEMMA PostponeTallies ==
  ASSUME MessagesAssumption, Tallied, NEW c \in Clients, NEW e, e.id \in Ids, NEW r,
         NEW b, Postpone(c, e, r, b)
  PROVE  Tallied'
<1>1. Tries \in Nat /\ tries[c] \in [Ids -> 0 .. Tries] /\ tries[c][e.id] \in 0 .. Tries
  BY DEF MessagesAssumption, Tallied
<1>2. [over EXCEPT ![c] = @ \cup {e.id}] \in [Clients -> SUBSET Ids]
  BY OverGrows
<1>3. CASE tries[c][e.id] >= Tries
  <2>1. tries' = [tries EXCEPT ![c][e.id] = 0] /\ over' \in [Clients -> SUBSET Ids]
    BY <1>2, <1>3 DEF Postpone
  <2> QED
    BY <1>1, <2>1 DEF Tallied
<1>4. CASE ~(tries[c][e.id] >= Tries)
  <2>1. tries' = [tries EXCEPT ![c][e.id] = @ + 1] /\ over' \in [Clients -> SUBSET Ids]
    BY <1>2, <1>4 DEF Postpone, Tallied
  <2>2. tries[c][e.id] + 1 \in 0 .. Tries
    BY <1>1, <1>4
  <2> QED
    BY <1>1, <2>1, <2>2 DEF Tallied
<1> QED
  BY <1>3, <1>4

\* The first of a queue, and what a load that reads has missed.
LEMMA HeadsAre ==
  ASSUME MessageInv, NEW c \in Clients
  PROVE  /\ \A k \in Topics : wire[c][k] # <<>> => Next1(c, k).id \in Ids
         /\ late[c] # <<>> => Head(late[c]).id \in Ids
         /\ \A l \in Loads : load[c][l].missed \subseteq Ids
<1> DEFINE K == Known(table)
<1>1. K \subseteq Ids /\ Wires(K, Gone(table), wire[c]) /\ Lists(K, list[c], late[c])
      /\ Loading(K, load[c])
  BY KnownAre DEF MessageInv, ClientsFit
<1> HIDE DEF K
<1>2. ASSUME NEW k \in Topics, wire[c][k] # <<>> PROVE Next1(c, k).id \in Ids
  <2>1. wire[c][k] \in Seq(Mail(K))
    BY <1>1 DEF Wires
  <2>2. Head(wire[c][k]) \in Mail(K)
    BY <1>2, <2>1, TailFits
  <2> QED
    BY <1>1, <2>2 DEF Next1, Mail
<1>3. ASSUME late[c] # <<>> PROVE Head(late[c]).id \in Ids
  <2>1. late[c] \in Seq(Posts(K))
    BY <1>1 DEF Lists
  <2>2. Head(late[c]) \in Posts(K)
    BY <1>3, <2>1, TailFits
  <2> QED
    BY <1>1, <2>2 DEF Posts
<1>4. \A l \in Loads : load[c][l].missed \subseteq Ids
  BY <1>1 DEF Loading
<1> QED
  BY <1>2, <1>3, <1>4

\* Every step counts.
LEMMA TalliesKeep ==
  ASSUME MessagesAssumption, MessageInv, Tallied, [Next]_vars
  PROVE  Tallied'
<1>1. CASE UNCHANGED <<tries, over>>
  BY <1>1 DEF Tallied
<1>2. CASE Server
  <2>1. ASSUME NEW e \in Editors, ReadRow(e) \/ TellEdit(e) PROVE UNCHANGED <<tries, over>>
    BY <2>1 DEF ReadRow, TellEdit, client, history
  <2>2. ASSUME NEW t \in Temps, Create(t) \/ Refuse(t) \/ Answer(t)
        PROVE  UNCHANGED <<tries, over>>
    BY <2>2 DEF Create, Refuse, Answer, client, history
  <2>3. ASSUME NEW id \in Ids, ReadBack(id) \/ TellDelete(id) \/ \E c \in Clients : Tell(id, c)
        PROVE  UNCHANGED <<tries, over>>
    BY <2>3 DEF ReadBack, TellDelete, Tell, client, history
  <2>4. ASSUME NEW c \in Clients, NEW l \in Loads, ReadTable(c, l)
        PROVE  UNCHANGED <<tries, over>>
    BY <2>4 DEF ReadTable, history
  <2> QED
    BY <1>1, <1>2, <2>1, <2>2, <2>3, <2>4 DEF Server
<1>3. CASE Users
  <2>1. ASSUME NEW e \in Editors, NEW id \in Ids, Edit(e, id) \/ Embed(e, id) PROVE Tallied'
    <3>1. tries' = tries /\ (over' = over \/ over' = [c \in Clients |-> over[c] \cup {id}])
      BY <2>1 DEF Edit, Embed, Write, client
    <3> QED
      BY <3>1 DEF Tallied
  <2>2. ASSUME NEW c \in Clients, NEW x \in Texts, Type(c, x) PROVE UNCHANGED <<tries, over>>
    BY <2>2 DEF Type, history
  <2>3. ASSUME NEW c \in Clients, Drop(c) PROVE UNCHANGED <<tries, over>>
    BY <2>3 DEF Drop
  <2>4. ASSUME NEW c \in Clients, NEW l \in Loads, Ask(c, l) PROVE UNCHANGED <<tries, over>>
    BY <2>4 DEF Ask, history
  <2>5. ASSUME NEW id \in Ids, Delete(id) PROVE UNCHANGED <<tries, over>>
    BY <2>5 DEF Delete, client, history
  <2> QED
    BY <1>1, <1>3, <2>1, <2>2, <2>3, <2>4, <2>5 DEF Users
<1>4. ASSUME NEW c \in Clients, Deliver(c) PROVE Tallied'
  <2>1. CASE OnMessage(c)
    BY <1>1, <2>1 DEF OnMessage
  <2>2. CASE OnEdit(c)
    <3> DEFINE e == Next1(c, "edit")
    <3>1. e.id \in Ids
      BY <2>2, HeadsAre, TopicsAre DEF OnEdit
    <3>2. CASE Postpone(c, e, late[c], FALSE)
      BY <3>1, <3>2, PostponeTallies
    <3>3. CASE tries' = tries /\ (over' = over \/ over' = [over EXCEPT ![c] = @ \cup {e.id}])
      <4> HIDE DEF e
      <4>1. [over EXCEPT ![c] = @ \cup {e.id}] \in [Clients -> SUBSET Ids]
        BY <3>1, OverGrows
      <4> QED
        BY <3>3, <4>1 DEF Tallied
    <3> QED
      BY <2>2, <3>2, <3>3 DEF OnEdit
  <2>3. CASE Again(c)
    <3> DEFINE e == Head(late[c])
    <3>1. e.id \in Ids
      BY <2>3, HeadsAre DEF Again
    <3>2. CASE Postpone(c, e, Tail(late[c]), Waits(Tail(late[c]), e.id))
      BY <3>1, <3>2, PostponeTallies
    <3> QED
      BY <1>1, <2>3, <3>2 DEF Again
  <2>4. CASE OnDelete(c)
    <3> DEFINE e == Next1(c, "delete")
    <3>1. e.id \in Ids
      BY <2>4, HeadsAre, TopicsAre DEF OnDelete
    <3>2. tries' = tries /\ (over' = over \/ over' = [over EXCEPT ![c] = @ \cup {e.id}])
      BY <2>4 DEF OnDelete
    <3> HIDE DEF e
    <3>3. [over EXCEPT ![c] = @ \cup {e.id}] \in [Clients -> SUBSET Ids]
      BY <3>1, OverGrows
    <3> QED
      BY <3>2, <3>3 DEF Tallied
  <2>5. ASSUME NEW l \in Loads, Assign(c, l) PROVE Tallied'
    <3>1. tries' = tries /\ over' = [over EXCEPT ![c] = @ \cup load[c][l].missed]
      BY <2>5 DEF Assign
    <3>2. [over EXCEPT ![c] = @ \cup load[c][l].missed] \in [Clients -> SUBSET Ids]
      BY HeadsAre, OverGrows
    <3> QED
      BY <3>1, <3>2 DEF Tallied
  <2>6. ASSUME NEW t \in Temps, Fail(t) PROVE UNCHANGED <<tries, over>>
    BY <2>6 DEF Fail, history
  <2> QED
    BY <1>1, <1>4, <2>1, <2>2, <2>3, <2>4, <2>5, <2>6 DEF Deliver
<1>5. CASE UNCHANGED vars
  BY <1>1, <1>5 DEF vars, client, history
<1> QED
  BY <1>2, <1>3, <1>4, <1>5 DEF Next

\* The counts start at nothing.
LEMMA TalliesBegin == ASSUME MessagesAssumption, Init PROVE Tallied
<1>1. 0 \in 0 .. Tries
  BY DEF MessagesAssumption
<1> QED
  BY <1>1 DEF Init, Tallied

\* Together they say of every variable what its type says.
LEMMA InvTypes == ASSUME MessageInv, Tallied PROVE TypeOK
<1> DEFINE K == Known(table)
<1>1. K \in SUBSET Ids /\ Gone(table) \subseteq K /\ Rows(table, send, del) /\ Pens(K, editor)
      /\ Mutations(K, out)
  BY KnownAre DEF MessageInv, TablesFit
<1> HIDE DEF K
<1>2. \A id \in Ids : /\ table[id].st \in {"none", "here", "gone"}
                      /\ del[id] \in {"no", "gone", "told"}
                      /\ send[id].pc \in {"none", "created", "tell", "failed"}
                      /\ send[id].todo \subseteq Clients
  BY <1>1 DEF Rows
<1>3. \A e \in Editors : editor[e] \in [pc : {"idle", "written", "read"}, id : {0} \cup Ids,
                                        msg : {NoMsg} \cup Msgs]
  BY <1>1 DEF Pens
<1>4. \A t \in Temps : out[t].pc \in {"new", "sent", "refused", "run", "answered"}
  BY <1>1 DEF Mutations
<1>5. ASSUME NEW c \in Clients
      PROVE  /\ \A k \in Topics : Each(wire[c][k], Events)
             /\ Each(late[c], Events)
             /\ list[c] # NoList => Each(list[c], Items)
             /\ \A l \in Loads : Each(load[c][l].rows, Items)
             /\ seen[c] \subseteq Ids
  <2>1. /\ Wires(K, Gone(table), wire[c]) /\ Lists(K, list[c], late[c])
        /\ Loading(K, load[c]) /\ seen[c] \subseteq K
    BY DEF MessageInv, ClientsFit, K
  <2>2. Mail(K) \subseteq Events /\ Posts(K) \subseteq Events
    BY <1>1 DEF Mail, Posts, Events
  <2>3. Listed(K) \subseteq Items /\ Sent(K) \subseteq Items
    BY <1>1, ListedIsItems
  <2>4. \A k \in Topics : Each(wire[c][k], Events)
    BY <2>1, <2>2 DEF Wires, Each
  <2>5. Each(late[c], Events)
    BY <2>1, <2>2 DEF Lists, Each
  <2>6. list[c] # NoList => Each(list[c], Items)
    BY <2>1, <2>3 DEF Lists, Each
  <2>7. \A l \in Loads : Each(load[c][l].rows, Items)
    BY <2>1, <2>3 DEF Loading, Each
  <2> QED
    BY <1>1, <2>1, <2>4, <2>5, <2>6, <2>7
<1>6. \A c \in Clients : tries[c] \in [Ids -> 0 .. Tries] /\ over[c] \subseteq Ids
  BY DEF Tallied
<1> QED
  BY <1>2, <1>3, <1>4, <1>5, <1>6 DEF TypeOK

\* Every variable of the messages keeps its type.
THEOREM MessagesTypeCorrect == ASSUME MessagesAssumption PROVE Spec => []TypeOK
<1>1. Init => MessageInv /\ Tallied
  BY MessagesBegin, TalliesBegin
<1>2. MessageInv /\ Tallied /\ [Next]_vars => (MessageInv /\ Tallied)'
  BY MessagesKeep, TalliesKeep
<1>3. MessageInv /\ Tallied => TypeOK
  BY InvTypes
<1> QED
  BY <1>1, <1>2, <1>3, PTL DEF Spec
=============================================================================
