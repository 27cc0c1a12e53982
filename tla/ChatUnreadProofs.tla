-------------------------- MODULE ChatUnreadProofs ---------------------------
(***************************************************************************)
(* NothingInvented, KeysOfMembers and BadgeIsRight for any chats, requests *)
(* and messages.  The inductive invariant of the first charges the counters*)
(* with the messages on their way to them: what any copy of the document   *)
(* shows, together with the requests that have still to count, is covered  *)
(* by what was pushed.  At the end Settled and the types of all of MCTalk, *)
(* from what MessagesProofs shows of any messages.                         *)
(***************************************************************************)
EXTENDS MCTalk, FiniteSetTheorems, TLAPS

\* What one copy of the document shows, and what is still to be counted.
Below(d, r, p, c) == Shown(d, c) + Cardinality(Counting(r, c)) <= p[c]

\* Every copy in the requests r, and the document d itself.
Covered(d, r, p) ==
  \A c \in Chats : Below(d, r, p, c) /\ \A s \in Slots : Below(r[s].doc, r, p, c)

IInv == TypeOK /\ Covered(doc, req, pushed)

------------------------------------------------------------------------------
\* A counter is a number.
LEMMA ShownIsNat == ASSUME NEW d, NEW c PROVE Shown(d, c) \in Nat
  BY DEF Shown

\* Writing one key changes what that chat shows, and no other.
LEMMA WithShown ==
  ASSUME NEW d \in Docs, NEW c \in Chats, NEW n \in Nat \cup {NaN, Missing},
         NEW x \in Chats
  PROVE  /\ With(d, c, n) \in Docs \ {NoDoc}
         /\ Shown(With(d, c, n), x) =
              IF x = c THEN (IF n \in Nat THEN n ELSE 0) ELSE Shown(d, x)
<1>1. Entries(d) \in [Chats -> Nat \cup {NaN, Missing}]
  BY DEF Entries, Docs
<1>2. With(d, c, n) \in [Chats -> Nat \cup {NaN, Missing}]
  BY <1>1 DEF With
<1>3. With(d, c, n) # NoDoc
  BY <1>2, UnreadAssumption
<1>4. Entries(With(d, c, n)) = With(d, c, n)
  BY <1>3 DEF Entries
<1>5. With(d, c, n)[x] = IF x = c THEN n ELSE Entries(d)[x]
  BY <1>1 DEF With
<1> QED
  BY <1>2, <1>3, <1>4, <1>5, UnreadAssumption DEF Shown, Docs

\* The requests that have still to count are finitely many.
LEMMA CountingFinite ==
  ASSUME NEW r, NEW c
  PROVE  /\ IsFiniteSet(Counting(r, c))
         /\ Cardinality(Counting(r, c)) \in Nat
<1>1. Counting(r, c) \subseteq Slots
  BY DEF Counting
<1> QED
  BY <1>1, UnreadAssumption, FS_Subset, FS_CardinalityType

\* Fewer requests to count leave more room.
LEMMA FewerToCount ==
  ASSUME NEW r, NEW q, NEW c, Counting(q, c) \subseteq Counting(r, c)
  PROVE  Cardinality(Counting(q, c)) <= Cardinality(Counting(r, c))
  BY CountingFinite, FS_Subset

\* A step that moves one request, to a copy that the document or its own copy already
\* covered, and lets nothing new be counted keeps the cover.
LEMMA MoveKeepsCover ==
  ASSUME IInv, NEW s \in Slots, NEW q \in Requests,
         NEW d, Covered(d, req, pushed),
         q.doc \in {NoDoc, req[s].doc, d},
         q.pc \in {"get", "set"} => q.chat = req[s].chat /\ req[s].pc \in {"get", "set"}
  PROVE  Covered(d, [req EXCEPT ![s] = q], pushed)
<1> DEFINE r == [req EXCEPT ![s] = q]
<1>0. /\ req \in [Slots -> Requests]
      /\ pushed \in [Chats -> Nat]
  BY DEF IInv, TypeOK
<1>1. \A t \in Slots : r[t] = IF t = s THEN q ELSE req[t]
  BY <1>0
<1>2. SUFFICES ASSUME NEW c \in Chats
               PROVE  Below(d, r, pushed, c) /\ \A t \in Slots : Below(r[t].doc, r, pushed, c)
  BY DEF Covered
<1>3. Counting(r, c) \subseteq Counting(req, c)
  BY <1>1 DEF Counting
<1>4. /\ Cardinality(Counting(r, c)) <= Cardinality(Counting(req, c))
      /\ Cardinality(Counting(r, c)) \in Nat /\ Cardinality(Counting(req, c)) \in Nat
  BY <1>3, FewerToCount, CountingFinite
<1>5. pushed[c] \in Nat
  BY <1>0
<1>6. ASSUME NEW e, Below(e, req, pushed, c) PROVE Below(e, r, pushed, c)
  <2> HIDE DEF r
  <2> QED
    BY <1>4, <1>5, <1>6, ShownIsNat DEF Below
<1>7. Below(d, req, pushed, c) /\ \A t \in Slots : Below(req[t].doc, req, pushed, c)
  BY DEF Covered
<1>8. Below(NoDoc, req, pushed, c)
  <2>1. Shown(NoDoc, c) = 0
    BY UnreadAssumption DEF Shown, Entries
  <2> QED
    BY <2>1, <1>4, <1>5, <1>7, ShownIsNat DEF Below
<1>9. \A t \in Slots : Below(r[t].doc, req, pushed, c)
  BY <1>1, <1>7, <1>8
<1> QED
  BY <1>6, <1>7, <1>9

\* A document that shows no more than some copy did is covered as the copy was.
LEMMA LowerKeepsCover ==
  ASSUME IInv, NEW s \in Slots, NEW d,
         \A c \in Chats : Shown(d, c) <= Shown(req[s].doc, c)
  PROVE  Covered(d, req, pushed)
<1>1. SUFFICES ASSUME NEW c \in Chats PROVE Below(d, req, pushed, c)
  BY DEF IInv, Covered
<1>2. Below(req[s].doc, req, pushed, c) /\ pushed[c] \in Nat
  BY DEF IInv, Covered, TypeOK
<1> QED
  BY <1>1, <1>2, ShownIsNat, CountingFinite DEF Below

------------------------------------------------------------------------------
(* Types.                                                                  *)

\* What the steps make of a request: it goes on, with a copy of the document or with a
\* message if it has just read one; and what a request is when it begins.
On(r, pc) == [r EXCEPT !.pc = pc]
Copied(r, pc, d) == [r EXCEPT !.pc = pc, !.doc = d]
Found(r, pc, m) == [r EXCEPT !.pc = pc, !.msg = m]
Begun(op, c, pc, to) == [Idle EXCEPT !.op = op, !.chat = c, !.pc = pc, !.to = to]

LEMMA OnMoved ==
  ASSUME NEW r \in Requests, NEW pc \in Points
  PROVE  /\ On(r, pc) \in Requests
         /\ On(r, pc).pc = pc /\ On(r, pc).chat = r.chat /\ On(r, pc).doc = r.doc
  BY DEF Requests, On

LEMMA CopiedMoved ==
  ASSUME NEW r \in Requests, NEW pc \in Points, NEW d \in Docs
  PROVE  /\ Copied(r, pc, d) \in Requests /\ Copied(r, pc, d).pc = pc
         /\ Copied(r, pc, d).chat = r.chat /\ Copied(r, pc, d).doc = d
  BY DEF Requests, Copied

LEMMA FoundMoved ==
  ASSUME NEW r \in Requests, NEW pc \in Points, NEW m \in Nat
  PROVE  /\ Found(r, pc, m) \in Requests /\ Found(r, pc, m).pc = pc
         /\ Found(r, pc, m).chat = r.chat /\ Found(r, pc, m).doc = r.doc
  BY DEF Requests, Found

LEMMA BegunMoved ==
  ASSUME NEW op \in Ops, NEW c \in Chats, NEW pc \in Points, NEW to \in BOOLEAN
  PROVE  /\ Begun(op, c, pc, to) \in Requests /\ Begun(op, c, pc, to).pc = pc
         /\ Begun(op, c, pc, to).chat = c /\ Begun(op, c, pc, to).doc = NoDoc
  BY DEF Requests, Idle, Docs, Begun

LEMMA IdleMoved == Idle \in Requests /\ Idle.pc = "idle" /\ Idle.doc = NoDoc
  BY DEF Requests, Idle, Docs

LEMMA RequestFields ==
  ASSUME NEW r \in Requests
  PROVE  r.doc \in Docs /\ r.msg \in Nat /\ r.chat \in Chats \cup {"none"}
  BY DEF Requests

\* The steps of a request, by what they make of it.
Becomes(s, q) == req' = [req EXCEPT ![s] = q]

LEMMA Steps ==
  ASSUME TypeOK, NEW s \in Slots
  PROVE  /\ Done(s) => Becomes(s, Idle)
         /\ \A pc : Goto(s, pc) => Becomes(s, On(req[s], pc))
         /\ \A from, to : Fetch(s, from, to) => Becomes(s, Copied(req[s], to, doc))
         /\ Create(s) => Becomes(s, Found(req[s], "lookup", sent + 1))
         /\ \A op, c, pc, to : Begin(s, op, c, pc, to) => Becomes(s, Begun(op, c, pc, to))
         /\ \A c : Join(s, c) => Becomes(s, Begun("send", c, "create", TRUE))
         /\ Find(s) => \/ Becomes(s, Idle)
                       \/ Becomes(s, Found(req[s], "mark", newest[Chat(s)]))
         /\ DropGet(s) => \/ Becomes(s, Idle)
                          \/ doc # NoDoc /\ Becomes(s, Copied(req[s], "dropset", doc))
  BY DEF Done, Goto, Fetch, Create, Begin, Join, Find, DropGet, Becomes, On, Copied, Found, Begun

\* The documents the program writes are documents.
LEMMA WrittenDocs ==
  ASSUME NEW d \in Docs, NEW c \in Chats
  PROVE  /\ Raised(d, c) \in Docs \ {NoDoc}
         /\ Cleared(d, c) \in Docs \ {NoDoc}
         /\ Dropped(d, c) \in Docs \ {NoDoc}
<1>1. Shown(d, c) + 1 \in Nat
  BY ShownIsNat
<1> QED
  BY <1>1, WithShown DEF Raised, Cleared, Dropped

LEMMA TypeInit == Init => TypeOK
  BY UnreadAssumption DEF Init, TypeOK, At, Chat, Idle, Requests, Docs, Empty

\* Every step keeps the types.
LEMMA TypeStep == TypeOK /\ [Next]_vars => TypeOK'
<1> SUFFICES ASSUME TypeOK, [Next]_vars PROVE TypeOK'
  OBVIOUS
<1> USE UnreadAssumption
<1> DEFINE Kept == /\ req' \in [Slots -> Requests]
                   /\ (\A t \in Slots : ~At(t, "idle") => Chat(t) \in Chats)'
                   /\ (\A t \in Slots : At(t, "dropset") => req[t].doc # NoDoc)'
<1>1. ASSUME NEW s \in Slots, NEW q \in Requests, Becomes(s, q),
             q.pc # "idle" => q.chat \in Chats, q.pc = "dropset" => q.doc # NoDoc
      PROVE  Kept
  BY <1>1 DEF Becomes, TypeOK, At, Chat
<1> HIDE DEF Kept
<1>2. ASSUME NEW s \in Slots
      PROVE  /\ req[s] \in Requests /\ req[s].doc \in Docs /\ req[s].msg \in Nat
             /\ ~At(s, "idle") => Chat(s) \in Chats
  BY RequestFields DEF TypeOK
<1>3. ASSUME NEW s \in Slots, Done(s) PROVE Kept
  BY <1>1, <1>3, Steps, IdleMoved
<1>4. ASSUME NEW s \in Slots, NEW pc \in Points \ {"dropset"}, ~At(s, "idle"), Goto(s, pc)
      PROVE Kept
  <2>1. Becomes(s, On(req[s], pc))
    BY <1>4, Steps
  <2>2. On(req[s], pc) \in Requests /\ On(req[s], pc).pc = pc /\ On(req[s], pc).chat \in Chats
    BY <1>2, <1>4, OnMoved DEF Chat
  <2> QED
    BY <1>1, <2>1, <2>2
<1>5. CASE UNCHANGED vars
  BY <1>5 DEF TypeOK, vars, data, history, At, Chat
<1>6. ASSUME NEW s \in Slots, NEW c \in Chats, NEW op \in Ops, NEW pc \in {"create", "readget"},
             NEW to \in BOOLEAN, Begin(s, op, c, pc, to)
      PROVE TypeOK'
  <2>1. pc \in Points
    BY DEF Points
  <2>2. Kept
    <3>1. Becomes(s, Begun(op, c, pc, to))
      BY <1>6, Steps
    <3> QED
      BY <1>1, <2>1, <3>1, BegunMoved
  <2> QED
    BY <1>6, <2>2 DEF Begin, TypeOK, data, Kept
<1>7. ASSUME NEW s \in Slots, Arrive(s) PROVE TypeOK'
  <2>1. ASSUME NEW c \in Chats, NEW to \in BOOLEAN, Send(s, c, to) PROVE TypeOK'
    BY <1>6, <2>1 DEF Send, Ops
  <2>2. ASSUME NEW c \in Chats, NEW to \in BOOLEAN, Remove(s, c, to) PROVE TypeOK'
    BY <1>6, <2>2 DEF Remove, Ops
  <2>3. ASSUME NEW c \in Chats, Read(s, c) PROVE TypeOK'
    BY <1>6, <2>3 DEF Read, Ops
  <2>4. ASSUME NEW c \in Chats, Join(s, c) PROVE TypeOK'
    <3>1. "create" \in Points /\ "send" \in Ops
      BY DEF Points, Ops
    <3>2. Kept
      <4>1. Becomes(s, Begun("send", c, "create", TRUE))
        BY <2>4, Steps
      <4>2. /\ Begun("send", c, "create", TRUE) \in Requests
            /\ Begun("send", c, "create", TRUE).pc = "create"
            /\ Begun("send", c, "create", TRUE).chat = c
        BY DEF Requests, Idle, Docs, Begun, Ops, Points
      <4> QED
        BY <1>1, <4>1, <4>2
    <3> QED
      BY <2>4, <3>2 DEF Join, TypeOK, Kept
  <2> QED
    BY <1>7, <2>1, <2>2, <2>3, <2>4 DEF Arrive
<1>8. ASSUME NEW s \in Slots, Create(s) PROVE TypeOK'
  <2>1. sent + 1 \in Nat /\ ~At(s, "idle")
    BY <1>8 DEF TypeOK, Create, At
  <2>2. "lookup" \in Points
    BY DEF Points
  <2>3. Kept
    <3>1. Becomes(s, Found(req[s], "lookup", sent + 1))
      BY <1>8, Steps
    <3> QED
      BY <1>1, <1>2, <2>1, <2>2, <3>1, FoundMoved DEF Chat
  <2> QED
    BY <1>2, <1>8, <2>1, <2>3 DEF Create, TypeOK, history, Kept
<1>9. ASSUME NEW s \in Slots, ~At(s, "idle"), Announced(s) PROVE Kept
  BY <1>3, <1>4, <1>9 DEF Announced, Points
<1>10. ASSUME NEW s \in Slots, Lookup(s) PROVE TypeOK'
  <2>1. ~At(s, "idle")
    BY <1>10 DEF Lookup, At
  <2>2. Kept
    BY <1>4, <1>9, <1>10, <2>1 DEF Lookup, Points
  <2> QED
    BY <1>2, <1>10, <2>1, <2>2 DEF Lookup, TypeOK, data, Kept
<1>11. ASSUME NEW s \in Slots, Get(s) \/ ReadGet(s) PROVE TypeOK'
  <2>1. ASSUME NEW from \in Points, NEW to \in {"set", "readset"}, Fetch(s, from, to)
        PROVE  TypeOK'
    <3>1. doc \in Docs /\ ~At(s, "idle") /\ to \in Points \ {"dropset"}
      BY <2>1 DEF TypeOK, Fetch, At, Points
    <3>2. Kept
      <4>1. Becomes(s, Copied(req[s], to, doc))
        BY <2>1, Steps
      <4> QED
        BY <1>1, <1>2, <3>1, <4>1, CopiedMoved DEF Chat
    <3> QED
      BY <2>1, <3>2 DEF Fetch, TypeOK, data, history, Kept
  <2> QED
    BY <1>11, <2>1 DEF Get, ReadGet, Points
<1>12. ASSUME NEW s \in Slots, SendSet(s) PROVE TypeOK'
  <2>1. ~At(s, "idle") /\ Chat(s) \in Chats
    BY <1>2, <1>12 DEF SendSet, At
  <2>2. doc' \in Docs /\ Kept
    BY <1>2, <1>9, <1>12, <2>1, WrittenDocs DEF SendSet
  <2> QED
    BY <1>12, <2>2 DEF SendSet, TypeOK, data, Kept
<1>13. ASSUME NEW s \in Slots, ReadSet(s) PROVE TypeOK'
  <2>1. ~At(s, "idle") /\ Chat(s) \in Chats
    BY <1>2, <1>13 DEF ReadSet, At
  <2>2. doc' \in Docs /\ Kept
    BY <1>2, <1>4, <1>13, <2>1, WrittenDocs DEF ReadSet, Points
  <2>3. due' \in [Chats -> Nat]
    BY <1>13, CountingFinite DEF ReadSet, TypeOK, Kept
  <2> QED
    BY <1>13, <2>2, <2>3 DEF ReadSet, TypeOK, data, Kept
<1>14. ASSUME NEW s \in Slots, Find(s) PROVE TypeOK'
  <2>1. ~At(s, "idle") /\ Chat(s) \in Chats
    BY <1>2, <1>14 DEF Find, At
  <2>2. newest[Chat(s)] \in Nat /\ "mark" \in Points
    BY <2>1 DEF TypeOK, Points
  <2>3. Kept
    <3>1. CASE Becomes(s, Found(req[s], "mark", newest[Chat(s)]))
      BY <1>1, <1>2, <2>1, <2>2, <3>1, FoundMoved DEF Chat
    <3>2. CASE Becomes(s, Idle)
      BY <1>1, <3>2, IdleMoved
    <3> QED
      BY <1>14, <3>1, <3>2, Steps
  <2> QED
    BY <1>14, <2>3 DEF Find, TypeOK, data, history, Kept
<1>15. ASSUME NEW s \in Slots, Mark(s) PROVE TypeOK'
  <2>1. Kept
    BY <1>3, <1>15 DEF Mark
  <2>2. Chat(s) \in Chats
    BY <1>2, <1>15 DEF Mark, At
  <2> QED
    BY <1>2, <1>15, <2>1, <2>2 DEF Mark, TypeOK, Kept
<1>16. ASSUME NEW s \in Slots, DropGet(s) PROVE TypeOK'
  <2>1. ~At(s, "idle") /\ Chat(s) \in Chats /\ doc \in Docs /\ "dropset" \in Points
    BY <1>2, <1>16 DEF DropGet, At, TypeOK, Points
  <2>2. Kept
    <3>1. CASE doc # NoDoc /\ Becomes(s, Copied(req[s], "dropset", doc))
      BY <1>1, <1>2, <2>1, <3>1, CopiedMoved DEF Chat
    <3>2. CASE Becomes(s, Idle)
      BY <1>1, <3>2, IdleMoved
    <3> QED
      BY <1>16, <3>1, <3>2, Steps
  <2> QED
    BY <1>16, <2>2 DEF DropGet, TypeOK, data, history, Kept
<1>17. ASSUME NEW s \in Slots, DropSet(s) PROVE TypeOK'
  <2>1. ~At(s, "idle") /\ Chat(s) \in Chats
    BY <1>2, <1>17 DEF DropSet, At
  <2>2. doc' \in Docs /\ Kept
    BY <1>2, <1>4, <1>17, <2>1, WrittenDocs DEF DropSet, Points
  <2> QED
    BY <1>17, <2>2 DEF DropSet, TypeOK, data, Kept
<1>18. ASSUME NEW s \in Slots, Destroy(s) PROVE TypeOK'
  <2>1. Kept
    BY <1>3, <1>18 DEF Destroy
  <2> QED
    BY <1>18, <2>1 DEF Destroy, TypeOK, Kept
<1>19. ASSUME NEW s \in Slots, Crash(s) PROVE TypeOK'
  <2>1. Kept
    BY <1>3, <1>19 DEF Crash
  <2> QED
    BY <1>19, <2>1 DEF Crash, TypeOK, data, Kept
<1> QED
  BY <1>5, <1>7, <1>8, <1>10, <1>11, <1>12, <1>13, <1>14, <1>15, <1>16, <1>17, <1>18, <1>19
  DEF Next, Step

------------------------------------------------------------------------------
(* The cover.                                                              *)

LEMMA CoverInit == Init => Covered(doc, req, pushed)
<1> SUFFICES ASSUME Init PROVE Covered(doc, req, pushed)
  OBVIOUS
<1>1. \A c \in Chats : Counting(req, c) = {} /\ pushed[c] = 0
  BY DEF Init, Counting, Idle
<1>2. \A d \in {NoDoc, Empty}, c \in Chats : Shown(d, c) = 0
  BY UnreadAssumption DEF Shown, Entries, Empty
<1>3. doc \in {NoDoc, Empty} /\ \A s \in Slots : req[s].doc = NoDoc
  BY DEF Init, Idle
<1>4. \A d \in {NoDoc, Empty}, c \in Chats : Below(d, req, pushed, c)
  BY <1>1, <1>2, FS_EmptySet DEF Below
<1> QED
  BY <1>3, <1>4 DEF Covered

\* A step of one request that pushes nothing and writes nothing.
LEMMA QuietStep ==
  ASSUME IInv, NEW s \in Slots, NEW q \in Requests, Becomes(s, q),
         q.doc \in {NoDoc, req[s].doc, doc},
         q.pc \in {"get", "set"} => q.chat = req[s].chat /\ req[s].pc \in {"get", "set"},
         doc' = doc, pushed' = pushed
  PROVE  Covered(doc, req, pushed)'
<1>1. Covered(doc, [req EXCEPT ![s] = q], pushed)
  BY MoveKeepsCover DEF IInv
<1> QED
  BY <1>1 DEF Becomes

\* A step of one request that writes a document showing no more than its copy did.
LEMMA WritingStep ==
  ASSUME IInv, NEW s \in Slots, NEW q \in Requests, Becomes(s, q),
         q.doc \in {NoDoc, req[s].doc}, q.pc \notin {"get", "set"},
         \A c \in Chats : Shown(doc', c) <= Shown(req[s].doc, c), pushed' = pushed
  PROVE  Covered(doc, req, pushed)'
<1>1. Covered(doc', req, pushed)
  BY LowerKeepsCover
<1>2. Covered(doc', [req EXCEPT ![s] = q], pushed)
  BY <1>1, MoveKeepsCover
<1> QED
  BY <1>2 DEF Becomes

\* A message that is to be counted: one more pushed, one more to count.
LEMMA PushingStep ==
  ASSUME IInv, NEW s \in Slots, NEW c \in Chats, req[s].chat = c,
         req[s].pc = "lookup", Goto(s, "get"),
         pushed' = [pushed EXCEPT ![c] = @ + 1], doc' = doc
  PROVE  Covered(doc, req, pushed)'
<1>0. req \in [Slots -> Requests] /\ pushed \in [Chats -> Nat]
  BY DEF IInv, TypeOK
<1>1. /\ req' = [req EXCEPT ![s] = On(req[s], "get")]
      /\ On(req[s], "get").pc = "get" /\ On(req[s], "get").chat = c
      /\ On(req[s], "get").doc = req[s].doc
  <2>1. req[s] \in Requests /\ "get" \in Points
    BY <1>0 DEF Points
  <2>2. Becomes(s, On(req[s], "get"))
    BY Steps DEF IInv
  <2> QED
    BY <2>1, <2>2, OnMoved DEF Becomes
<1>2. \A t \in Slots : req'[t] = IF t = s THEN On(req[s], "get") ELSE req[t]
  BY <1>0, <1>1
<1>3. SUFFICES ASSUME NEW x \in Chats
               PROVE  /\ Below(doc, req', pushed', x)
                      /\ \A t \in Slots : Below(req'[t].doc, req', pushed', x)
  BY DEF Covered, Below
<1>4. Below(doc, req, pushed, x) /\ \A t \in Slots : Below(req[t].doc, req, pushed, x)
  BY DEF IInv, Covered
<1>5. \A t \in Slots : req'[t].doc = req[t].doc
  BY <1>1, <1>2
<1>6. pushed'[x] = (IF x = c THEN pushed[x] + 1 ELSE pushed[x]) /\ pushed[x] \in Nat
  BY <1>0
<1>7. Cardinality(Counting(req', x)) =
        IF x = c THEN Cardinality(Counting(req, x)) + 1 ELSE Cardinality(Counting(req, x))
  <2>1. CASE x = c
    <3>1. Counting(req', x) = Counting(req, x) \cup {s} /\ s \notin Counting(req, x)
      BY <1>1, <1>2, <2>1 DEF Counting
    <3> QED
      <4>1. IsFiniteSet(Counting(req, x))
        BY CountingFinite
      <4>2. Cardinality(Counting(req', x)) = Cardinality(Counting(req, x)) + 1
        BY <3>1, <4>1, FS_AddElement
      <4> QED
        BY <2>1, <4>2
  <2>2. CASE x # c
    <3>1. Counting(req', x) = Counting(req, x)
      BY <1>1, <1>2, <2>2 DEF Counting
    <3> QED
      BY <2>2, <3>1
  <2> QED
    BY <2>1, <2>2
<1>8. ASSUME NEW d, Below(d, req, pushed, x) PROVE Below(d, req', pushed', x)
  <2> DEFINE k == Cardinality(Counting(req, x))
             n == Cardinality(Counting(req', x))
             v == Shown(d, x)
             m == pushed'[x]
  <2>1. v \in Nat /\ k \in Nat /\ v + k <= pushed[x]
    BY <1>8, ShownIsNat, CountingFinite DEF Below
  <2>2. n = (IF x = c THEN k + 1 ELSE k) /\ m = (IF x = c THEN pushed[x] + 1 ELSE pushed[x])
    BY <1>6, <1>7
  <2>3. v + n <= m
    <3> HIDE DEF v, n, m, k
    <3> QED
      BY <1>6, <2>1, <2>2
  <2> QED
    BY <2>3 DEF Below
<1> QED
  BY <1>4, <1>5, <1>8

\* A message that is counted: one more shown in the document, one fewer to count.
LEMMA CountingStep ==
  ASSUME IInv, NEW s \in Slots, SendSet(s)
  PROVE  Covered(doc, req, pushed)'
<1> DEFINE c == req[s].chat
<1>0. /\ req \in [Slots -> Requests] /\ pushed \in [Chats -> Nat]
      /\ req[s].pc = "set" /\ c \in Chats /\ req[s].doc \in Docs /\ pushed' = pushed
      /\ doc' = Raised(req[s].doc, c)
  BY RequestFields DEF IInv, TypeOK, SendSet, At, Chat
<1>1. PICK q \in Requests : /\ Becomes(s, q) /\ q.pc \notin {"get", "set"}
                            /\ q.doc \in {NoDoc, req[s].doc}
  <2>1. CASE Done(s)
    BY <2>1, IdleMoved, Steps DEF IInv
  <2>2. CASE Goto(s, "dropget")
    <3>1. Becomes(s, On(req[s], "dropget"))
      BY <2>2, Steps DEF IInv
    <3>2. On(req[s], "dropget") \in Requests /\ On(req[s], "dropget").pc = "dropget"
          /\ On(req[s], "dropget").doc = req[s].doc
      BY <1>0, OnMoved DEF Points
    <3> QED
      BY <3>1, <3>2
  <2> QED
    BY <2>1, <2>2 DEF SendSet, Announced
<1>2. \A t \in Slots : req'[t] = IF t = s THEN q ELSE req[t]
  BY <1>0, <1>1 DEF Becomes
<1>3. SUFFICES ASSUME NEW x \in Chats
               PROVE  /\ Below(doc', req', pushed, x)
                      /\ \A t \in Slots : Below(req'[t].doc, req', pushed, x)
  BY <1>0 DEF Covered, Below
<1>4. /\ Below(doc, req, pushed, x) /\ \A t \in Slots : Below(req[t].doc, req, pushed, x)
      /\ pushed[x] \in Nat
  BY <1>0 DEF IInv, Covered
<1>5. Cardinality(Counting(req', x)) =
        IF x = c THEN Cardinality(Counting(req, x)) - 1 ELSE Cardinality(Counting(req, x))
  <2>1. CASE x = c
    <3>1. Counting(req', x) = Counting(req, x) \ {s} /\ s \in Counting(req, x)
      BY <1>0, <1>1, <1>2, <2>1 DEF Counting
    <3> QED
      <4>1. IsFiniteSet(Counting(req, x))
        BY CountingFinite
      <4>2. Cardinality(Counting(req', x)) = Cardinality(Counting(req, x)) - 1
        BY <3>1, <4>1, FS_RemoveElement
      <4> QED
        BY <2>1, <4>2
  <2>2. CASE x # c
    <3>1. Counting(req', x) = Counting(req, x)
      BY <1>0, <1>1, <1>2, <2>2 DEF Counting
    <3> QED
      BY <2>2, <3>1
  <2> QED
    BY <2>1, <2>2
<1>6. Shown(doc', x) <= (IF x = c THEN Shown(req[s].doc, x) + 1 ELSE Shown(req[s].doc, x))
  <2>1. Shown(req[s].doc, c) + 1 \in Nat
    BY ShownIsNat
  <2> HIDE DEF c
  <2>2. \E n \in {NaN, Shown(req[s].doc, c) + 1} : doc' = With(req[s].doc, c, n)
    BY <1>0 DEF Raised
  <2>3. /\ x = c => Shown(doc', x) \in {0, Shown(req[s].doc, c) + 1}
        /\ x # c => Shown(doc', x) = Shown(req[s].doc, x)
    <3>1. PICK n \in {NaN, Shown(req[s].doc, c) + 1} : doc' = With(req[s].doc, c, n)
      BY <2>2
    <3>2. n \in Nat \cup {NaN, Missing}
      BY <2>1
    <3>3. Shown(doc', x) = IF x = c THEN (IF n \in Nat THEN n ELSE 0) ELSE Shown(req[s].doc, x)
      BY <1>0, <3>1, <3>2, WithShown
    <3> QED
      BY <2>1, <3>1, <3>3, UnreadAssumption
  <2> QED
    BY <1>0, <2>1, <2>3, ShownIsNat
<1>7. ASSUME NEW d, Below(d, req, pushed, x) PROVE Below(d, req', pushed, x)
  <2>1. Shown(d, x) \in Nat /\ Cardinality(Counting(req, x)) \in Nat
    BY ShownIsNat, CountingFinite
  <2>2. Cardinality(Counting(req', x)) \in Nat
    BY CountingFinite
  <2> QED
    BY <1>4, <1>5, <1>7, <2>1, <2>2 DEF Below
<1>8. Below(doc', req', pushed, x)
  <2>1. /\ Shown(doc', x) \in Nat /\ Shown(req[s].doc, x) \in Nat
        /\ Cardinality(Counting(req, x)) \in Nat /\ Cardinality(Counting(req', x)) \in Nat
    BY ShownIsNat, CountingFinite
  <2>2. Below(req[s].doc, req, pushed, x)
    BY <1>4
  <2> HIDE DEF c
  <2> QED
    BY <1>4, <1>5, <1>6, <2>1, <2>2 DEF Below
<1>9. \A t \in Slots : Below(req'[t].doc, req, pushed, x)
  <2>1. Below(NoDoc, req, pushed, x)
    <3>1. Shown(NoDoc, x) = 0 /\ Shown(doc, x) \in Nat /\ Cardinality(Counting(req, x)) \in Nat
      BY UnreadAssumption, ShownIsNat, CountingFinite DEF Shown, Entries
    <3> QED
      BY <1>4, <3>1 DEF Below
  <2> QED
    BY <1>1, <1>2, <1>4, <2>1
<1> QED
  BY <1>7, <1>8, <1>9

\* Every step keeps the cover.
LEMMA CoverStep == IInv /\ [Next]_vars => Covered(doc, req, pushed)'
<1> SUFFICES ASSUME IInv, [Next]_vars PROVE Covered(doc, req, pushed)'
  OBVIOUS
<1>1. ASSUME NEW s \in Slots
      PROVE  /\ req[s] \in Requests /\ req[s].doc \in Docs /\ req[s].msg \in Nat /\ doc \in Docs
             /\ ~At(s, "idle") => Chat(s) \in Chats
             /\ TypeOK
  BY RequestFields DEF IInv, TypeOK
<1>2. ASSUME NEW s \in Slots, Done(s), doc' = doc, pushed' = pushed
      PROVE  Covered(doc, req, pushed)'
  BY <1>1, <1>2, IdleMoved, Steps, QuietStep
<1>3. ASSUME NEW s \in Slots, NEW pc \in Points \ {"get", "set"}, Goto(s, pc), doc' = doc,
             pushed' = pushed
      PROVE  Covered(doc, req, pushed)'
  <2>1. Becomes(s, On(req[s], pc))
    BY <1>1, <1>3, Steps
  <2>2. On(req[s], pc) \in Requests /\ On(req[s], pc).pc = pc /\ On(req[s], pc).doc = req[s].doc
    BY <1>1, OnMoved
  <2> QED
    BY <1>3, <2>1, <2>2, QuietStep
<1>4. CASE UNCHANGED vars
  BY <1>4 DEF IInv, Covered, Below, Counting, vars, data, history
<1>5. ASSUME NEW s \in Slots, NEW c \in Chats, NEW op \in Ops, NEW pc \in {"create", "readget"},
             NEW to \in BOOLEAN, Begin(s, op, c, pc, to)
      PROVE Covered(doc, req, pushed)'
  <2>1. Becomes(s, Begun(op, c, pc, to))
    BY <1>1, <1>5, Steps
  <2>2. Begun(op, c, pc, to) \in Requests /\ Begun(op, c, pc, to).pc = pc
        /\ Begun(op, c, pc, to).doc = NoDoc
    <3>1. pc \in Points
      BY DEF Points
    <3> QED
      BY <3>1, BegunMoved
  <2>3. doc' = doc /\ pushed' = pushed
    BY <1>5 DEF Begin
  <2> QED
    BY <2>1, <2>2, <2>3, QuietStep
<1>6. ASSUME NEW s \in Slots, Arrive(s) PROVE Covered(doc, req, pushed)'
  <2>1. ASSUME NEW c \in Chats, NEW to \in BOOLEAN, Send(s, c, to) \/ Remove(s, c, to)
        PROVE  Covered(doc, req, pushed)'
    BY <1>5, <2>1 DEF Send, Remove, Ops
  <2>2. ASSUME NEW c \in Chats, Read(s, c) PROVE Covered(doc, req, pushed)'
    BY <1>5, <2>2 DEF Read, Ops
  <2>3. ASSUME NEW c \in Chats, Join(s, c) PROVE Covered(doc, req, pushed)'
    <3>1. Becomes(s, Begun("send", c, "create", TRUE))
      BY <1>1, <2>3, Steps
    <3>2. /\ Begun("send", c, "create", TRUE) \in Requests
          /\ Begun("send", c, "create", TRUE).pc = "create"
          /\ Begun("send", c, "create", TRUE).doc = NoDoc
      BY DEF Requests, Idle, Docs, Begun, Ops, Points
    <3>3. doc' = doc /\ pushed' = pushed
      BY <2>3 DEF Join
    <3> QED
      BY <3>1, <3>2, <3>3, QuietStep
  <2> QED
    BY <1>6, <2>1, <2>2, <2>3 DEF Arrive
<1>7. ASSUME NEW s \in Slots, Create(s) PROVE Covered(doc, req, pushed)'
  <2>1. Becomes(s, Found(req[s], "lookup", sent + 1))
    BY <1>1, <1>7, Steps
  <2>2. /\ Found(req[s], "lookup", sent + 1) \in Requests
        /\ Found(req[s], "lookup", sent + 1).pc = "lookup"
        /\ Found(req[s], "lookup", sent + 1).doc = req[s].doc
    <3>1. sent + 1 \in Nat /\ "lookup" \in Points
      BY DEF IInv, TypeOK, Points
    <3> QED
      BY <1>1, <3>1, FoundMoved
  <2>3. doc' = doc /\ pushed' = pushed
    BY <1>7 DEF Create, history
  <2> QED
    BY <2>1, <2>2, <2>3, QuietStep
<1>8. ASSUME NEW s \in Slots, Lookup(s) PROVE Covered(doc, req, pushed)'
  <2>1. doc' = doc
    BY <1>8 DEF Lookup
  <2>2. CASE Announced(s) /\ UNCHANGED pushed
    BY <1>2, <1>3, <2>1, <2>2 DEF Announced, Points
  <2>3. CASE Goto(s, "get") /\ pushed' = [pushed EXCEPT ![Chat(s)] = @ + 1]
    <3>1. Chat(s) \in Chats /\ req[s].chat = Chat(s) /\ req[s].pc = "lookup"
      BY <1>1, <1>8 DEF Lookup, At, Chat
    <3> QED
      BY <2>1, <2>3, <3>1, PushingStep
  <2> QED
    BY <1>8, <2>2, <2>3 DEF Lookup
<1>9. ASSUME NEW s \in Slots, Get(s) \/ ReadGet(s) PROVE Covered(doc, req, pushed)'
  <2>1. ASSUME NEW from, NEW to \in Points, Fetch(s, from, to), to = "set" => from = "get",
               to # "get"
        PROVE  Covered(doc, req, pushed)'
    <3>1. Becomes(s, Copied(req[s], to, doc))
      BY <1>1, <2>1, Steps
    <3>2. /\ Copied(req[s], to, doc) \in Requests /\ Copied(req[s], to, doc).pc = to
          /\ Copied(req[s], to, doc).chat = req[s].chat /\ Copied(req[s], to, doc).doc = doc
      BY <1>1, CopiedMoved
    <3>3. doc' = doc /\ pushed' = pushed /\ req[s].pc = from
      BY <2>1 DEF Fetch, history, At
    <3> QED
      BY <2>1, <3>1, <3>2, <3>3, QuietStep
  <2> QED
    BY <1>9, <2>1 DEF Get, ReadGet, Points
<1>10. ASSUME NEW s \in Slots, SendSet(s) PROVE Covered(doc, req, pushed)'
  BY <1>10, CountingStep
<1>11. ASSUME NEW s \in Slots, NEW n \in {0, Missing}, NEW pc \in {"find", "destroy"},
              ~At(s, "idle"), doc' = With(req[s].doc, Chat(s), n), Goto(s, pc), pushed' = pushed
       PROVE  Covered(doc, req, pushed)'
  <2>1. Becomes(s, On(req[s], pc))
    BY <1>1, <1>11, Steps
  <2>2. /\ On(req[s], pc) \in Requests /\ On(req[s], pc).pc = pc
        /\ On(req[s], pc).doc = req[s].doc
    <3>1. pc \in Points
      BY DEF Points
    <3> QED
      BY <1>1, <3>1, OnMoved
  <2>3. ASSUME NEW x \in Chats PROVE Shown(doc', x) <= Shown(req[s].doc, x)
    <3>1. Shown(doc', x) = IF x = Chat(s) THEN (IF n \in Nat THEN n ELSE 0) ELSE Shown(req[s].doc, x)
      BY <1>1, <1>11, WithShown
    <3>2. (IF n \in Nat THEN n ELSE 0) = 0
      BY UnreadAssumption
    <3> QED
      BY <3>1, <3>2, ShownIsNat
  <2> QED
    BY <1>11, <2>1, <2>2, <2>3, WritingStep
<1>12. ASSUME NEW s \in Slots, ReadSet(s) PROVE Covered(doc, req, pushed)'
  BY <1>11, <1>12 DEF ReadSet, Cleared, At
<1>13. ASSUME NEW s \in Slots, DropSet(s) PROVE Covered(doc, req, pushed)'
  BY <1>11, <1>13 DEF DropSet, Dropped, At
<1>14. ASSUME NEW s \in Slots, Find(s) PROVE Covered(doc, req, pushed)'
  <2>1. doc' = doc /\ pushed' = pushed /\ newest[Chat(s)] \in Nat /\ "mark" \in Points
    BY <1>1, <1>14 DEF Find, history, At, TypeOK, Points
  <2>2. CASE Becomes(s, Found(req[s], "mark", newest[Chat(s)]))
    <3>1. /\ Found(req[s], "mark", newest[Chat(s)]) \in Requests
          /\ Found(req[s], "mark", newest[Chat(s)]).pc = "mark"
          /\ Found(req[s], "mark", newest[Chat(s)]).doc = req[s].doc
      BY <1>1, <2>1, FoundMoved
    <3> QED
      BY <2>1, <2>2, <3>1, QuietStep
  <2>3. CASE Becomes(s, Idle)
    BY <2>1, <2>3, IdleMoved, QuietStep
  <2> QED
    BY <1>1, <1>14, <2>2, <2>3, Steps
<1>15. ASSUME NEW s \in Slots, DropGet(s) PROVE Covered(doc, req, pushed)'
  <2>1. doc' = doc /\ pushed' = pushed /\ "dropset" \in Points
    BY <1>15 DEF DropGet, history, Points
  <2>2. CASE Becomes(s, Copied(req[s], "dropset", doc))
    <3>1. /\ Copied(req[s], "dropset", doc) \in Requests
          /\ Copied(req[s], "dropset", doc).pc = "dropset"
          /\ Copied(req[s], "dropset", doc).doc = doc
      BY <1>1, <2>1, CopiedMoved
    <3> QED
      BY <2>1, <2>2, <3>1, QuietStep
  <2>3. CASE Becomes(s, Idle)
    BY <2>1, <2>3, IdleMoved, QuietStep
  <2> QED
    BY <1>1, <1>15, <2>2, <2>3, Steps
<1>16. ASSUME NEW s \in Slots, Mark(s) \/ Destroy(s) \/ Crash(s) PROVE Covered(doc, req, pushed)'
  BY <1>2, <1>16 DEF Mark, Destroy, Crash
<1> QED
  BY <1>4, <1>6, <1>7, <1>8, <1>9, <1>10, <1>12, <1>13, <1>14, <1>15, <1>16 DEF Next, Step

\* The counters, the document and the requests keep their types, whatever overlaps and
\* whatever copy is written back.
THEOREM UnreadTypeCorrect == Spec => []TypeOK
<1>1. Init => TypeOK
  BY TypeInit
<1>2. TypeOK /\ [Next]_vars => TypeOK'
  BY TypeStep
<1> QED
  BY <1>1, <1>2, PTL DEF Spec

\* Lost updates are the only fault of the races: no chat ever shows more unread messages
\* than were pushed to the user.
THEOREM NothingIsInvented == Spec => []NothingInvented
<1>1. Init => IInv
  BY TypeInit, CoverInit DEF IInv
<1>2. IInv /\ [Next]_vars => IInv'
  BY TypeStep, CoverStep DEF IInv
<1>3. IInv => NothingInvented
  <2> SUFFICES ASSUME IInv, NEW c \in Chats PROVE Shown(doc, c) <= pushed[c]
    BY DEF NothingInvented
  <2>1. Below(doc, req, pushed, c) /\ pushed[c] \in Nat
    BY DEF IInv, Covered, TypeOK
  <2> QED
    BY <2>1, ShownIsNat, CountingFinite DEF Below
<1> QED
  BY <1>1, <1>2, <1>3, PTL DEF Spec

------------------------------------------------------------------------------
(* The badge.  Chat by chat, as long as no other request's write has       *)
(* undone its counter: a removal has the chat to itself (Solo), so that    *)
(* whoever counts or reads it is a member and the key that a removal has   *)
(* dropped stays dropped (Fit); the key and the requests that have still to*)
(* count make up what is due (Account); and where nothing is due, the      *)
(* receipt has been moved far enough or is about to be (Receipt).          *)

Removing(s) == req[s].op = "remove"

Solo ==
  \A s, t \in Slots :
    s # t /\ Removing(s) /\ ~At(t, "idle") /\ Chat(s) = Chat(t) => Chat(s) \in blurred

Fit(s) ==
  /\ req[s].pc \in {"dropget", "dropset", "destroy"} => Removing(s)
  /\ req[s].pc \in {"get", "set", "readget", "readset"} => Chat(s) \in member \cup blurred
  /\ At(s, "destroy") /\ Chat(s) \notin blurred => Entries(doc)[Chat(s)] = Missing
  /\ req[s].pc \in {"lookup", "mark"} => req[s].msg <= newest[Chat(s)]

Leaving(c) == \E s \in Slots : At(s, "destroy") /\ Chat(s) = c

Pending(c) == Cardinality(Counting(req, c))

\* The value v of the key of a chat, n requests that have still to count, d messages due.
Balance(v, n, d, read) ==
  \/ v = Missing /\ d = n /\ ~read
  \/ v = NaN /\ d = n + 1 /\ ~read
  \/ v \in Nat /\ (d = v + n \/ (d = v + n + 1 /\ ~read))

Account(c) ==
  c \notin blurred =>
    /\ c \in member /\ ~Leaving(c) => Balance(Entries(doc)[c], Pending(c), due[c], c \in hasRead)
    /\ c \notin member => Entries(doc)[c] = Missing /\ due[c] = 0

Receipt(c) ==
  LeavesReceipts /\ c \in (member \cap hasRead) \ (blurred \cup regressed) /\ due[c] = 0 =>
    \/ lastRead[c] >= latest[c]
    \/ \E s \in Slots : Chat(s) = c /\ (At(s, "find") \/ (At(s, "mark") /\ req[s].msg >= latest[c]))

Order(c) == latest[c] <= newest[c] /\ newest[c] <= sent

Chatwise(c) == Account(c) /\ Receipt(c) /\ Order(c)

BadgeInv ==
  /\ Solo /\ hasRead \subseteq member
  /\ \A s \in Slots : Fit(s)
  /\ \A c \in Chats : Chatwise(c)

------------------------------------------------------------------------------
\* What a step of a request makes of its record, and that it leaves the others alone.
LEMMA Moved ==
  ASSUME TypeOK, NEW s \in Slots
  PROVE  /\ \A q : Becomes(s, q) => req'[s] = q /\ \A t \in Slots \ {s} : req'[t] = req[t]
         /\ Idle.op = "none" /\ Idle.pc = "idle"
         /\ \A pc : LET q == On(req[s], pc) IN
              /\ q.pc = pc /\ q.op = req[s].op /\ q.chat = req[s].chat /\ q.msg = req[s].msg
              /\ q.doc = req[s].doc
         /\ \A pc, d : LET q == Copied(req[s], pc, d) IN
              /\ q.pc = pc /\ q.op = req[s].op /\ q.chat = req[s].chat /\ q.msg = req[s].msg
              /\ q.doc = d
         /\ \A pc, m : LET q == Found(req[s], pc, m) IN
              /\ q.pc = pc /\ q.op = req[s].op /\ q.chat = req[s].chat /\ q.msg = m
<1>1. req \in [Slots -> Requests] /\ req[s] \in Requests  BY DEF TypeOK
<1>2. \A q : Becomes(s, q) => req'[s] = q /\ \A t \in Slots \ {s} : req'[t] = req[t]
  BY <1>1 DEF Becomes
<1>3. Idle.op = "none" /\ Idle.pc = "idle"  BY DEF Idle
<1>4. ASSUME NEW pc
      PROVE  /\ On(req[s], pc).pc = pc /\ On(req[s], pc).op = req[s].op
             /\ On(req[s], pc).chat = req[s].chat /\ On(req[s], pc).msg = req[s].msg
             /\ On(req[s], pc).doc = req[s].doc
  BY <1>1 DEF On, Requests
<1>5. ASSUME NEW pc, NEW d
      PROVE  /\ Copied(req[s], pc, d).pc = pc /\ Copied(req[s], pc, d).op = req[s].op
             /\ Copied(req[s], pc, d).chat = req[s].chat /\ Copied(req[s], pc, d).msg = req[s].msg
             /\ Copied(req[s], pc, d).doc = d
  BY <1>1 DEF Copied, Requests
<1>6. ASSUME NEW pc, NEW m
      PROVE  /\ Found(req[s], pc, m).pc = pc /\ Found(req[s], pc, m).op = req[s].op
             /\ Found(req[s], pc, m).chat = req[s].chat /\ Found(req[s], pc, m).msg = m
  BY <1>1 DEF Found, Requests
<1>7. QED  BY <1>2, <1>3, <1>4, <1>5, <1>6

Ended(s) == req'[s].pc = "idle" /\ req'[s].op = "none"

Going(s, pc) ==
  /\ req'[s].pc = pc /\ req'[s].op = req[s].op /\ req'[s].chat = req[s].chat

Others(s) == \A t \in Slots \ {s} : req'[t] = req[t]

LEMMA Moves ==
  ASSUME TypeOK, NEW s \in Slots
  PROVE  /\ Done(s) => Ended(s) /\ Others(s)
         /\ \A pc : Goto(s, pc) => Going(s, pc) /\ req'[s].msg = req[s].msg /\ Others(s)
         /\ \A from, to : Fetch(s, from, to) => Going(s, to) /\ Others(s)
         /\ Announced(s) => /\ Others(s)
                            /\ Ended(s) \/ (Removing(s) /\ Going(s, "dropget"))
         /\ Create(s) => Going(s, "lookup") /\ req'[s].msg = sent + 1 /\ Others(s)
         /\ Find(s) => /\ Others(s)
                       /\ \/ newest[Chat(s)] = 0 /\ Ended(s)
                          \/ Going(s, "mark") /\ req'[s].msg = newest[Chat(s)]
         /\ DropGet(s) => Others(s) /\ (Ended(s) \/ Going(s, "dropset"))
<1>1. Done(s) => Ended(s) /\ Others(s)
  BY Steps, Moved DEF Ended, Others
<1>2. ASSUME NEW pc, Goto(s, pc) PROVE Going(s, pc) /\ req'[s].msg = req[s].msg /\ Others(s)
  <2>1. Becomes(s, On(req[s], pc))  BY <1>2, Steps
  <2>2. QED  BY <2>1, Moved DEF Going, Others
<1>3. ASSUME NEW from, NEW to, Fetch(s, from, to) PROVE Going(s, to) /\ Others(s)
  <2>1. Becomes(s, Copied(req[s], to, doc))  BY <1>3, Steps
  <2>2. QED  BY <2>1, Moved DEF Going, Others
<1>4. Announced(s) => Others(s) /\ (Ended(s) \/ (Removing(s) /\ Going(s, "dropget")))
  BY <1>1, <1>2 DEF Announced, Removing
<1>5. Create(s) => Going(s, "lookup") /\ req'[s].msg = sent + 1 /\ Others(s)
  <2>1. Create(s) => Becomes(s, Found(req[s], "lookup", sent + 1))  BY Steps
  <2>2. QED  BY <2>1, Moved DEF Going, Others
<1>6. ASSUME Find(s)
      PROVE  /\ Others(s)
             /\ \/ newest[Chat(s)] = 0 /\ Ended(s)
                \/ Going(s, "mark") /\ req'[s].msg = newest[Chat(s)]
  <2>1. CASE newest[Chat(s)] = 0 /\ Done(s)  BY <1>1, <2>1
  <2>2. CASE req' = [req EXCEPT ![s].pc = "mark", ![s].msg = newest[Chat(s)]]
    <3>1. Becomes(s, Found(req[s], "mark", newest[Chat(s)]))
      BY <2>2 DEF Becomes, Found, TypeOK, Requests
    <3>2. QED  BY <3>1, Moved DEF Going, Others
  <2>3. QED  BY <1>6, <2>1, <2>2 DEF Find
<1>7. DropGet(s) => Others(s) /\ (Ended(s) \/ Going(s, "dropset"))
  <2>1. DropGet(s) => Becomes(s, Idle) \/ Becomes(s, Copied(req[s], "dropset", doc))  BY Steps
  <2>2. QED  BY <2>1, Moved DEF Ended, Going, Others
<1>8. QED  BY <1>1, <1>2, <1>3, <1>4, <1>5, <1>6, <1>7

\* Every step of a request moves it on or ends it, and leaves the other requests alone.
LEMMA StepMoves ==
  ASSUME TypeOK, NEW s \in Slots, Step(s) \/ Crash(s)
  PROVE  /\ ~At(s, "idle") /\ Chat(s) \in Chats /\ Others(s)
         /\ Ended(s) \/ \E pc \in Points : Going(s, pc)
<1>1. ~At(s, "idle")
  BY DEF Step, Crash, Create, Lookup, Get, SendSet, ReadGet, ReadSet, Find, Mark, DropGet,
         DropSet, Destroy, Fetch, At
<1>2. Chat(s) \in Chats  BY <1>1 DEF TypeOK
<1>3. CASE Create(s) \/ Find(s) \/ DropGet(s)  BY <1>1, <1>2, <1>3, Moves DEF Points
<1>4. CASE Get(s) \/ ReadGet(s)  BY <1>1, <1>2, <1>4, Moves DEF Get, ReadGet, Points
<1>5. CASE Lookup(s) \/ SendSet(s)  BY <1>1, <1>2, <1>5, Moves DEF Lookup, SendSet, Points
<1>6. CASE ReadSet(s) \/ DropSet(s)  BY <1>1, <1>2, <1>6, Moves DEF ReadSet, DropSet, Points
<1>7. CASE Mark(s) \/ Destroy(s) \/ Crash(s)  BY <1>1, <1>2, <1>7, Moves DEF Mark, Destroy, Crash
<1>8. QED  BY <1>1, <1>2, <1>3, <1>4, <1>5, <1>6, <1>7 DEF Step

\* A removal keeps the chat to itself until it ends.
LEMMA SoloKept ==
  ASSUME Solo, NEW s \in Slots, Others(s), ~At(s, "idle"),
         Ended(s) \/ \E pc \in Points : Going(s, pc),
         \A c \in blurred \ blurred' : \A t \in Slots : Removing(t) => Chat(t) # c
  PROVE  Solo'
<1>1. \A t \in Slots : Removing(t)' => Removing(t) /\ Chat(t)' = Chat(t)
  BY DEF Removing, Chat, Ended, Going, Others
<1>2. \A t \in Slots : ~At(t, "idle")' => ~At(t, "idle") /\ Chat(t)' = Chat(t)
  BY DEF At, Chat, Ended, Going, Others
<1>3. SUFFICES ASSUME NEW t \in Slots, NEW u \in Slots, t # u, Removing(t)',
                      ~At(u, "idle")', Chat(t)' = Chat(u)'
               PROVE  Chat(t)' \in blurred'
  BY DEF Solo
<1>4. Chat(t) \in blurred  BY <1>1, <1>2, <1>3 DEF Solo
<1>5. QED  BY <1>1, <1>3, <1>4

\* Writing a copy back changes the chat of the request and, of the others, those it blurs.
LEMMA WriteElsewhere ==
  ASSUME TypeOK, NEW s \in Slots, NEW n \in Nat \cup {NaN, Missing}, Chat(s) \in Chats,
         NEW c \in Chats \ {Chat(s)}, c \notin Lost(s)
  PROVE  Entries(With(req[s].doc, Chat(s), n))[c] = Entries(doc)[c]
<1>1. req[s].doc \in Docs  BY RequestFields DEF TypeOK
<1>2. Entries(req[s].doc) \in [Chats -> Nat \cup {NaN, Missing}]  BY <1>1 DEF Entries, Docs
<1>3. With(req[s].doc, Chat(s), n) # NoDoc  BY <1>1, WithShown
<1>4. Entries(With(req[s].doc, Chat(s), n))[c] = Entries(req[s].doc)[c]
  BY <1>2, <1>3 DEF Entries, With
<1>5. QED  BY <1>4 DEF Lost

LEMMA WriteHere ==
  ASSUME TypeOK, NEW s \in Slots, NEW n \in Nat \cup {NaN, Missing}, Chat(s) \in Chats
  PROVE  Entries(With(req[s].doc, Chat(s), n))[Chat(s)] = n
<1>1. req[s].doc \in Docs  BY RequestFields DEF TypeOK
<1>2. Entries(req[s].doc) \in [Chats -> Nat \cup {NaN, Missing}]  BY <1>1 DEF Entries, Docs
<1>3. With(req[s].doc, Chat(s), n) # NoDoc  BY <1>1, WithShown
<1>4. QED  BY <1>2, <1>3 DEF Entries, With

\* The three writes, as the value they give the key of the chat.
LEMMA Writes ==
  ASSUME TypeOK, NEW s \in Slots, SendSet(s) \/ ReadSet(s) \/ DropSet(s)
  PROVE  \E n \in Nat \cup {NaN, Missing} :
           /\ doc' = With(req[s].doc, Chat(s), n)
           /\ DropSet(s) => n = Missing
           /\ ReadSet(s) => n = 0
           /\ SendSet(s) => n = IF req[s].doc # NoDoc /\ req[s].doc[Chat(s)] = Missing THEN NaN
                                ELSE Shown(req[s].doc, Chat(s)) + 1
<1>1. Shown(req[s].doc, Chat(s)) + 1 \in Nat  BY ShownIsNat
<1>2. CASE SendSet(s)
  <2>1. ~ReadSet(s) /\ ~DropSet(s)  BY <1>2 DEF SendSet, ReadSet, DropSet, At
  <2>2. QED  BY <1>1, <1>2, <2>1 DEF SendSet, Raised
<1>3. CASE ReadSet(s)
  <2>1. ~SendSet(s) /\ ~DropSet(s)  BY <1>3 DEF SendSet, ReadSet, DropSet, At
  <2>2. QED  BY <1>3, <2>1 DEF ReadSet, Cleared
<1>4. CASE DropSet(s)
  <2>1. ~SendSet(s) /\ ~ReadSet(s)  BY <1>4 DEF SendSet, ReadSet, DropSet, At
  <2>2. QED  BY <1>4, <2>1 DEF DropSet, Dropped
<1>5. QED  BY <1>2, <1>3, <1>4

\* What a step leaves of a chat it is not about.
Untouched(c) ==
  /\ c \notin blurred' => c \notin blurred /\ Entries(doc')[c] = Entries(doc)[c]
  /\ due'[c] = due[c] /\ latest'[c] = latest[c] /\ lastRead'[c] = lastRead[c]
  /\ newest'[c] = newest[c] /\ sent <= sent'
  /\ c \in member' <=> c \in member
  /\ c \in hasRead' <=> c \in hasRead
  /\ c \in regressed' <=> c \in regressed
  /\ \A t \in Slots : Chat(t) = c /\ ~At(t, "idle") => req'[t] = req[t]
  /\ \A t \in Slots : Chat(t)' = c /\ ~At(t, "idle")' => req'[t] = req[t]

LEMMA OtherChats ==
  ASSUME TypeOK, NEW s \in Slots, Step(s) \/ Crash(s), NEW c \in Chats \ {Chat(s)}
  PROVE  Untouched(c)
<1>1. /\ ~At(s, "idle") /\ Chat(s) \in Chats /\ Others(s)
      /\ Ended(s) \/ \E pc \in Points : Going(s, pc)
  BY StepMoves
<1>2. /\ \A t \in Slots : Chat(t) = c /\ ~At(t, "idle") => req'[t] = req[t]
      /\ \A t \in Slots : Chat(t)' = c /\ ~At(t, "idle")' => req'[t] = req[t]
  BY <1>1 DEF Others, Ended, Going, Chat, At
<1>3. sent \in Nat /\ sent <= sent'
  <2>1. sent \in Nat  BY DEF TypeOK
  <2>2. sent' = sent \/ sent' = sent + 1
    BY DEF Step, Crash, Create, Lookup, Get, SendSet, ReadGet, ReadSet, Find, Mark, DropGet,
           DropSet, Destroy, Fetch, data
  <2>3. QED  BY <2>1, <2>2
<1>4. due'[c] = due[c] /\ latest'[c] = latest[c]
  BY <1>1 DEF Step, Crash, Create, Lookup, Get, SendSet, ReadGet, ReadSet, Find, Mark, DropGet,
           DropSet, Destroy, Fetch, data, history, TypeOK
<1>5. newest'[c] = newest[c] /\ lastRead'[c] = lastRead[c]
  BY <1>1 DEF Step, Crash, Create, Lookup, Get, SendSet, ReadGet, ReadSet, Find, Mark, DropGet,
           DropSet, Destroy, Fetch, data, history, TypeOK
<1>6. /\ c \in member' <=> c \in member
      /\ c \in hasRead' <=> c \in hasRead
      /\ c \in regressed' <=> c \in regressed
  BY <1>1 DEF Step, Crash, Create, Lookup, Get, SendSet, ReadGet, ReadSet, Find, Mark, DropGet,
           DropSet, Destroy, Fetch, data, history
<1>7. ASSUME c \notin blurred' PROVE c \notin blurred /\ Entries(doc')[c] = Entries(doc)[c]
  <2>1. CASE SendSet(s) \/ ReadSet(s) \/ DropSet(s)
    <3>1. c \notin blurred /\ c \notin Lost(s)
      BY <1>7, <2>1 DEF SendSet, ReadSet, DropSet
    <3>2. PICK n \in Nat \cup {NaN, Missing} : doc' = With(req[s].doc, Chat(s), n)
      BY <2>1, Writes
    <3>3. QED  BY <1>1, <3>1, <3>2, WriteElsewhere
  <2>2. CASE ~(SendSet(s) \/ ReadSet(s) \/ DropSet(s))
    <3>1. doc' = doc /\ blurred \subseteq blurred'
      BY <2>2 DEF Step, Crash, Create, Lookup, Get, ReadGet, Find, Mark, DropGet, Destroy,
                  Fetch, data, history
    <3>2. QED  BY <1>7, <3>1
  <2>3. QED  BY <2>1, <2>2
<1>8. QED  BY <1>2, <1>3, <1>4, <1>5, <1>6, <1>7 DEF Untouched

LEMMA UntouchedKept ==
  ASSUME TypeOK, TypeOK', NEW c \in Chats, Chatwise(c), Untouched(c)
  PROVE  Chatwise(c)'
<1>1. Counting(req', c) = Counting(req, c)
  BY DEF Untouched, Counting, Chat, At
<1>2. Leaving(c) => Leaving(c)'  BY DEF Untouched, Leaving, Chat, At
<1>3. Account(c)'
  BY <1>1, <1>2 DEF Chatwise, Account, Untouched, Pending
<1>4. Receipt(c)'
  <2> SUFFICES ASSUME LeavesReceipts, due'[c] = 0,
                      c \in (member' \cap hasRead') \ (blurred' \cup regressed')
               PROVE  \/ lastRead'[c] >= latest'[c]
                      \/ \E s \in Slots : /\ Chat(s)' = c
                                          /\ \/ At(s, "find")'
                                             \/ At(s, "mark")' /\ req'[s].msg >= latest'[c]
    BY DEF Receipt
  <2>1. \/ lastRead[c] >= latest[c]
        \/ \E s \in Slots : Chat(s) = c /\ (At(s, "find") \/ (At(s, "mark") /\ req[s].msg >= latest[c]))
    BY DEF Chatwise, Receipt, Untouched
  <2>2. CASE lastRead[c] >= latest[c]  BY <2>2 DEF Untouched
  <2>3. ASSUME NEW s \in Slots, Chat(s) = c,
               At(s, "find") \/ (At(s, "mark") /\ req[s].msg >= latest[c])
        PROVE  /\ Chat(s)' = c
               /\ At(s, "find")' \/ (At(s, "mark")' /\ req'[s].msg >= latest'[c])
    <3>1. req'[s] = req[s]  BY <2>3 DEF Untouched, At
    <3>2. QED  BY <2>3, <3>1 DEF Untouched, At, Chat
  <2>4. QED  BY <2>1, <2>2, <2>3
<1>5. Order(c)'  BY DEF Chatwise, Order, Untouched, TypeOK
<1>6. QED  BY <1>3, <1>4, <1>5 DEF Chatwise

\* A request of a chat that the step is not about stays fit.
LEMMA UntouchedFit ==
  ASSUME TypeOK, NEW t \in Slots, Fit(t), req'[t] = req[t], Untouched(Chat(t))
  PROVE  Fit(t)'
<1>1. Chat(t)' = Chat(t) /\ (Removing(t)' <=> Removing(t))  BY DEF Chat, Removing
<1>2. QED  BY <1>1 DEF Fit, Untouched, At

------------------------------------------------------------------------------
(* The chat of the step.                                                   *)

LEMMA EndedFit == ASSUME NEW s \in Slots, Ended(s) PROVE Fit(s)'
  BY DEF Ended, Fit, At

\* The other requests of the chat stay fit: if the step takes the chat away from them, it
\* is part of a removal, and they have blurred the chat.
LEMMA FitHere ==
  ASSUME Solo, NEW s \in Slots, NEW t \in Slots \ {s}, NEW c \in Chats, c = Chat(s), c = Chat(t),
         Fit(t), ~At(s, "idle"), ~At(t, "idle"), req'[t] = req[t],
         newest[c] \in Nat, newest'[c] \in Nat, newest[c] <= newest'[c], req[t].msg \in Nat,
         c \in blurred /\ c \notin blurred' =>
           c \in member' /\ \A u \in Slots : Removing(u) => Chat(u) # c,
         c \in member => c \in member' \/ Removing(s)
  PROVE  Fit(t)'
<1>1. Chat(t)' = c /\ (Removing(t)' <=> Removing(t))  BY DEF Chat, Removing
<1>2. Removing(s) \/ Removing(t) => c \in blurred  BY DEF Solo
<1>3. req[t].pc \in {"dropget", "dropset", "destroy"} => Removing(t)  BY DEF Fit
<1>4. req[t].pc \in {"get", "set", "readget", "readset"} => c \in member' \cup blurred'
  BY <1>2 DEF Fit
<1>5. At(t, "destroy") => c \in blurred'
  BY <1>2, <1>3 DEF At
<1>6. req[t].pc \in {"lookup", "mark"} => req[t].msg <= newest'[c]
  <2>1. req[t].pc \in {"lookup", "mark"} => req[t].msg <= newest[c]  BY DEF Fit
  <2>2. QED  BY <2>1
<1>7. QED  BY <1>1, <1>3, <1>4, <1>5, <1>6 DEF Fit, At

\* A step that neither counts nor changes anything the user can see.
LEMMA QuietHere ==
  ASSUME TypeOK, TypeOK', NEW s \in Slots, NEW c \in Chats, c = Chat(s), Chatwise(c), Others(s),
         Ended(s) \/ \E pc \in Points : Going(s, pc),
         UNCHANGED <<doc, member, due, hasRead, regressed, lastRead, latest>>,
         blurred \subseteq blurred', newest[c] <= newest'[c], newest'[c] <= sent',
         c \in blurred' \/ (~At(s, "destroy") /\ Counting(req', c) = Counting(req, c)),
         At(s, "find") \/ At(s, "mark") =>
           \/ c \in blurred'
           \/ lastRead[c] >= latest[c]
           \/ Going(s, "mark") /\ req'[s].msg >= latest[c]
  PROVE  Chatwise(c)'
<1>1. Leaving(c) /\ c \notin blurred' => Leaving(c)'
  BY DEF Leaving, Others, At, Chat
<1>2. Account(c)'
  <2> SUFFICES ASSUME c \notin blurred' PROVE Account(c)'
    BY DEF Account
  <2>1. Pending(c)' = Pending(c)  BY DEF Pending
  <2>2. QED  BY <1>1, <2>1 DEF Chatwise, Account
<1>3. Order(c)'
  <2>1. latest[c] \in Nat /\ newest[c] \in Nat /\ newest'[c] \in Nat  BY DEF TypeOK
  <2>2. QED  BY <2>1 DEF Chatwise, Order
<1>4. Receipt(c)'
  <2> SUFFICES ASSUME LeavesReceipts, due[c] = 0,
                      c \in (member \cap hasRead) \ (blurred' \cup regressed)
               PROVE  \/ lastRead[c] >= latest[c]
                      \/ \E t \in Slots : /\ Chat(t)' = c
                                          /\ \/ At(t, "find")'
                                             \/ At(t, "mark")' /\ req'[t].msg >= latest[c]
    BY DEF Receipt
  <2>1. \/ lastRead[c] >= latest[c]
        \/ \E t \in Slots : Chat(t) = c /\ (At(t, "find") \/ (At(t, "mark") /\ req[t].msg >= latest[c]))
    BY DEF Chatwise, Receipt
  <2>2. CASE lastRead[c] >= latest[c]  BY <2>2
  <2>3. CASE ~(lastRead[c] >= latest[c])
    <3>1. PICK t \in Slots :
            Chat(t) = c /\ (At(t, "find") \/ (At(t, "mark") /\ req[t].msg >= latest[c]))
      BY <2>1, <2>3
    <3>2. CASE t = s  BY <2>3, <3>1, <3>2 DEF Going, At, Chat
    <3>3. CASE t # s
      <4>1. req'[t] = req[t]  BY <3>3 DEF Others
      <4>2. QED  BY <3>1, <4>1 DEF At, Chat
    <3>4. QED  BY <3>2, <3>3
  <2>4. QED  BY <2>2, <2>3
<1>5. QED  BY <1>2, <1>3, <1>4 DEF Chatwise

\* Whoever counts in a chat that nothing has blurred has it to itself as far as removals go.
LEMMA NotLeaving ==
  ASSUME BadgeInv, NEW s \in Slots, NEW c \in Chats, c = Chat(s), ~At(s, "idle"),
         ~At(s, "destroy"), c \notin blurred
  PROVE  ~Leaving(c)
<1>1. SUFFICES ASSUME NEW t \in Slots, At(t, "destroy"), Chat(t) = c PROVE FALSE
  BY DEF Leaving
<1>2. t # s /\ Removing(t)  BY <1>1 DEF BadgeInv, Fit, At
<1>3. QED  BY <1>1, <1>2 DEF BadgeInv, Solo

LEMMA SendSetHere ==
  ASSUME TypeOK, TypeOK', BadgeInv, NEW s \in Slots, NEW c \in Chats, c = Chat(s), SendSet(s)
  PROVE  Chatwise(c)' /\ Fit(s)'
<1>1. /\ ~At(s, "idle") /\ ~At(s, "destroy") /\ ~At(s, "find") /\ ~At(s, "mark")
      /\ req[s].pc = "set" /\ blurred' = blurred \cup Lost(s)
      /\ UNCHANGED <<member, lastRead, newest, sent, latest, due, hasRead, regressed>>
  BY DEF SendSet, At, data
<1>2. Others(s) /\ (Ended(s) \/ (Removing(s) /\ Going(s, "dropget")))
  BY Moves DEF SendSet
<1>3. Fit(s)'
  <2>1. CASE Ended(s)  BY <2>1, EndedFit
  <2>2. CASE Removing(s) /\ Going(s, "dropget")
    BY <2>2 DEF Fit, At, Going, Removing
  <2>3. QED  BY <1>2, <2>1, <2>2
<1>4. Chatwise(c)  BY DEF BadgeInv
<1>5. Receipt(c)' /\ Order(c)'
  <2>1. ASSUME NEW t \in Slots, Chat(t) = c, At(t, "find") \/ At(t, "mark")
        PROVE  req'[t] = req[t]
    BY <1>1, <1>2, <2>1 DEF Others
  <2>2. QED  BY <1>1, <1>4, <2>1 DEF Chatwise, Receipt, Order, At, Chat
<1>6. ASSUME c \notin blurred'
      PROVE  c \in member /\ Balance(Entries(doc')[c], Pending(c)', due[c], c \in hasRead)
  <2>1. c \notin blurred /\ Entries(doc)[c] = Entries(req[s].doc)[c]
    BY <1>1, <1>6 DEF Lost
  <2>2. c \in member  BY <1>1, <2>1 DEF BadgeInv, Fit
  <2>3. ~Leaving(c)  BY <1>1, <2>1, NotLeaving
  <2>4. Balance(Entries(doc)[c], Pending(c), due[c], c \in hasRead)
    BY <1>4, <2>1, <2>2, <2>3 DEF Chatwise, Account
  <2>5. Pending(c) \in Nat /\ Pending(c)' = Pending(c) - 1
    <3>1. Counting(req', c) = Counting(req, c) \ {s} /\ s \in Counting(req, c)
      BY <1>1, <1>2 DEF Counting, Others, Ended, Going, Chat
    <3>2. QED  BY <3>1, CountingFinite, FS_RemoveElement DEF Pending
  <2>6. Entries(doc')[c] = IF req[s].doc # NoDoc /\ req[s].doc[c] = Missing THEN NaN
                           ELSE Shown(req[s].doc, c) + 1
    <3>1. PICK n \in Nat \cup {NaN, Missing} :
            /\ doc' = With(req[s].doc, Chat(s), n)
            /\ n = IF req[s].doc # NoDoc /\ req[s].doc[Chat(s)] = Missing THEN NaN
                   ELSE Shown(req[s].doc, Chat(s)) + 1
      BY Writes
    <3>2. QED  BY <3>1, WriteHere
  <2> DEFINE v == Entries(doc)[c]
             p == Pending(c)
  <2>7. due[c] \in Nat  BY DEF TypeOK
  <2>8. Shown(req[s].doc, c) = IF v \in Nat THEN v ELSE 0  BY <2>1 DEF Shown
  <2>9. req[s].doc # NoDoc /\ req[s].doc[c] = Missing => v = Missing
    BY <2>1 DEF Entries
  <2>10. Missing \notin Nat /\ NaN \notin Nat /\ NaN # Missing  BY UnreadAssumption
  <2> HIDE DEF v, p
  <2>11. CASE req[s].doc # NoDoc /\ req[s].doc[c] = Missing
    <3>1. due[c] = p /\ c \notin hasRead  BY <2>4, <2>9, <2>10, <2>11 DEF Balance, v, p
    <3>2. due[c] = (p - 1) + 1  BY <2>7, <3>1
    <3>3. QED  BY <2>2, <2>5, <2>6, <2>11, <3>1, <3>2 DEF Balance, p
  <2>12. CASE ~(req[s].doc # NoDoc /\ req[s].doc[c] = Missing)
    <3>1. Entries(doc')[c] = (IF v \in Nat THEN v ELSE 0) + 1  BY <2>6, <2>8, <2>12
    <3>2. Balance(v, p, due[c], c \in hasRead)  BY <2>4 DEF v, p
    <3>3. Balance((IF v \in Nat THEN v ELSE 0) + 1, p - 1, due[c], c \in hasRead)
      <4>1. p \in Nat  BY <2>5 DEF p
      <4>2. CASE v \notin Nat /\ due[c] = p  BY <2>7, <4>1, <4>2 DEF Balance
      <4>3. CASE v \notin Nat /\ due[c] = p + 1 /\ c \notin hasRead
        BY <2>7, <4>1, <4>3 DEF Balance
      <4>4. CASE v \in Nat /\ due[c] = v + p  BY <2>7, <4>1, <4>4 DEF Balance
      <4>5. CASE v \in Nat /\ due[c] = v + p + 1 /\ c \notin hasRead
        BY <2>7, <4>1, <4>5 DEF Balance
      <4>6. QED  BY <2>10, <3>2, <4>2, <4>3, <4>4, <4>5 DEF Balance
    <3>4. QED  BY <2>2, <2>5, <3>1, <3>3 DEF p
  <2>13. QED  BY <2>11, <2>12
<1>7. Account(c)'  BY <1>1, <1>6 DEF Account
<1>8. QED  BY <1>3, <1>5, <1>7 DEF Chatwise

LEMMA ReadSetHere ==
  ASSUME TypeOK, TypeOK', BadgeInv, NEW s \in Slots, NEW c \in Chats, c = Chat(s), ReadSet(s)
  PROVE  Chatwise(c)' /\ Fit(s)'
<1>1. /\ req[s].pc = "readset" /\ hasRead' = hasRead \cup ({c} \cap member)
      /\ due' = [due EXCEPT ![c] = Pending(c)]
      /\ UNCHANGED <<member, lastRead, newest, sent, latest, regressed>>
  BY DEF ReadSet, At, data, Pending
<1>2. Others(s) /\ Going(s, "find")  BY Moves DEF ReadSet
<1>3. Chat(s)' = c /\ At(s, "find")'  BY <1>2 DEF Going, Chat, At
<1>4. Fit(s)'  BY <1>2 DEF Fit, At, Going
<1>5. Chatwise(c)  BY DEF BadgeInv
<1>6. Receipt(c)'  BY <1>3 DEF Receipt
<1>7. Order(c)'  BY <1>1, <1>5 DEF Chatwise, Order
<1>8. ASSUME c \notin blurred'
      PROVE  c \in member /\ Balance(Entries(doc')[c], Pending(c)', due'[c], c \in hasRead')
  <2>1. c \in member
    <3>1. c \notin member => c \notin blurred  BY <1>8 DEF ReadSet
    <3>2. c \in member \cup blurred  BY <1>1 DEF BadgeInv, Fit
    <3>3. QED  BY <3>1, <3>2
  <2>2. Entries(doc')[c] = 0
    <3>1. doc' = With(req[s].doc, Chat(s), 0)  BY DEF ReadSet, Cleared
    <3>2. QED  BY <3>1, WriteHere
  <2>3. Counting(req', c) = Counting(req, c)
    BY <1>1, <1>2 DEF Counting, Others, Going
  <2>4. Pending(c)' = Pending(c) /\ Pending(c) \in Nat
    BY <2>3, CountingFinite DEF Pending
  <2>5. due'[c] = Pending(c) /\ c \in hasRead'  BY <1>1, <2>1 DEF TypeOK
  <2>6. QED  BY <2>1, <2>2, <2>4, <2>5 DEF Balance
<1>9. Account(c)'  BY <1>1, <1>8 DEF Account
<1>10. QED  BY <1>4, <1>6, <1>7, <1>9 DEF Chatwise

LEMMA DropSetHere ==
  ASSUME TypeOK, TypeOK', BadgeInv, NEW s \in Slots, NEW c \in Chats, c = Chat(s), DropSet(s)
  PROVE  Chatwise(c)' /\ Fit(s)'
<1>1. /\ req[s].pc = "dropset" /\ blurred' = blurred \cup Lost(s)
      /\ UNCHANGED <<member, lastRead, newest, sent, latest, due, hasRead, regressed>>
  BY DEF DropSet, At, data
<1>2. Others(s) /\ Going(s, "destroy")  BY Moves DEF DropSet
<1>3. Chat(s)' = c /\ At(s, "destroy")' /\ Leaving(c)'
  BY <1>2 DEF Going, Chat, At, Leaving
<1>4. Entries(doc')[c] = Missing
  <2>1. doc' = With(req[s].doc, Chat(s), Missing)  BY DEF DropSet, Dropped
  <2>2. QED  BY <2>1, WriteHere
<1>5. Removing(s)  BY <1>1 DEF BadgeInv, Fit
<1>6. Fit(s)'  BY <1>2, <1>3, <1>4, <1>5 DEF Fit, At, Going, Removing
<1>7. Chatwise(c)  BY DEF BadgeInv
<1>8. Account(c)'  BY <1>1, <1>3, <1>4, <1>7 DEF Chatwise, Account
<1>9. Receipt(c)' /\ Order(c)'
  <2>1. ASSUME NEW t \in Slots, Chat(t) = c, At(t, "find") \/ At(t, "mark")
        PROVE  req'[t] = req[t]
    BY <1>1, <1>2, <2>1 DEF Others, At
  <2>2. QED  BY <1>1, <1>7, <2>1 DEF Chatwise, Receipt, Order, At, Chat
<1>10. QED  BY <1>6, <1>8, <1>9 DEF Chatwise

LEMMA CountHere ==
  ASSUME TypeOK, TypeOK', BadgeInv, NEW s \in Slots, NEW c \in Chats, c = Chat(s), Lookup(s),
         Goto(s, "get"), c \in member, due' = [due EXCEPT ![c] = due[c] + 1],
         latest' = [latest EXCEPT ![c] = IF latest[c] < req[s].msg THEN req[s].msg ELSE latest[c]]
  PROVE  Chatwise(c)' /\ Fit(s)'
<1>1. /\ req[s].pc = "lookup" /\ ~At(s, "destroy") /\ ~At(s, "idle")
      /\ UNCHANGED <<doc, member, lastRead, newest, sent, hasRead, blurred, regressed>>
  BY DEF Lookup, At, data
<1>2. Others(s) /\ Going(s, "get")  BY Moves
<1>3. Fit(s)'  BY <1>1, <1>2 DEF Fit, At, Going, Chat
<1>4. /\ due'[c] = due[c] + 1 /\ due[c] \in Nat /\ latest[c] \in Nat
      /\ latest'[c] = (IF latest[c] < req[s].msg THEN req[s].msg ELSE latest[c])
  BY DEF TypeOK
<1>5. Receipt(c)'  BY <1>4 DEF Receipt
<1>6. Chatwise(c)  BY DEF BadgeInv
<1>7. Order(c)'
  <2>1. req[s].msg <= newest[c]  BY <1>1 DEF BadgeInv, Fit
  <2>2. QED  BY <1>1, <1>4, <1>6, <2>1 DEF Chatwise, Order
<1>8. ASSUME c \notin blurred
      PROVE  Balance(Entries(doc)[c], Pending(c)', due[c] + 1, c \in hasRead)
  <2>1. ~Leaving(c)  BY <1>1, <1>8, NotLeaving
  <2>2. Balance(Entries(doc)[c], Pending(c), due[c], c \in hasRead)
    BY <1>6, <1>8, <2>1 DEF Chatwise, Account
  <2>3. Pending(c) \in Nat /\ Pending(c)' = Pending(c) + 1
    <3>1. Counting(req', c) = Counting(req, c) \cup {s} /\ s \notin Counting(req, c)
      BY <1>1, <1>2 DEF Counting, Others, Going, Chat
    <3>2. QED  BY <3>1, CountingFinite, FS_AddElement DEF Pending
  <2> DEFINE v == Entries(doc)[c]
             p == Pending(c)
  <2> HIDE DEF v, p
  <2>4. Balance(v, p, due[c], c \in hasRead) /\ p \in Nat  BY <2>2, <2>3 DEF v, p
  <2>5. Balance(v, p + 1, due[c] + 1, c \in hasRead)
    <3>1. CASE v = Missing /\ due[c] = p /\ c \notin hasRead
      BY <1>4, <2>4, <3>1 DEF Balance
    <3>2. CASE v = NaN /\ due[c] = p + 1 /\ c \notin hasRead
      BY <1>4, <2>4, <3>2 DEF Balance
    <3>3. CASE v \in Nat /\ (due[c] = v + p \/ (due[c] = v + p + 1 /\ c \notin hasRead))
      <4>1. due[c] + 1 = v + (p + 1) \/ (due[c] + 1 = v + (p + 1) + 1 /\ c \notin hasRead)
        BY <1>4, <2>4, <3>3
      <4>2. QED  BY <3>3, <4>1 DEF Balance
    <3>4. QED  BY <2>4, <3>1, <3>2, <3>3 DEF Balance
  <2>6. QED  BY <2>3, <2>5 DEF v, p
<1>9. Account(c)'  BY <1>1, <1>4, <1>8 DEF Account
<1>10. QED  BY <1>3, <1>5, <1>7, <1>9 DEF Chatwise

LEMMA MarkHere ==
  ASSUME TypeOK, TypeOK', BadgeInv, NEW s \in Slots, NEW c \in Chats, c = Chat(s), Mark(s)
  PROVE  Chatwise(c)' /\ Fit(s)'
<1>1. /\ req[s].pc = "mark" /\ ~At(s, "destroy")
      /\ UNCHANGED <<doc, member, newest, sent, latest, due, hasRead, blurred>>
      /\ LeavesReceipts /\ c \in member => lastRead'[c] = req[s].msg
      /\ regressed' = IF req[s].msg = newest[c] THEN regressed \ {c}
                      ELSE IF req[s].msg < lastRead[c] THEN regressed \cup {c} ELSE regressed
  BY DEF Mark, At, TypeOK
<1>2. Others(s) /\ Ended(s)  BY Moves DEF Mark
<1>3. Fit(s)'  BY <1>2, EndedFit
<1>4. Chatwise(c)  BY DEF BadgeInv
<1>5. Order(c)'  BY <1>1, <1>4 DEF Chatwise, Order
<1>6. Account(c)'
  <2>1. Counting(req', c) = Counting(req, c)
    BY <1>1, <1>2 DEF Counting, Others, Ended
  <2>2. Leaving(c) => Leaving(c)'  BY <1>1, <1>2 DEF Leaving, Others, At, Chat
  <2>3. Pending(c)' = Pending(c)  BY <2>1 DEF Pending
  <2>4. QED  BY <1>1, <1>4, <2>2, <2>3 DEF Chatwise, Account
<1>7. Receipt(c)'
  <2> SUFFICES ASSUME LeavesReceipts, due[c] = 0,
                      c \in (member \cap hasRead) \ (blurred \cup regressed')
               PROVE  \/ lastRead'[c] >= latest[c]
                      \/ \E t \in Slots : /\ Chat(t)' = c
                                          /\ \/ At(t, "find")'
                                             \/ At(t, "mark")' /\ req'[t].msg >= latest[c]
    BY <1>1 DEF Receipt
  <2>1. lastRead'[c] = req[s].msg  BY <1>1
  <2>2. /\ req[s].msg \in Nat /\ latest[c] \in Nat /\ newest[c] \in Nat /\ lastRead[c] \in Nat
        /\ latest[c] <= newest[c]
    BY <1>4, RequestFields DEF TypeOK, Chatwise, Order
  <2>3. CASE req[s].msg = newest[c]  BY <2>1, <2>2, <2>3
  <2>4. CASE req[s].msg # newest[c]
    <3>1. c \notin regressed /\ req[s].msg >= lastRead[c]  BY <1>1, <2>2, <2>4
    <3>2. \/ lastRead[c] >= latest[c]
          \/ \E t \in Slots : Chat(t) = c /\ (At(t, "find") \/ (At(t, "mark") /\ req[t].msg >= latest[c]))
      BY <1>4, <3>1 DEF Chatwise, Receipt
    <3>3. CASE lastRead[c] >= latest[c]  BY <2>1, <2>2, <3>1, <3>3
    <3>4. CASE ~(lastRead[c] >= latest[c])
      <4>1. PICK t \in Slots :
              Chat(t) = c /\ (At(t, "find") \/ (At(t, "mark") /\ req[t].msg >= latest[c]))
        BY <3>2, <3>4
      <4>2. CASE t = s  BY <1>1, <2>1, <4>1, <4>2 DEF At
      <4>3. CASE t # s
        <5>1. req'[t] = req[t]  BY <1>2, <4>3 DEF Others
        <5>2. QED  BY <4>1, <5>1 DEF At, Chat
      <4>4. QED  BY <4>2, <4>3
    <3>5. QED  BY <3>3, <3>4
  <2>5. QED  BY <2>3, <2>4
<1>8. QED  BY <1>3, <1>5, <1>6, <1>7 DEF Chatwise

LEMMA DestroyHere ==
  ASSUME TypeOK, TypeOK', BadgeInv, NEW s \in Slots, NEW c \in Chats, c = Chat(s), Destroy(s)
  PROVE  Chatwise(c)' /\ Fit(s)'
<1>1. /\ At(s, "destroy") /\ c \notin member' /\ due'[c] = 0
      /\ UNCHANGED <<doc, newest, sent, latest, blurred>>
  BY DEF Destroy, TypeOK
<1>2. Fit(s)'  BY Moves, EndedFit DEF Destroy
<1>3. c \notin blurred => Entries(doc)[c] = Missing  BY <1>1 DEF BadgeInv, Fit
<1>4. Account(c)'  BY <1>1, <1>3 DEF Account
<1>5. Receipt(c)'  BY <1>1 DEF Receipt
<1>6. Order(c)'  BY <1>1 DEF BadgeInv, Chatwise, Order
<1>7. QED  BY <1>2, <1>4, <1>5, <1>6 DEF Chatwise

LEMMA OtherStepsHere ==
  ASSUME TypeOK, TypeOK', BadgeInv, NEW s \in Slots, NEW c \in Chats, c = Chat(s),
         \/ Create(s) \/ Get(s) \/ ReadGet(s) \/ Find(s) \/ DropGet(s) \/ Crash(s)
         \/ Lookup(s) /\ Announced(s) /\ UNCHANGED <<due, latest>>
  PROVE  Chatwise(c)' /\ Fit(s)'
<1>1. Chatwise(c) /\ Fit(s)  BY DEF BadgeInv
<1>2. Others(s) /\ (Ended(s) \/ \E pc \in Points : Going(s, pc))
  BY StepMoves DEF Step
<1>3. /\ UNCHANGED <<doc, member, due, hasRead, regressed, lastRead, latest>>
      /\ blurred \subseteq blurred'
  BY DEF Create, Get, ReadGet, Fetch, Find, DropGet, Crash, Lookup, data, history
<1>4. newest[c] <= newest'[c] /\ newest'[c] <= sent'
  <2>1. newest[c] \in Nat /\ sent \in Nat /\ newest[c] <= sent
    BY <1>1 DEF TypeOK, Chatwise, Order
  <2>2. CASE Create(s)
    <3>1. newest'[c] = sent + 1 /\ sent' = sent + 1  BY <2>2 DEF Create, TypeOK
    <3>2. QED  BY <2>1, <3>1
  <2>3. CASE ~Create(s)
    <3>1. newest' = newest /\ sent' = sent
      BY <2>3 DEF Get, ReadGet, Fetch, Find, DropGet, Crash, Lookup, data, history
    <3>2. QED  BY <2>1, <3>1
  <2>4. QED  BY <2>2, <2>3
<1>5. CASE Crash(s)
  <2>1. c \in blurred'  BY <1>5 DEF Crash
  <2>2. Fit(s)'  BY <1>5, Moves, EndedFit DEF Crash
  <2>3. QED  BY <1>1, <1>2, <1>3, <1>4, <2>1, <2>2, QuietHere
<1>6. CASE Find(s)
  <2>1. ~At(s, "destroy") /\ At(s, "find")  BY <1>6 DEF Find, At
  <2>2. \/ newest[c] = 0 /\ Ended(s)
        \/ Going(s, "mark") /\ req'[s].msg = newest[c]
    BY <1>6, Moves
  <2>3. Counting(req', c) = Counting(req, c)
    BY <1>2, <2>1, <2>2 DEF Counting, Others, Ended, Going, At
  <2>4. /\ latest[c] \in Nat /\ newest[c] \in Nat /\ lastRead[c] \in Nat /\ latest[c] <= newest[c]
        /\ newest' = newest
    BY <1>1, <1>6 DEF TypeOK, Chatwise, Order, Find, data
  <2>5. lastRead[c] >= latest[c] \/ (Going(s, "mark") /\ req'[s].msg >= latest[c])
    BY <2>2, <2>4
  <2>6. Fit(s)'
    <3>1. CASE Ended(s)  BY <3>1, EndedFit
    <3>2. CASE Going(s, "mark") /\ req'[s].msg = newest[c]
      BY <2>4, <3>2 DEF Going, Fit, At, Chat
    <3>3. QED  BY <2>2, <3>1, <3>2
  <2>7. QED  BY <1>1, <1>2, <1>3, <1>4, <2>1, <2>3, <2>5, <2>6, QuietHere
<1>7. CASE Create(s) \/ Get(s) \/ ReadGet(s) \/ DropGet(s) \/ (Lookup(s) /\ Announced(s))
  <2>1. ~At(s, "destroy") /\ ~At(s, "find") /\ ~At(s, "mark")
    BY <1>7 DEF Create, Get, ReadGet, Fetch, DropGet, Lookup, At
  <2>2. \/ At(s, "create") /\ Going(s, "lookup") /\ req'[s].msg = sent + 1
        \/ At(s, "get") /\ Going(s, "set")
        \/ At(s, "readget") /\ Going(s, "readset")
        \/ At(s, "dropget") /\ Going(s, "dropset")
        \/ At(s, "lookup") /\ Removing(s) /\ Going(s, "dropget")
        \/ (At(s, "dropget") \/ At(s, "lookup")) /\ Ended(s)
    <3>1. CASE Create(s)  BY <3>1, Moves DEF Create
    <3>2. CASE Get(s)  BY <3>2, Moves DEF Get, Fetch
    <3>3. CASE ReadGet(s)  BY <3>3, Moves DEF ReadGet, Fetch
    <3>4. CASE DropGet(s)
      <4>1. At(s, "dropget")  BY <3>4 DEF DropGet
      <4>2. QED  BY <3>4, <4>1, Moves
    <3>5. CASE Lookup(s) /\ Announced(s)
      <4>1. At(s, "lookup")  BY <3>5 DEF Lookup
      <4>2. QED  BY <3>5, <4>1, Moves
    <3>6. QED  BY <1>7, <3>1, <3>2, <3>3, <3>4, <3>5
  <2>3. Counting(req', c) = Counting(req, c)
    BY <1>2, <2>2 DEF Counting, Others, Ended, Going, At
  <2>4. Fit(s)'
    <3>1. CASE Ended(s)  BY <3>1, EndedFit
    <3>2. CASE At(s, "create") /\ Going(s, "lookup") /\ req'[s].msg = sent + 1
      <4>1. newest'[c] = sent + 1 /\ sent \in Nat
        BY <1>7, <3>2 DEF Create, Get, ReadGet, Fetch, DropGet, Lookup, At, TypeOK
      <4>2. QED  BY <3>2, <4>1 DEF Fit, Going, At, Chat
    <3>3. CASE ~Ended(s) /\ ~At(s, "create")
      <4>1. Chat(s)' = c /\ (Removing(s)' <=> Removing(s))
        BY <2>2, <3>3 DEF Going, Chat, Removing
      <4>2. QED  BY <1>1, <1>3, <2>2, <3>3, <4>1 DEF Fit, Going, At
    <3>4. QED  BY <2>2, <3>1, <3>2, <3>3 DEF At
  <2>5. QED  BY <1>1, <1>2, <1>3, <1>4, <2>1, <2>3, <2>4, QuietHere
<1>8. QED  BY <1>5, <1>6, <1>7

------------------------------------------------------------------------------
(* Every step keeps it.                                                    *)

LEMMA StepBadge ==
  ASSUME TypeOK, TypeOK', BadgeInv, NEW s \in Slots, Step(s) \/ Crash(s)
  PROVE  BadgeInv'
<1> DEFINE c == Chat(s)
<1>1. /\ ~At(s, "idle") /\ c \in Chats /\ Others(s)
      /\ Ended(s) \/ \E pc \in Points : Going(s, pc)
  BY StepMoves
<1>2. Solo /\ Chatwise(c) /\ \A t \in Slots : Fit(t)  BY <1>1 DEF BadgeInv
<1>3. Chatwise(Chat(s)) /\ \A x \in Chats : x = c => Chatwise(x)' /\ Fit(s)'
  <2> SUFFICES ASSUME NEW x \in Chats, x = c PROVE Chatwise(x)' /\ Fit(s)'
    BY <1>2
  <2>1. CASE SendSet(s)  BY <2>1, SendSetHere
  <2>2. CASE ReadSet(s)  BY <2>2, ReadSetHere
  <2>3. CASE DropSet(s)  BY <2>3, DropSetHere
  <2>4. CASE Mark(s)  BY <2>4, MarkHere
  <2>5. CASE Destroy(s)  BY <2>5, DestroyHere
  <2>6. CASE Lookup(s)
    <3>1. CASE /\ Goto(s, "get") /\ x \in member /\ due' = [due EXCEPT ![x] = due[x] + 1]
               /\ latest' = [latest EXCEPT ![x] = IF latest[x] < req[s].msg THEN req[s].msg
                                                  ELSE latest[x]]
      BY <2>6, <3>1, CountHere
    <3>2. CASE Announced(s) /\ UNCHANGED <<due, latest>>  BY <2>6, <3>2, OtherStepsHere
    <3>3. QED  BY <2>6, <3>1, <3>2 DEF Lookup
  <2>7. CASE Create(s) \/ Get(s) \/ ReadGet(s) \/ Find(s) \/ DropGet(s) \/ Crash(s)
    BY <2>7, OtherStepsHere
  <2>8. QED  BY <2>1, <2>2, <2>3, <2>4, <2>5, <2>6, <2>7 DEF Step
<1>4. \A x \in Chats \ {c} : Untouched(x)  BY OtherChats
<1>5. \A x \in Chats : Chatwise(x)'
  <2>1. ASSUME NEW x \in Chats \ {c} PROVE Chatwise(x)'
    BY <1>4, UntouchedKept DEF BadgeInv
  <2>2. QED  BY <1>3, <2>1
\* What the step takes away from the chat.
<1>6. /\ c \in blurred /\ c \notin blurred' =>
           c \in member' /\ \A u \in Slots : Removing(u) => Chat(u) # c
      /\ \A x \in blurred \ blurred' : x = c
      /\ c \in member => c \in member' \/ Removing(s)
  <2>1. CASE ReadSet(s)
    <3>1. /\ member' = member
          /\ blurred' = (blurred \cup Lost(s)) \ (IF Overlapped("read", c) = {} THEN {c} \cap member ELSE {})
      BY <2>1 DEF ReadSet, data
    <3>2. Overlapped("read", c) = {} => \A u \in Slots : Removing(u) => Chat(u) # c
      BY DEF Overlapped, Removing
    <3>3. QED  BY <3>1, <3>2
  <2>2. CASE Destroy(s)
    <3>1. blurred' = blurred /\ Removing(s)
      BY <1>2, <2>2 DEF Destroy, Fit, At
    <3>2. QED  BY <3>1
  <2>3. CASE ~ReadSet(s) /\ ~Destroy(s)
    <3>1. blurred \subseteq blurred' /\ member' = member
      BY <2>3 DEF Step, Create, Lookup, Get, SendSet, ReadGet, Fetch, Find, Mark, DropGet, DropSet,
                  Crash, data, history
    <3>2. QED  BY <3>1
  <2>4. QED  BY <2>1, <2>2, <2>3
<1>7. ASSUME NEW t \in Slots PROVE Fit(t)'
  <2>1. CASE t = s  BY <1>1, <1>3, <2>1
  <2>2. CASE t # s /\ At(t, "idle")
    <3>1. req'[t].pc = "idle"  BY <1>1, <2>2 DEF Others, At
    <3>2. QED  BY <3>1 DEF Fit, At
  <2>3. CASE t # s /\ ~At(t, "idle") /\ Chat(t) # c
    <3>1. Chat(t) \in Chats /\ req'[t] = req[t]  BY <1>1, <2>3 DEF TypeOK, Others
    <3>2. QED  BY <1>2, <1>4, <2>3, <3>1, UntouchedFit
  <2>4. CASE t # s /\ ~At(t, "idle") /\ Chat(t) = c
    <3>1. newest[c] \in Nat /\ newest'[c] \in Nat /\ req[t].msg \in Nat
      BY <1>1, RequestFields DEF TypeOK
    <3>2. newest[c] <= newest'[c]
      <4>1. CASE Create(s)
        <5>1. newest'[c] = sent + 1 /\ newest[c] <= sent /\ sent \in Nat
          BY <1>1, <1>2, <4>1 DEF Create, TypeOK, Chatwise, Order
        <5>2. QED  BY <3>1, <5>1
      <4>2. CASE ~Create(s)
        <5>1. newest' = newest
          BY <4>2 DEF Step, Lookup, Get, SendSet, ReadGet, ReadSet, Fetch, Find, Mark, DropGet,
                      DropSet, Destroy, Crash, data
        <5>2. QED  BY <3>1, <5>1
      <4>3. QED  BY <4>1, <4>2
    <3>3. req'[t] = req[t]  BY <1>1, <2>4 DEF Others
    <3> HIDE DEF c
    <3>4. QED  BY <1>1, <1>2, <1>6, <2>4, <3>1, <3>2, <3>3, FitHere DEF c
  <2>5. QED  BY <2>1, <2>2, <2>3, <2>4
<1>8. Solo'
  <2>1. \A x \in blurred \ blurred' : \A t \in Slots : Removing(t) => Chat(t) # x
    BY <1>6
  <2>2. QED  BY <1>1, <1>2, <2>1, SoloKept
<1>9. hasRead' \subseteq member'
  <2>1. hasRead \subseteq member  BY DEF BadgeInv
  <2>2. CASE ReadSet(s)  BY <2>1, <2>2 DEF ReadSet, data
  <2>3. CASE Destroy(s)  BY <2>1, <2>3 DEF Destroy
  <2>4. CASE ~ReadSet(s) /\ ~Destroy(s)
    BY <2>1, <2>4 DEF Step, Create, Lookup, Get, SendSet, ReadGet, Fetch, Find, Mark, DropGet,
                      DropSet, Crash, data, history
  <2>5. QED  BY <2>2, <2>3, <2>4
<1>10. QED  BY <1>5, <1>7, <1>8, <1>9 DEF BadgeInv

\* A request that arrives for chat c, for a reading by a member, or for a message, which
\* the user may have been made a recipient of just now.
LEMMA ArriveBadge ==
  ASSUME TypeOK, TypeOK', BadgeInv, NEW s \in Slots, NEW c \in Chats, NEW op \in Ops,
         NEW pc \in {"create", "readget"}, NEW to \in BOOLEAN,
         At(s, "idle"), Becomes(s, Begun(op, c, pc, to)), pc = "readget" => c \in member,
         blurred' = blurred \cup Overlapped(op, c),
         UNCHANGED <<doc, newest, sent, latest, due, hasRead, regressed>>,
         \/ UNCHANGED <<member, lastRead>>
         \/ c \notin member /\ member' = member \cup {c} /\ lastRead' = [lastRead EXCEPT ![c] = 0]
  PROVE  BadgeInv'
<1> DEFINE q == Begun(op, c, pc, to)
<1>1. q.op = op /\ q.chat = c /\ q.pc = pc  BY DEF Begun, Idle
<1>2. req'[s] = q /\ Others(s)  BY Moved DEF Others
<1> HIDE DEF q
<1>3. \A x : Counting(req', x) = Counting(req, x)
  <2>1. ASSUME NEW x, NEW t \in Slots
        PROVE  req'[t].chat = x /\ req'[t].pc \in {"get", "set"}
                 <=> req[t].chat = x /\ req[t].pc \in {"get", "set"}
    <3>1. CASE t = s  BY <1>1, <1>2, <3>1 DEF At
    <3>2. CASE t # s  BY <1>2, <3>2 DEF Others
    <3>3. QED  BY <3>1, <3>2
  <2>2. QED  BY <2>1 DEF Counting
<1>4. \A x : Leaving(x) => Leaving(x)'
  BY <1>2 DEF Leaving, At, Others, Chat
<1>5. Solo'
  <2> SUFFICES ASSUME NEW t \in Slots, NEW u \in Slots, t # u, Removing(t)', ~At(u, "idle")',
                      Chat(t)' = Chat(u)'
               PROVE  Chat(t)' \in blurred'
    BY DEF Solo
  <2>1. CASE t # s /\ u # s
    <3>1. req'[t] = req[t] /\ req'[u] = req[u]  BY <1>2, <2>1 DEF Others
    <3>2. QED  BY <3>1 DEF BadgeInv, Solo, Removing, At, Chat
  <2>2. CASE t = s
    <3>1. req'[u] = req[u] /\ op = "remove" /\ Chat(t)' = c /\ Chat(u) = c
      BY <1>1, <1>2, <2>2 DEF Others, Removing, Chat
    <3>2. c \in Overlapped(op, c)  BY <3>1 DEF Overlapped
    <3>3. QED  BY <3>1, <3>2
  <2>3. CASE u = s
    <3>1. req'[t] = req[t] /\ req[t].op = "remove" /\ Chat(t)' = c /\ Chat(t) = c
      BY <1>1, <1>2, <2>3 DEF Others, Removing, Chat
    <3>2. c \in Overlapped(op, c)  BY <3>1 DEF Overlapped
    <3>3. QED  BY <3>1, <3>2
  <2>4. QED  BY <2>1, <2>2, <2>3
<1>6. member \subseteq member' /\ blurred \subseteq blurred'  OBVIOUS
<1>7. ASSUME NEW t \in Slots PROVE Fit(t)'
  <2>1. CASE t = s  BY <1>1, <1>2, <1>6, <2>1 DEF Fit, At, Chat
  <2>2. CASE t # s
    <3>1. req'[t] = req[t]  BY <1>2, <2>2 DEF Others
    <3>2. Fit(t)  BY DEF BadgeInv
    <3>3. QED  BY <1>6, <3>1, <3>2 DEF Fit, At, Chat, Removing
  <2>3. QED  BY <2>1, <2>2
<1>8. ASSUME NEW x \in Chats PROVE Chatwise(x)'
  <2>1. Chatwise(x) /\ Pending(x)' = Pending(x)  BY <1>3 DEF BadgeInv, Pending
  <2>2. Order(x)'  BY <2>1 DEF Chatwise, Order
  <2>3. CASE (x \in member' <=> x \in member) /\ lastRead'[x] = lastRead[x]
    <3>1. Account(x)'  BY <1>4, <1>6, <2>1, <2>3 DEF Chatwise, Account
    <3>2. Receipt(x)'
      <4>1. ASSUME NEW t \in Slots, Chat(t) = x, At(t, "find") \/ At(t, "mark")
            PROVE  req'[t] = req[t]
        BY <1>2, <4>1 DEF Others, At
      <4>2. QED  BY <1>6, <2>1, <2>3, <4>1 DEF Chatwise, Receipt, At, Chat
    <3>3. QED  BY <2>2, <3>1, <3>2 DEF Chatwise
  <2>4. CASE x = c /\ c \notin member /\ c \in member'
    <3>1. c \notin hasRead  BY <2>4 DEF BadgeInv
    <3>2. Receipt(x)'  BY <2>4, <3>1 DEF Receipt
    <3>3. ASSUME c \notin blurred' PROVE Balance(Entries(doc)[c], Pending(c), due[c], c \in hasRead)
      <4>1. Entries(doc)[c] = Missing /\ due[c] = 0
        BY <1>6, <2>1, <2>4, <3>3 DEF Chatwise, Account
      <4>2. Counting(req, c) = {}
        <5>1. SUFFICES ASSUME NEW t \in Slots, Chat(t) = c, req[t].pc \in {"get", "set"} PROVE FALSE
          BY DEF Counting, Chat
        <5>2. c \in member \cup blurred  BY <5>1 DEF BadgeInv, Fit
        <5>3. QED  BY <1>6, <2>4, <3>3, <5>2
      <4>3. Pending(c) = 0  BY <4>2, FS_EmptySet DEF Pending
      <4>4. QED  BY <3>1, <4>1, <4>3 DEF Balance
    <3>4. Account(x)'  BY <2>1, <2>4, <3>3 DEF Account
    <3>5. QED  BY <2>2, <3>2, <3>4 DEF Chatwise
  <2>5. QED  BY <2>3, <2>4 DEF TypeOK
<1>9. hasRead' \subseteq member'  BY <1>6 DEF BadgeInv
<1>10. QED  BY <1>5, <1>7, <1>8, <1>9 DEF BadgeInv

LEMMA NextBadge == TypeOK /\ TypeOK' /\ BadgeInv /\ [Next]_vars => BadgeInv'
<1> SUFFICES ASSUME TypeOK, TypeOK', BadgeInv, [Next]_vars PROVE BadgeInv'
  OBVIOUS
<1>1. ASSUME NEW s \in Slots, NEW c \in Chats, NEW op \in Ops, NEW pc \in {"create", "readget"},
             NEW to \in BOOLEAN, Begin(s, op, c, pc, to), pc = "readget" => c \in member
      PROVE  BadgeInv'
  <2>1. Becomes(s, Begun(op, c, pc, to))  BY <1>1, Steps
  <2>2. QED  BY <1>1, <2>1, ArriveBadge DEF Begin, data
<1>2. ASSUME NEW s \in Slots, Arrive(s) PROVE BadgeInv'
  <2>1. ASSUME NEW c \in Chats, NEW to \in BOOLEAN, Send(s, c, to) PROVE BadgeInv'
    <3>1. "send" \in Ops /\ (to /\ c \in member) \in BOOLEAN  BY DEF Ops
    <3>2. Begin(s, "send", c, "create", to /\ c \in member)  BY <2>1 DEF Send
    <3>3. QED  BY <1>1, <3>1, <3>2
  <2>2. ASSUME NEW c \in Chats, NEW to \in BOOLEAN, Remove(s, c, to) PROVE BadgeInv'
    BY <1>1, <2>2 DEF Remove, Ops
  <2>3. ASSUME NEW c \in Chats, Read(s, c) PROVE BadgeInv'
    BY <1>1, <2>3 DEF Read, Ops
  <2>4. ASSUME NEW c \in Chats, Join(s, c) PROVE BadgeInv'
    <3>1. Becomes(s, Begun("send", c, "create", TRUE)) /\ "send" \in Ops
      BY <2>4, Steps DEF Ops
    <3>2. QED  BY <2>4, <3>1, ArriveBadge DEF Join
  <2>5. QED  BY <1>2, <2>1, <2>2, <2>3, <2>4 DEF Arrive
<1>3. CASE UNCHANGED vars
  <2>1. UNCHANGED <<doc, member, lastRead, newest, sent, req, latest, due, hasRead, blurred, regressed>>
    BY <1>3 DEF vars, data, history
  <2>2. \A s \in Slots : Fit(s)'  BY <2>1 DEF BadgeInv, Fit, At, Chat, Removing
  <2>3. \A c \in Chats : Chatwise(c)'
    BY <2>1 DEF BadgeInv, Chatwise, Account, Receipt, Order, Leaving, Pending, Counting, At, Chat
  <2>4. Solo' /\ hasRead' \subseteq member'
    BY <2>1 DEF BadgeInv, Solo, At, Chat, Removing
  <2>5. QED  BY <2>2, <2>3, <2>4 DEF BadgeInv
<1>4. QED  BY <1>2, <1>3, StepBadge DEF Next

LEMMA InitBadge == Init => BadgeInv
<1> SUFFICES ASSUME Init PROVE BadgeInv
  OBVIOUS
<1>1. \A s \in Slots : req[s].pc = "idle" /\ req[s].op = "none"  BY DEF Init, Idle
<1>2. \A c \in Chats : Entries(doc)[c] = Missing
  BY UnreadAssumption DEF Init, Entries, Empty
<1>3. \A c \in Chats : Pending(c) = 0
  <2>1. \A c \in Chats : Counting(req, c) = {}  BY <1>1 DEF Counting
  <2>2. QED  BY <2>1, FS_EmptySet DEF Pending
<1>4. \A c \in Chats : Account(c) /\ Receipt(c) /\ Order(c)
  BY <1>2, <1>3 DEF Init, Account, Balance, Receipt, Order
<1>5. QED  BY <1>1, <1>4 DEF Init, BadgeInv, Solo, Fit, At, Removing, Chatwise

LEMMA AlwaysBadge == Spec => [](TypeOK /\ BadgeInv)
<1>1. Init => TypeOK /\ BadgeInv  BY TypeInit, InitBadge
<1>2. TypeOK /\ BadgeInv /\ [Next]_vars => (TypeOK /\ BadgeInv)'  BY TypeStep, NextBadge
<1>3. QED  BY <1>1, <1>2, PTL DEF Spec

LEMMA RestIsQuiet ==
  ASSUME AtRest, NEW c \in Chats PROVE Pending(c) = 0 /\ ~Leaving(c)
<1>1. Counting(req, c) = {}  BY DEF AtRest, Counting, At
<1>2. QED  BY <1>1, FS_EmptySet DEF AtRest, Leaving, At, Pending

\* When the requests have ended, whatever overlapped, the document has no key of a chat the
\* user has left, unless something of that chat overlapped the removal.
THEOREM KeysAreOfMembers == Spec => []KeysOfMembers
<1>1. TypeOK /\ BadgeInv => KeysOfMembers
  BY DEF BadgeInv, Chatwise, Account, KeysOfMembers, Keys
<1>2. QED  BY <1>1, AlwaysBadge, PTL

\* When the requests have ended, a chat whose counter nothing has undone shows what is due,
\* and where nothing is shown the receipt covers every message that was pushed.
THEOREM BadgeStaysRight == Spec => []BadgeIsRight
<1>1. TypeOK /\ BadgeInv => BadgeIsRight
  <2> SUFFICES ASSUME TypeOK, BadgeInv, AtRest, NEW c \in member \ blurred
               PROVE  /\ Shown(doc, c) \in {due[c], due[c] - 1}
                      /\ c \in hasRead => Shown(doc, c) = due[c]
                      /\ LeavesReceipts /\ c \in hasRead /\ c \notin regressed /\ Shown(doc, c) = 0
                           => lastRead[c] >= latest[c]
    BY DEF BadgeIsRight, CountIsRight, ReceiptCoversBadge
  <2>1. c \in Chats /\ due[c] \in Nat  BY DEF TypeOK
  <2>2. Chatwise(c) /\ Pending(c) = 0 /\ ~Leaving(c)  BY <2>1, RestIsQuiet DEF BadgeInv
  <2> DEFINE v == Entries(doc)[c]
  <2>3. Balance(v, 0, due[c], c \in hasRead)  BY <2>2 DEF Chatwise, Account
  <2>4. Shown(doc, c) = IF v \in Nat THEN v ELSE 0  BY DEF Shown
  <2>5. Missing \notin Nat /\ NaN \notin Nat  BY UnreadAssumption
  <2> HIDE DEF v
  <2>6. /\ Shown(doc, c) \in {due[c], due[c] - 1}
        /\ c \in hasRead => Shown(doc, c) = due[c]
    <3>1. CASE v \notin Nat
      <4>1. Shown(doc, c) = 0 /\ c \notin hasRead /\ (due[c] = 0 \/ due[c] = 0 + 1)
        BY <2>3, <2>4, <3>1 DEF Balance
      <4>2. QED  BY <2>1, <4>1
    <3>2. CASE v \in Nat
      <4>1. Shown(doc, c) = v /\ (due[c] = v + 0 \/ (due[c] = v + 0 + 1 /\ c \notin hasRead))
        BY <2>3, <2>4, <2>5, <3>2 DEF Balance
      <4>2. QED  BY <2>1, <3>2, <4>1
    <3>3. QED  BY <3>1, <3>2
  <2>7. ASSUME LeavesReceipts, c \in hasRead, c \notin regressed, Shown(doc, c) = 0
        PROVE  lastRead[c] >= latest[c]
    <3>1. due[c] = 0  BY <2>6, <2>7
    <3>2. QED  BY <2>2, <2>7, <3>1 DEF Chatwise, Receipt, AtRest, At
  <2>8. QED  BY <2>6, <2>7
<1>2. QED  BY <1>1, AlwaysBadge, PTL

------------------------------------------------------------------------------
(***************************************************************************)
(* The messages of the run: each of its three parts is an instance of      *)
(* Messages, and each of these the same instance with the lemmas about it. *)
(***************************************************************************)

X == INSTANCE MessagesProofs WITH MaxSends <- 1, MaxRows <- 1, MaxDrops <- 0
Y == INSTANCE MessagesProofs WITH MaxSends <- 1, MaxRows <- 2, MaxDrops <- 1, MaxEdits <- 0
Z == INSTANCE MessagesProofs WITH MaxSends <- 2, MaxRows <- 2, MaxDrops <- 0, MaxEdits <- 1,
                                  Clients <- {CHOOSE c \in Clients : TRUE}

\* The first part starts, moves and settles as X does.
LEMMA XAssumes == X!MessagesAssumption
  BY TalkAssumption DEF M!Ids, X!Ids, M!Temps, X!Temps, M!Items, X!Items, M!MessagesAssumption,
     X!MessagesAssumption

LEMMA XStarts == M!Init <=> X!Init
  BY DEF M!Ids, X!Ids, M!Temps, X!Temps, M!Loads, X!Loads, M!Topics, X!Topics, M!None, X!None,
     M!Quill, X!Quill, M!Mute, X!Mute, M!Fresh, X!Fresh, M!Init, X!Init

LEMMA XMoves == M!Next <=> X!Next
  BY Zenon DEF M!Ids, X!Ids, M!Temps, X!Temps, M!Loads, X!Loads, M!Topics, X!Topics, M!server,
     X!server, M!client, X!client, M!history, X!history, M!Shown, X!Shown, M!Waiting, X!Waiting,
     M!Quill, X!Quill, M!Fresh, X!Fresh, M!Here, X!Here, M!Content, X!Content, M!Has, X!Has, M!At,
     X!At, M!Type, X!Type, M!Refuse, X!Refuse, M!Create, X!Create, M!ReadBack, X!ReadBack,
     M!Publish, X!Publish, M!Tell, X!Tell, M!Answer, X!Answer, M!Fail, X!Fail, M!Busy, X!Busy,
     M!Write, X!Write, M!Edit, X!Edit, M!Embed, X!Embed, M!ReadRow, X!ReadRow, M!PublishAll,
     X!PublishAll, M!TellEdit, X!TellEdit, M!Delete, X!Delete, M!TellDelete, X!TellDelete,
     M!Next1, X!Next1, M!Taken, X!Taken, M!Misses, X!Misses, M!Missed, X!Missed, M!Place, X!Place,
     M!With, X!With, M!Added, X!Added, M!Foreign, X!Foreign, M!OnMessage, X!OnMessage, M!Apply,
     X!Apply, M!Postpone, X!Postpone, M!Waits, X!Waits, M!OnEdit, X!OnEdit, M!Again, X!Again,
     M!OnDelete, X!OnDelete, M!Ask, X!Ask, M!Page, X!Page, M!ReadTable, X!ReadTable, M!Assign,
     X!Assign, M!Drop, X!Drop, M!Server, X!Server, M!Deliver, X!Deliver, M!Users, X!Users, M!Next,
     X!Next, M!RemoveAt, X!RemoveAt

LEMMA XSettles == M!Settled <=> X!Settled
  BY Zenon DEF M!Ids, X!Ids, M!Temps, X!Temps, M!Loads, X!Loads, M!Topics, X!Topics, M!Here,
     X!Here, M!Content, X!Content, M!Has, X!Has, M!At, X!At, M!NoTwins, X!NoTwins, M!ServerQuiet,
     X!ServerQuiet, M!ClientQuiet, X!ClientQuiet, M!ShowsTheTable, X!ShowsTheTable, M!PendingEnds,
     X!PendingEnds, M!Settled, X!Settled

LEMMA XTypes == M!TypeOK <=> X!TypeOK
  BY Zenon DEF M!Ids, X!Ids, M!Temps, X!Temps, M!Loads, X!Loads, M!Topics, X!Topics, M!Msgs,
     X!Msgs, M!Events, X!Events, M!Items, X!Items, M!Each, X!Each, M!TypeOK, X!TypeOK

LEMMA XStays == UNCHANGED M!vars => UNCHANGED X!vars
  BY DEF M!server, X!server, M!client, X!client, M!history, X!history, M!vars, X!vars

\* The second starts, moves and settles as Y does.
LEMMA YAssumes == Y!MessagesAssumption
  BY TalkAssumption DEF D!Ids, Y!Ids, D!Temps, Y!Temps, D!Items, Y!Items, D!MessagesAssumption,
     Y!MessagesAssumption

LEMMA YStarts == D!Init <=> Y!Init
  BY DEF D!Ids, Y!Ids, D!Temps, Y!Temps, D!Loads, Y!Loads, D!Topics, Y!Topics, D!None, Y!None,
     D!Quill, Y!Quill, D!Mute, Y!Mute, D!Fresh, Y!Fresh, D!Init, Y!Init

LEMMA YMoves == D!Next <=> Y!Next
  BY Zenon DEF D!Ids, Y!Ids, D!Temps, Y!Temps, D!Loads, Y!Loads, D!Topics, Y!Topics, D!server,
     Y!server, D!client, Y!client, D!history, Y!history, D!Shown, Y!Shown, D!Waiting, Y!Waiting,
     D!Quill, Y!Quill, D!Fresh, Y!Fresh, D!Here, Y!Here, D!Content, Y!Content, D!Has, Y!Has, D!At,
     Y!At, D!Type, Y!Type, D!Refuse, Y!Refuse, D!Create, Y!Create, D!ReadBack, Y!ReadBack,
     D!Publish, Y!Publish, D!Tell, Y!Tell, D!Answer, Y!Answer, D!Fail, Y!Fail, D!Busy, Y!Busy,
     D!Write, Y!Write, D!Edit, Y!Edit, D!Embed, Y!Embed, D!ReadRow, Y!ReadRow, D!PublishAll,
     Y!PublishAll, D!TellEdit, Y!TellEdit, D!Delete, Y!Delete, D!TellDelete, Y!TellDelete,
     D!Next1, Y!Next1, D!Taken, Y!Taken, D!Misses, Y!Misses, D!Missed, Y!Missed, D!Place, Y!Place,
     D!With, Y!With, D!Added, Y!Added, D!Foreign, Y!Foreign, D!OnMessage, Y!OnMessage, D!Apply,
     Y!Apply, D!Postpone, Y!Postpone, D!Waits, Y!Waits, D!OnEdit, Y!OnEdit, D!Again, Y!Again,
     D!OnDelete, Y!OnDelete, D!Ask, Y!Ask, D!Page, Y!Page, D!ReadTable, Y!ReadTable, D!Assign,
     Y!Assign, D!Drop, Y!Drop, D!Server, Y!Server, D!Deliver, Y!Deliver, D!Users, Y!Users, D!Next,
     Y!Next, D!RemoveAt, Y!RemoveAt

LEMMA YSettles == D!Settled <=> Y!Settled
  BY Zenon DEF D!Ids, Y!Ids, D!Temps, Y!Temps, D!Loads, Y!Loads, D!Topics, Y!Topics, D!Here,
     Y!Here, D!Content, Y!Content, D!Has, Y!Has, D!At, Y!At, D!NoTwins, Y!NoTwins, D!ServerQuiet,
     Y!ServerQuiet, D!ClientQuiet, Y!ClientQuiet, D!ShowsTheTable, Y!ShowsTheTable, D!PendingEnds,
     Y!PendingEnds, D!Settled, Y!Settled

LEMMA YTypes == D!TypeOK <=> Y!TypeOK
  BY Zenon DEF D!Ids, Y!Ids, D!Temps, Y!Temps, D!Loads, Y!Loads, D!Topics, Y!Topics, D!Msgs,
     Y!Msgs, D!Events, Y!Events, D!Items, Y!Items, D!Each, Y!Each, D!TypeOK, Y!TypeOK

LEMMA YStays == UNCHANGED D!vars => UNCHANGED Y!vars
  BY DEF D!server, Y!server, D!client, Y!client, D!history, Y!history, D!vars, Y!vars

\* The third starts, moves and settles as Z does.
LEMMA ZAssumes == Z!MessagesAssumption
  BY TalkAssumption DEF T!Ids, Z!Ids, T!Temps, Z!Temps, T!Items, Z!Items, T!MessagesAssumption,
     Z!MessagesAssumption

LEMMA ZStarts == T!Init <=> Z!Init
  BY DEF T!Ids, Z!Ids, T!Temps, Z!Temps, T!Loads, Z!Loads, T!Topics, Z!Topics, T!None, Z!None,
     T!Quill, Z!Quill, T!Mute, Z!Mute, T!Fresh, Z!Fresh, T!Init, Z!Init

LEMMA ZMoves == T!Next <=> Z!Next
  BY Zenon DEF T!Ids, Z!Ids, T!Temps, Z!Temps, T!Loads, Z!Loads, T!Topics, Z!Topics, T!server,
     Z!server, T!client, Z!client, T!history, Z!history, T!Shown, Z!Shown, T!Waiting, Z!Waiting,
     T!Quill, Z!Quill, T!Fresh, Z!Fresh, T!Here, Z!Here, T!Content, Z!Content, T!Has, Z!Has, T!At,
     Z!At, T!Type, Z!Type, T!Refuse, Z!Refuse, T!Create, Z!Create, T!ReadBack, Z!ReadBack,
     T!Publish, Z!Publish, T!Tell, Z!Tell, T!Answer, Z!Answer, T!Fail, Z!Fail, T!Busy, Z!Busy,
     T!Write, Z!Write, T!Edit, Z!Edit, T!Embed, Z!Embed, T!ReadRow, Z!ReadRow, T!PublishAll,
     Z!PublishAll, T!TellEdit, Z!TellEdit, T!Delete, Z!Delete, T!TellDelete, Z!TellDelete,
     T!Next1, Z!Next1, T!Taken, Z!Taken, T!Misses, Z!Misses, T!Missed, Z!Missed, T!Place, Z!Place,
     T!With, Z!With, T!Added, Z!Added, T!Foreign, Z!Foreign, T!OnMessage, Z!OnMessage, T!Apply,
     Z!Apply, T!Postpone, Z!Postpone, T!Waits, Z!Waits, T!OnEdit, Z!OnEdit, T!Again, Z!Again,
     T!OnDelete, Z!OnDelete, T!Ask, Z!Ask, T!Page, Z!Page, T!ReadTable, Z!ReadTable, T!Assign,
     Z!Assign, T!Drop, Z!Drop, T!Server, Z!Server, T!Deliver, Z!Deliver, T!Users, Z!Users, T!Next,
     Z!Next, T!RemoveAt, Z!RemoveAt

LEMMA ZSettles == T!Settled <=> Z!Settled
  BY Zenon DEF T!Ids, Z!Ids, T!Temps, Z!Temps, T!Loads, Z!Loads, T!Topics, Z!Topics, T!Here,
     Z!Here, T!Content, Z!Content, T!Has, Z!Has, T!At, Z!At, T!NoTwins, Z!NoTwins, T!ServerQuiet,
     Z!ServerQuiet, T!ClientQuiet, Z!ClientQuiet, T!ShowsTheTable, Z!ShowsTheTable, T!PendingEnds,
     Z!PendingEnds, T!Settled, Z!Settled

LEMMA ZTypes == T!TypeOK <=> Z!TypeOK
  BY Zenon DEF T!Ids, Z!Ids, T!Temps, Z!Temps, T!Loads, Z!Loads, T!Topics, Z!Topics, T!Msgs,
     Z!Msgs, T!Events, Z!Events, T!Items, Z!Items, T!Each, Z!Each, T!TypeOK, Z!TypeOK

LEMMA ZStays == UNCHANGED T!vars => UNCHANGED Z!vars
  BY DEF T!server, Z!server, T!client, Z!client, T!history, Z!history, T!vars, Z!vars

\* What holds of the part that moves: the unread document has its types in each of them.
TalkInv ==
  /\ TypeOK
  /\ part = "messages" => X!MessageInv /\ X!Tallied
  /\ part = "lost" => Y!MessageInv /\ Y!Tallied
  /\ part = "two" => Z!MessageInv /\ Z!Tallied

\* The steps of the part "messages".
LEMMA XKeeps ==
  ASSUME X!MessageInv, X!Tallied, M!Next \/ UNCHANGED M!vars
  PROVE  (X!MessageInv)' /\ (X!Tallied)'
<1>1. [X!Next]_(X!vars)
  BY XMoves, XStays
<1> QED
  BY <1>1, XAssumes, X!MessagesKeep, X!TalliesKeep

\* The steps of the part "lost".
LEMMA YKeeps ==
  ASSUME Y!MessageInv, Y!Tallied, D!Next \/ UNCHANGED D!vars
  PROVE  (Y!MessageInv)' /\ (Y!Tallied)'
<1>1. [Y!Next]_(Y!vars)
  BY YMoves, YStays
<1> QED
  BY <1>1, YAssumes, Y!MessagesKeep, Y!TalliesKeep

\* The steps of the part "two".
LEMMA ZKeeps ==
  ASSUME Z!MessageInv, Z!Tallied, T!Next \/ UNCHANGED T!vars
  PROVE  (Z!MessageInv)' /\ (Z!Tallied)'
<1>1. [Z!Next]_(Z!vars)
  BY ZMoves, ZStays
<1> QED
  BY <1>1, ZAssumes, Z!MessagesKeep, Z!TalliesKeep

\* It holds at first.
LEMMA TalkBegins == TalkInit => TalkInv
<1> SUFFICES ASSUME TalkInit PROVE TalkInv
  OBVIOUS
<1>1. TypeOK
  BY TypeInit DEF TalkInit
<1>2. CASE part = "messages"
  <2>1. X!Init
    BY <1>2, XStarts DEF TalkInit
  <2>2. X!MessageInv /\ X!Tallied
    BY <2>1, XAssumes, X!MessagesBegin, X!TalliesBegin
  <2> QED
    BY <1>1, <1>2, <2>2 DEF TalkInv
<1>3. CASE part = "lost"
  <2>1. Y!Init
    BY <1>3, YStarts DEF TalkInit
  <2>2. Y!MessageInv /\ Y!Tallied
    BY <2>1, YAssumes, Y!MessagesBegin, Y!TalliesBegin
  <2> QED
    BY <1>1, <1>3, <2>2 DEF TalkInv
<1>4. CASE part = "two"
  <2>1. Z!Init
    BY <1>4, ZStarts DEF TalkInit
  <2>2. Z!MessageInv /\ Z!Tallied
    BY <2>1, ZAssumes, Z!MessagesBegin, Z!TalliesBegin
  <2> QED
    BY <1>1, <1>4, <2>2 DEF TalkInv
<1> QED
  BY <1>1, <1>2, <1>3, <1>4 DEF TalkInv

\* Every step keeps it: one part moves, and part says for ever which.
LEMMA TalkKeeps == TalkInv /\ [TalkNext]_all => TalkInv'
<1> SUFFICES ASSUME TalkInv, [TalkNext]_all PROVE TalkInv'
  OBVIOUS
<1>1. part' = part
  BY DEF TalkNext, all
<1>2. TypeOK'
  <2>1. [Next]_vars
    BY DEF TalkNext, all
  <2> QED
    BY <2>1, TypeStep DEF TalkInv
<1>3. CASE part = "messages"
  <2>1. X!MessageInv /\ X!Tallied
    BY <1>3 DEF TalkInv
  <2>2. M!Next \/ UNCHANGED M!vars
    BY <1>3 DEF TalkNext, all, messages, M!vars, M!server, M!client, M!history
  <2>3. (X!MessageInv)' /\ (X!Tallied)'
    BY <2>1, <2>2, XKeeps
  <2> QED
    BY <1>1, <1>2, <1>3, <2>3 DEF TalkInv
<1>4. CASE part = "lost"
  <2>1. Y!MessageInv /\ Y!Tallied
    BY <1>4 DEF TalkInv
  <2>2. D!Next \/ UNCHANGED D!vars
    BY <1>4 DEF TalkNext, all, messages, D!vars, D!server, D!client, D!history
  <2>3. (Y!MessageInv)' /\ (Y!Tallied)'
    BY <2>1, <2>2, YKeeps
  <2> QED
    BY <1>1, <1>2, <1>4, <2>3 DEF TalkInv
<1>5. CASE part = "two"
  <2>1. Z!MessageInv /\ Z!Tallied
    BY <1>5 DEF TalkInv
  <2>2. T!Next \/ UNCHANGED T!vars
    BY <1>5 DEF TalkNext, all, messages, T!vars, T!server, T!client, T!history
  <2>3. (Z!MessageInv)' /\ (Z!Tallied)'
    BY <2>1, <2>2, ZKeeps
  <2> QED
    BY <1>1, <1>2, <1>5, <2>3 DEF TalkInv
<1> QED
  BY <1>1, <1>2, <1>3, <1>4, <1>5 DEF TalkInv

\* When nothing is on its way, a client that was not cut off shows the messages of the table
\* as they are, but for those that are excepted, no message twice, and none pending for ever:
\* the part of the run that moves settles.
THEOREM TalkSettles == TalkSpec => []Settled
<1>1. TalkInv => Settled
  <2> SUFFICES ASSUME TalkInv PROVE Settled
    OBVIOUS
  <2>1. part = "messages" => M!Settled
    BY XSettles, X!InvSettles DEF TalkInv
  <2>2. part = "lost" => D!Settled
    BY YSettles, Y!InvSettles DEF TalkInv
  <2>3. part = "two" => T!Settled
    BY ZSettles, Z!InvSettles DEF TalkInv
  <2> QED
    BY <2>1, <2>2, <2>3 DEF Settled
<1> QED
  BY <1>1, TalkBegins, TalkKeeps, PTL DEF TalkSpec

\* Every variable of the part of the run that moves keeps its type.
THEOREM TalkTypes == TalkSpec => []TalkTypeOK
<1>1. TalkInv => TalkTypeOK
  <2> SUFFICES ASSUME TalkInv PROVE TalkTypeOK
    OBVIOUS
  <2>1. part = "messages" => M!TypeOK
    BY XTypes, X!InvTypes DEF TalkInv
  <2>2. part = "lost" => D!TypeOK
    BY YTypes, Y!InvTypes DEF TalkInv
  <2>3. part = "two" => T!TypeOK
    BY ZTypes, Z!InvTypes DEF TalkInv
  <2> QED
    BY <2>1, <2>2, <2>3 DEF TalkInv, TalkTypeOK
<1> QED
  BY <1>1, TalkBegins, TalkKeeps, PTL DEF TalkSpec
==============================================================================
