----------------------------- MODULE ShareLinks ------------------------------
(***************************************************************************)
(* The share link of a collection.  The table says which link a collection *)
(* has; what a visitor is shown is decided from one key per link in Redis, *)
(* which the requests that change the link delete and write one by one     *)
(* and which a timer deletes and writes all together.                      *)
(***************************************************************************)
EXTENDS FiniteSets, Naturals

CONSTANTS
  Collections,
  Links,       \* the links that cryptoRandomString may give, each once
  Requests,    \* slots for requests that change a link, each on a worker
  Sweeps,      \* slots for generateShareLinkCache: the timer, an administrator
  MaxDeaths,   \* bound on the workers that die
  NoLink, Gone

ShareLinksAssumption ==
  NoLink \notin Links /\ Gone \notin Links /\ NoLink # Gone /\ MaxDeaths \in Nat

VARIABLES
  link,   \* Collection.shareLink; Gone when the row is
  keys,   \* the links that Redis has a key of
  req, sweep,
  deaths,
  \* history
  used,   \* the links given so far
  untidy  \* keys and table were changed in a way that only a sweep puts right

vars == <<link, keys, req, sweep, deaths, used, untidy>>

Live == {link[c] : c \in Collections} \cap Links

Idle == [pc |-> "idle"]
Resting == [pc |-> "resting"]
Reqs == {Idle}
  \cup [pc : {"delete"}, c : Collections, on : BOOLEAN, old : Links \cup {NoLink}]
  \cup [pc : {"write"}, c : Collections, on : BOOLEAN]
  \cup [pc : {"patch", "put"}, c : Collections, new : Links]
SweepStates == {Resting} \cup [pc : {"listed", "deleted", "read"}, keys : SUBSET Links, rows : SUBSET Links]

Busy == {r \in Requests : req[r] # Idle}
Sweeping == {s \in Sweeps : sweep[s] # Resting}

\* What begins while something else is under way leaves order to a later sweep.
Begins == untidy' = (untidy \/ Busy # {} \/ Sweeping # {})

------------------------------------------------------------------------------
\* Slip: the link that the row has is not loaded.
LoadNothing(r, c, on) ==
  /\ req[r] = Idle /\ link[c] # Gone
  /\ req' = [req EXCEPT ![r] = [pc |-> "delete", c |-> c, on |-> on, old |-> NoLink]]
  /\ Begins
  /\ UNCHANGED <<link, keys, sweep, deaths, used>>

\* updateCollection of the GraphQL interface loads the row to know the link it has.
Load(r, c, on) ==
  /\ req[r] = Idle /\ link[c] # Gone
  /\ req' = [req EXCEPT ![r] = [pc |-> "delete", c |-> c, on |-> on, old |-> link[c]]]
  /\ Begins
  /\ UNCHANGED <<link, keys, sweep, deaths, used>>

DeleteKey(r) ==
  /\ req[r].pc = "delete"
  /\ keys' = keys \ {req[r].old}
  /\ req' = [req EXCEPT ![r] = [pc |-> "write", c |-> req[r].c, on |-> req[r].on]]
  /\ UNCHANGED <<link, sweep, deaths, used, untidy>>

\* PATCH /share takes the answer of the permission check, which is a boolean, for the
\* collection: it has no shareLink, and no key is deleted.
LoadV3(r, c, on) ==
  /\ req[r] = Idle /\ link[c] # Gone
  /\ req' = [req EXCEPT ![r] = [pc |-> "write", c |-> c, on |-> on]]
  /\ untidy' = (untidy \/ Busy # {} \/ Sweeping # {} \/ link[c] # NoLink)
  /\ UNCHANGED <<link, keys, sweep, deaths, used>>

\* The update of a row that is gone changes nothing.
Write(r) ==
  LET c == req[r].c IN
  /\ req[r].pc = "write"
  /\ IF req[r].on
     THEN \E new \in Links \ used :
            /\ used' = used \cup {new}
            /\ link' = IF link[c] = Gone THEN link ELSE [link EXCEPT ![c] = new]
            /\ req' = [req EXCEPT ![r] = [pc |-> "patch", c |-> c, new |-> new]]
     ELSE /\ link' = IF link[c] = Gone THEN link ELSE [link EXCEPT ![c] = NoLink]
          /\ req' = [req EXCEPT ![r] = Idle]
          /\ UNCHANGED used
  /\ UNCHANGED <<keys, sweep, deaths, untidy>>

\* patchShareLinkCache reads the collection and writes it under the link it was given.
PatchRead(r) ==
  /\ req[r].pc = "patch"
  /\ req' = [req EXCEPT ![r] = IF link[@.c] = Gone THEN Idle ELSE [@ EXCEPT !.pc = "put"]]
  /\ UNCHANGED <<link, keys, sweep, deaths, used, untidy>>

PatchSet(r) ==
  /\ req[r].pc = "put"
  /\ keys' = keys \cup {req[r].new}
  /\ req' = [req EXCEPT ![r] = Idle]
  /\ UNCHANGED <<link, sweep, deaths, used, untidy>>

\* DELETE of a collection leaves the key of its link.
Delete(c) ==
  /\ link[c] # Gone
  /\ link' = [link EXCEPT ![c] = Gone]
  /\ untidy' = (untidy \/ Busy # {} \/ Sweeping # {} \/ link[c] # NoLink)
  /\ UNCHANGED <<keys, req, sweep, deaths, used>>

\* The deletion of an account removes its collections in one statement.  It asks for the links
\* of rows that it loaded without them, so it deletes no key either.
Erase(owned) ==
  /\ owned # {} /\ \A c \in owned : link[c] # Gone
  /\ link' = [c \in Collections |-> IF c \in owned THEN Gone ELSE link[c]]
  /\ untidy' = (untidy \/ Busy # {} \/ Sweeping # {} \/ \E c \in owned : link[c] # NoLink)
  /\ UNCHANGED <<keys, req, sweep, deaths, used>>

------------------------------------------------------------------------------
\* The keys are listed.  A sweep that nothing overlaps puts everything right.
SweepStart(s) ==
  /\ sweep[s] = Resting
  /\ sweep' = [sweep EXCEPT ![s] = [pc |-> "listed", keys |-> keys, rows |-> {}]]
  /\ untidy' = (Busy # {} \/ Sweeping # {})
  /\ UNCHANGED <<link, keys, req, deaths, used>>

\* The deletions are sent, nobody waits for them, before the links are read.
SweepDelete(s) ==
  /\ sweep[s].pc = "listed"
  /\ keys' = keys \ sweep[s].keys
  /\ sweep' = [sweep EXCEPT ![s].pc = "deleted", ![s].keys = {}]
  /\ UNCHANGED <<link, req, deaths, used, untidy>>

\* Slip: one collection with a link is read, not all of them.
SweepReadOne(s) ==
  /\ sweep[s].pc = "deleted"
  /\ \E some \in SUBSET Live :
       /\ Cardinality(some) <= 1 /\ (some = {} => Live = {})
       /\ sweep' = [sweep EXCEPT ![s].pc = "read", ![s].rows = some]
  /\ UNCHANGED <<link, keys, req, deaths, used, untidy>>

SweepRead(s) ==
  /\ sweep[s].pc = "deleted"
  /\ sweep' = [sweep EXCEPT ![s].pc = "read", ![s].rows = Live]
  /\ UNCHANGED <<link, keys, req, deaths, used, untidy>>

\* The keys are written one by one, but the writes are sent together.
SweepWrite(s) ==
  /\ sweep[s].pc = "read"
  /\ keys' = keys \cup sweep[s].rows
  /\ sweep' = [sweep EXCEPT ![s] = Resting]
  /\ UNCHANGED <<link, req, deaths, used, untidy>>

\* A worker dies, with the request or the sweep it is busy with.
Die(r) ==
  /\ req[r] # Idle /\ deaths < MaxDeaths
  /\ req' = [req EXCEPT ![r] = Idle]
  /\ deaths' = deaths + 1 /\ untidy' = TRUE
  /\ UNCHANGED <<link, keys, sweep, used>>

SweepDies(s) ==
  /\ sweep[s] # Resting /\ deaths < MaxDeaths
  /\ sweep' = [sweep EXCEPT ![s] = Resting]
  /\ deaths' = deaths + 1 /\ untidy' = TRUE
  /\ UNCHANGED <<link, keys, req, used>>

Init ==
  /\ link = [c \in Collections |-> NoLink] /\ keys = {}
  /\ req = [r \in Requests |-> Idle] /\ sweep = [s \in Sweeps |-> Resting]
  /\ deaths = 0 /\ used = {} /\ untidy = FALSE

Step(r) == DeleteKey(r) \/ Write(r) \/ PatchRead(r) \/ PatchSet(r)
Sweep(s) == SweepStart(s) \/ SweepDelete(s) \/ SweepRead(s) \/ SweepWrite(s)

Next ==
  \/ \E r \in Requests :
       \/ \E c \in Collections, on \in BOOLEAN : Load(r, c, on) \/ LoadV3(r, c, on)
       \/ Step(r) \/ Die(r)
  \/ \E c \in Collections : Delete(c)
  \/ \E owned \in SUBSET Collections : Erase(owned)
  \/ \E s \in Sweeps : Sweep(s) \/ SweepDies(s)

Spec == Init /\ [][Next]_vars

\* Requests that have begun come to their end, and the timer comes again every hour.
FairSpec == Spec /\ (\A r \in Requests : WF_vars(Step(r))) /\ (\A s \in Sweeps : WF_vars(Sweep(s)))

------------------------------------------------------------------------------
TypeOK ==
  /\ link \in [Collections -> Links \cup {NoLink, Gone}]
  /\ keys \subseteq used /\ used \subseteq Links
  /\ req \in [Requests -> Reqs] /\ sweep \in [Sweeps -> SweepStates]
  /\ deaths \in 0..MaxDeaths /\ untidy \in BOOLEAN

AtRest == Busy = {} /\ Sweeping = {}

\* Changes of links that come one after the other leave exactly the keys of the links that
\* collections have, and so does, whatever came before it, a sweep that nothing overlaps.
KeysTellTheLinks == AtRest /\ ~untidy => keys = Live

\* A link that was removed or replaced, in whatever way, ends up opening nothing ...
DeadLinksDie == <>[](keys \subseteq Live)

\* ... and one that a collection has is found again and again, although each sweep takes it
\* away for a moment.
LiveLinksReturn == []<>(Live \subseteq keys)

\* The keys follow the links.
LinksSettle == DeadLinksDie /\ LiveLinksReturn
==============================================================================
