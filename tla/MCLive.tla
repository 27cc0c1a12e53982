-------------------------------- MODULE MCLive --------------------------------
(* Small instances of the components that promise an end, with the fairness    *)
(* that each of them states (its FairSpec). They share no state: part says     *)
(* which one moves, the others stay where they start, and fairness is asked of *)
(* the one that moves.                                                         *)
EXTENDS Accounts, TLC

CONSTANTS
  NoOne, Gone, NoRow, NoList, NoFile, NoLink,
  coll, coll2, file1, u1, u2, k1, k2, req1, s1, s2, w

VARIABLES
  part,
  owner, member, orphan, list, colReq, made, colCrashes, held, astray,
  files, charge, items, approvals, shown, job, upReq, upMade, upDeaths, raced, upAstray,
  link, keys, linkReq, sweep, linkDeaths, used, untidy

C == INSTANCE Collections WITH
  Users <- {u1, u2}, Collections <- {coll}, Slots <- {s1, s2},
  Grants <- {{"read"}, {"read", "write", "configure"}}, Invited <- TRUE,
  MaxRequests <- 1, MaxCrashes <- 0, row <- member, req <- colReq, crashes <- colCrashes

F == INSTANCE Uploads WITH
  Files <- {file1}, Collections <- {coll}, Rules <- <<[c |-> coll, ask |-> TRUE]>>, Known <- {TRUE},
  Slots <- {s1, s2}, MaxRequests <- 2, MaxDeaths <- 1,
  req <- upReq, made <- upMade, deaths <- upDeaths, astray <- upAstray

L == INSTANCE ShareLinks WITH
  Collections <- {coll, coll2}, Links <- {k1, k2}, Requests <- {req1}, Sweeps <- {w}, MaxDeaths <- 1,
  req <- linkReq, deaths <- linkDeaths

\* The accounts are the instance that is extended: an owner and, as user 2, a bot of his.
OwnersBot == 1 :> {2} @@ 2 :> {}

ASSUME LiveAssumption ==
  C!CollectionsAssumption /\ F!UploadsAssumption /\ L!ShareLinksAssumption /\ AccountsAssumption

collections == <<owner, member, orphan, list, colReq, made, colCrashes, held, astray>>
uploads == <<files, charge, items, approvals, shown, job, upReq, upMade, upDeaths, raced, upAstray>>
links == <<link, keys, linkReq, sweep, linkDeaths, used, untidy>>
all == <<part, collections, uploads, links, vars>>

LiveInit ==
  /\ part \in {"collections", "uploads", "links", "accounts"}
  /\ C!Init /\ F!Init /\ L!Init /\ Init
  /\ part # "collections" => owner = [i \in {coll} |-> NoOne] /\ list = [i \in {u1, u2} |-> NoList]
  /\ part # "uploads" => shown # NoList

LiveNext ==
  \/ part = "collections" /\ C!Next /\ UNCHANGED <<part, uploads, links, vars>>
  \/ part = "uploads" /\ F!Next /\ UNCHANGED <<part, collections, links, vars>>
  \/ part = "links" /\ L!Next /\ UNCHANGED <<part, collections, uploads, vars>>
  \/ part = "accounts" /\ Next /\ UNCHANGED <<part, collections, uploads, links>>

LiveSpec ==
  /\ LiveInit /\ [][LiveNext]_all
  /\ \A s \in {s1, s2} : WF_collections(part = "collections" /\ C!Step(s))
  /\ WF_collections(part = "collections" /\ \E s \in {s1, s2} : C!Generate(s))
  /\ \A s \in {s1, s2} : WF_uploads(part = "uploads" /\ F!Step(s))
  /\ WF_uploads(part = "uploads" /\ F!Work(file1))
  /\ WF_uploads(part = "uploads" /\ \E s \in {s1, s2} : F!RegenGet(s))
  /\ WF_links(part = "links" /\ L!Step(req1))
  /\ WF_links(part = "links" /\ L!Sweep(w))
  /\ WF_vars(part = "accounts" /\ Tick)
  /\ WF_vars(part = "accounts" /\ Finish)
  /\ WF_vars(part = "accounts" /\ \E k \in Checks : Start(k))
  /\ WF_vars(part = "accounts" /\ \E k \in Checks : Midnight(k))
  /\ \A k \in Checks : WF_vars(part = "accounts" /\ Work(k))

\* See the modules for what they say.
StaleAccessEnds == C!StaleAccessEnds
UploadsSettle == F!UploadsSettle
LinksSettle == L!LinksSettle
===============================================================================
