------------------------------- MODULE MCFiles --------------------------------
(* Instances of Collections, Uploads and ShareLinks for TLC: the lists that    *)
(* decide access to collections, the files and their scans, and the links of   *)
(* collections. One run visits each by itself: part says which one moves, and  *)
(* the others stay where they start.                                           *)
EXTENDS Collections, TLC

CONSTANTS
  Files, Targets, Rules, Known, MaxUploads, MaxDeaths, NoFile,
  Links, Sweeps, NoLink,
  d1, d2

VARIABLES
  part,
  files, charge, items, approvals, shown, job, upReq, upMade, upDeaths, raced, upAstray,
  link, keys, linkReq, sweep, linkDeaths, used, untidy

\* Two collections before v5, where a row counts at once, are the instance that is extended;
\* the other is one collection, whose rows have to be accepted, and a worker that dies.
K == INSTANCE Collections WITH Invited <- TRUE, MaxCrashes <- 1
OneCollection ==
  Cardinality({c \in Collections : owner[c] # NoOne \/ \E s \in Slots : req[s].c = c}) <= 1

\* One collection is filled at once, one asks first; the user's list names both.
TwoRules == <<[c |-> d1, ask |-> FALSE], [c |-> d2, ask |-> TRUE]>>
U == INSTANCE Uploads WITH
  Collections <- Targets, MaxRequests <- MaxUploads,
  req <- upReq, made <- upMade, deaths <- upDeaths, astray <- upAstray

L == INSTANCE ShareLinks WITH Requests <- Slots, req <- linkReq, deaths <- linkDeaths

ASSUME FilesAssumption ==
  CollectionsAssumption /\ K!CollectionsAssumption /\ U!UploadsAssumption /\ L!ShareLinksAssumption

uploads == <<files, charge, items, approvals, shown, job, upReq, upMade, upDeaths, raced, upAstray>>
links == <<link, keys, linkReq, sweep, linkDeaths, used, untidy>>
all == <<part, vars, uploads, links>>

FilesInit ==
  /\ U!Init /\ L!Init
  /\ \/ part = "collections" /\ Init
     \/ part = "invited" /\ K!Init /\ OneCollection
     \/ /\ part \in {"uploads", "links"} /\ Init
        /\ owner = [c \in Collections |-> NoOne] /\ list = [u \in Users |-> NoList]
  /\ part # "uploads" => shown = NoList

FilesNext ==
  \/ part = "collections" /\ Next /\ UNCHANGED <<part, uploads, links>>
  \/ part = "invited" /\ K!Next /\ OneCollection' /\ UNCHANGED <<part, uploads, links>>
  \/ part = "uploads" /\ U!Next /\ UNCHANGED <<part, vars, links>>
  \/ part = "links" /\ L!Next /\ UNCHANGED <<part, vars, uploads>>

FilesSpec == FilesInit /\ [][FilesNext]_all

\* Users, collections and requests are alike.
Alike == Permutations(Users) \cup Permutations(Collections) \cup Permutations(Slots)

\* See the modules for what they say.
FilesTypeOK == (IF part = "invited" THEN K!TypeOK ELSE TypeOK) /\ U!TypeOK /\ L!TypeOK
UploadsAreAccounted == U!UploadsAreAccounted
ListTellsTheApprovals == U!ListTellsTheApprovals
KeysTellTheLinks == L!KeysTellTheLinks
===============================================================================
