------------------------------- MODULE Uploads -------------------------------
(***************************************************************************)
(* The files of one user (gallery.service.ts), the scan of each upload     *)
(* that the job queue runs on the main worker (queue.ts, utils.ts) and     *)
(* what the user's rules make of it: items of collections, or approvals    *)
(* that wait for the user (autoCollect.service.ts), which one document in  *)
(* Redis lists (cache.service.ts).                                         *)
(***************************************************************************)
EXTENDS Integers, Sequences, FiniteSets

CONSTANTS
  Files,
  Collections,
  Rules,       \* AutoCollectRule in the order they are applied: [c |->, ask |->]
  Known,       \* whether a collection is found in the user's list of collections
  Slots,       \* requests that can be in flight at once
  MaxRequests, \* bound on the requests
  MaxDeaths,   \* bound on the deaths of workers
  NoFile,
  NoList       \* Redis has no autoCollects of the user

\* An approval is made by one rule in one run of the scan of one file.
Ids == [file : Files, rule : DOMAIN Rules, run : 1..2]
NoId == [file |-> NoFile, rule |-> 0, run |-> 0]
Target(a) == Rules[a.rule].c

\* An entry without approvals is taken out of the document, so it is the same as none.  An
\* entry that has been made from nothing has no id: no collection finds it.
Nameless == "nameless"
Keys == Collections \cup {Nameless}
Nothing == [k \in Keys |-> {}]

UploadsAssumption ==
  /\ IsFiniteSet(Files) /\ NoFile \notin Files
  /\ Rules \in Seq([c : Collections, ask : BOOLEAN])
  /\ NoList \notin [Keys -> SUBSET Ids]
  /\ Known \in {{TRUE}, {TRUE, FALSE}}
  /\ MaxRequests \in Nat /\ MaxDeaths \in Nat

VARIABLES
  files,     \* none, kept (there is a row) or gone
  charge,    \* how often the size of a file is counted in User.quota
  items,     \* CollectionItem: <<file, collection>>
  approvals, \* AutoCollectApproval
  shown,     \* autoCollects:<user>: the approvals of each collection, or without one
  job,       \* the scan of each file
  req,       \* the requests in flight
  made,      \* requests made so far
  deaths,
  \* history
  raced,     \* files deleted while another request worked on them, or before their scan had ended
  astray     \* approvals that the document may tell wrongly

rows == <<files, charge, items, approvals>>
vars == <<rows, shown, job, req, made, deaths, raced, astray>>

Listed(doc) == UNION {doc[k] : k \in Keys}

NoJob == [pc |-> "none", run |-> 0, rule |-> 1, known |-> TRUE, copy |-> NoList]
Idle == [op |-> "none", pc |-> "idle", file |-> NoFile, yes |-> FALSE, todo |-> {},
         at |-> NoId, copy |-> NoList]

At(s, pc) == req[s].pc = pc
Goto(s, pc) == req' = [req EXCEPT ![s].pc = pc]
Done(s) == req' = [req EXCEPT ![s] = Idle]

Begin(s, r) ==
  /\ At(s, "idle") /\ made < MaxRequests
  /\ made' = made + 1
  /\ req' = [req EXCEPT ![s] = r]

Ended(f) == job[f].pc \in {"none", "done", "failed"}

------------------------------------------------------------------------------
(* createUpload: the row, the quota, the job.                              *)

Upload(s, f) ==
  /\ files[f] = "none"
  /\ Begin(s, [Idle EXCEPT !.op = "upload", !.file = f, !.pc = "charge"])
  /\ files' = [files EXCEPT ![f] = "kept"]
  /\ UNCHANGED <<charge, items, approvals, shown, job, deaths, raced, astray>>

Charge(s) ==
  /\ At(s, "charge")
  /\ charge' = [charge EXCEPT ![req[s].file] = @ + 1]
  /\ Goto(s, "enqueue")
  /\ UNCHANGED <<files, items, approvals, shown, job, made, deaths, raced, astray>>

Enqueue(s) ==
  /\ At(s, "enqueue")
  /\ job' = [job EXCEPT ![req[s].file].pc = "waiting"]
  /\ Done(s)
  /\ UNCHANGED <<rows, shown, made, deaths, raced, astray>>

------------------------------------------------------------------------------
(* deleteUpload: found, counted off, then four deletions.                  *)

Busy(f) == \E s \in Slots : req[s].op \in {"upload", "delete", "put", "act"} /\
             (req[s].file = f \/ \E a \in req[s].todo \cup {req[s].at} : a.file = f)
Deleting(f) == \E s \in Slots : req[s].op = "delete" /\ req[s].file = f

Delete(s, f) ==
  /\ files[f] = "kept"
  /\ Begin(s, [Idle EXCEPT !.op = "delete", !.file = f, !.pc = "refund"])
  /\ raced' = IF Busy(f) \/ ~Ended(f) THEN raced \cup {f} ELSE raced
  /\ UNCHANGED <<rows, shown, job, deaths, astray>>

Refund(s) ==
  /\ At(s, "refund")
  /\ charge' = [charge EXCEPT ![req[s].file] = @ - 1]
  /\ Goto(s, "items")
  /\ UNCHANGED <<files, items, approvals, shown, job, made, deaths, raced, astray>>

DeleteItems(s) ==
  /\ At(s, "items")
  /\ items' = items \ ({req[s].file} \X Collections)
  /\ Goto(s, "approvals")
  /\ UNCHANGED <<files, charge, approvals, shown, job, made, deaths, raced, astray>>

\* Slip: the approvals of a deleted file are left to the user.
DeleteNoApprovals(s) ==
  /\ At(s, "approvals")
  /\ Goto(s, "row")
  /\ UNCHANGED <<rows, shown, job, made, deaths, raced, astray>>

\* The document is not told.
DeleteApprovals(s) ==
  /\ At(s, "approvals")
  /\ approvals' = {a \in approvals : a.file # req[s].file}
  /\ astray' = astray \cup {a \in approvals : a.file = req[s].file}
  /\ Goto(s, "row")
  /\ UNCHANGED <<files, charge, items, shown, job, made, deaths, raced>>

DeleteRow(s) ==
  /\ At(s, "row")
  /\ files' = [files EXCEPT ![req[s].file] = "gone"]
  /\ Done(s)
  /\ UNCHANGED <<charge, items, approvals, shown, job, made, deaths, raced, astray>>

------------------------------------------------------------------------------
(* addToCollection and removeFromCollection.                               *)

\* The file is found in the table; its item is created later, whether or not it is there still.
Put(s, f) ==
  /\ files[f] = "kept"
  /\ Begin(s, [Idle EXCEPT !.op = "put", !.file = f, !.pc = "create"])
  /\ raced' = IF Deleting(f) THEN raced \cup {f} ELSE raced
  /\ UNCHANGED <<rows, shown, job, deaths, astray>>

\* The identifier is unique: what the creation of an item that is there throws is swallowed.
Create(s) ==
  /\ At(s, "create")
  /\ \E c \in Collections : items' = items \cup {<<req[s].file, c>>}
  /\ Done(s)
  /\ UNCHANGED <<files, charge, approvals, shown, job, made, deaths, raced, astray>>

Take(s, f, c) ==
  /\ At(s, "idle") /\ made < MaxRequests /\ <<f, c>> \in items
  /\ made' = made + 1
  /\ items' = items \ {<<f, c>>}
  /\ UNCHANGED <<files, charge, approvals, shown, job, req, deaths, raced, astray>>

------------------------------------------------------------------------------
(* postUpload and processFile: one scan, rule after rule.  Whatever throws *)
(* is caught around all of the rules, so it ends the scan.                 *)

Working(f) == job[f].pc \in {"rule", "asked", "write"}
Scan(f, j) == job' = [job EXCEPT ![f] = j]
Next1(f) == [job[f] EXCEPT !.pc = "rule", !.rule = @ + 1, !.copy = NoList]
Current(f) == [file |-> f, rule |-> job[f].rule, run |-> job[f].run]

\* concurrency: 3; no more files are uploaded at once in any instance.
Start(f) ==
  /\ job[f].pc = "waiting"
  /\ Scan(f, [NoJob EXCEPT !.pc = "rule", !.run = job[f].run + 1])
  /\ UNCHANGED <<rows, shown, req, made, deaths, raced, astray>>

\* The rule does not match, is off, or has no collection.
Skip(f) ==
  /\ job[f].pc = "rule" /\ job[f].rule \in DOMAIN Rules
  /\ Scan(f, Next1(f))
  /\ UNCHANGED <<rows, shown, req, made, deaths, raced, astray>>

\* The end of the rules; or the collection is not the user's to write to (getCollection
\* throws), or an operator meets a value that it cannot take.
End(f) ==
  /\ job[f].pc = "rule"
  /\ Scan(f, [job[f] EXCEPT !.pc = "done"])
  /\ UNCHANGED <<rows, shown, req, made, deaths, raced, astray>>

\* An item that is there already throws.
Collect(f) ==
  LET c == Rules[job[f].rule].c IN
  /\ job[f].pc = "rule" /\ job[f].rule \in DOMAIN Rules /\ ~Rules[job[f].rule].ask
  /\ \/ <<f, c>> \in items /\ Scan(f, [job[f] EXCEPT !.pc = "done"]) /\ UNCHANGED items
     \/ <<f, c>> \notin items /\ items' = items \cup {<<f, c>>} /\ Scan(f, Next1(f))
  /\ UNCHANGED <<files, charge, approvals, shown, req, made, deaths, raced, astray>>

\* The collection is looked up in the user's list, and the approval made.
Ask(f) ==
  /\ job[f].pc = "rule" /\ job[f].rule \in DOMAIN Rules /\ Rules[job[f].rule].ask
  /\ \E k \in Known : Scan(f, [job[f] EXCEPT !.pc = "asked", !.known = k])
  /\ approvals' = approvals \cup {Current(f)}
  /\ UNCHANGED <<files, charge, items, shown, req, made, deaths, raced, astray>>

ReadShown(f) ==
  /\ job[f].pc = "asked"
  /\ Scan(f, [job[f] EXCEPT !.pc = "write", !.copy = shown])
  /\ UNCHANGED <<rows, shown, req, made, deaths, raced, astray>>

\* A document that is missing or empty is replaced, by an entry without id if the collection
\* was not found; else the approval goes to its collection's entry, or to a new one.
Pushed(doc, a, known) ==
  LET d == IF doc = NoList THEN Nothing ELSE doc IN
  [d EXCEPT ![IF known \/ Listed(d) # {} THEN Target(a) ELSE Nameless] = @ \cup {a}]

\* What writing the document over one that has changed since it was read loses or revives.
Lost(copy, doc) ==
  LET ids(d) == IF d = NoList THEN {} ELSE Listed(d) IN
  (ids(copy) \ ids(doc)) \cup (ids(doc) \ ids(copy))

WriteShown(f) ==
  LET a == Current(f)
      doc == Pushed(job[f].copy, a, job[f].known)
  IN
  /\ job[f].pc = "write"
  /\ shown' = doc
  /\ astray' = astray \cup Lost(job[f].copy, shown)
                 \cup {b \in {a} : a \notin approvals \/ a \in doc[Nameless]}
  /\ Scan(f, Next1(f))
  /\ UNCHANGED <<rows, req, made, deaths, raced>>

------------------------------------------------------------------------------
(* actOnAutoCollects: the approvals that are found, one after the other.   *)

Act(s, A, yes) ==
  /\ A # {} /\ A \subseteq approvals
  /\ Begin(s, [Idle EXCEPT !.op = "act", !.yes = yes, !.todo = A, !.pc = "act"])
  /\ raced' = raced \cup {f \in {a.file : a \in A} : Deleting(f)}
  /\ UNCHANGED <<rows, shown, job, deaths, astray>>

\* An item that is there already throws, and ends the request.
Approve(s) ==
  /\ At(s, "act")
  /\ \E a \in req[s].todo :
       LET i == <<a.file, Target(a)>> IN
       /\ req[s].yes => i \notin items
       /\ items' = IF req[s].yes THEN items \cup {i} ELSE items
       /\ req' = [req EXCEPT ![s].at = a, ![s].pc = "destroy"]
  /\ UNCHANGED <<files, charge, approvals, shown, job, made, deaths, raced, astray>>

Twice(s) ==
  /\ At(s, "act") /\ req[s].yes
  /\ \E a \in req[s].todo : <<a.file, Target(a)>> \in items
  /\ Done(s)
  /\ UNCHANGED <<rows, shown, job, made, deaths, raced, astray>>

Destroy(s) ==
  /\ At(s, "destroy")
  /\ approvals' = approvals \ {req[s].at}
  /\ Goto(s, "patchget")
  /\ UNCHANGED <<files, charge, items, shown, job, made, deaths, raced, astray>>

After(s) ==
  LET left == req[s].todo \ {req[s].at} IN
  IF left = {} THEN Done(s)
  ELSE req' = [req EXCEPT ![s].todo = left, ![s].at = NoId, ![s].copy = NoList, ![s].pc = "act"]

\* patchAutoCollectCache.  A document that is not there throws; a collection that is not in
\* it is left alone.
PatchGet(s) ==
  LET a == req[s].at IN
  /\ At(s, "patchget")
  /\ \/ shown = NoList /\ Done(s) /\ astray' = astray \cup {a}
     \/ shown # NoList /\ shown[Target(a)] = {} /\ After(s)
          /\ astray' = astray \cup {b \in {a} : a \in Listed(shown)}
     \/ shown # NoList /\ shown[Target(a)] # {}
          /\ req' = [req EXCEPT ![s].copy = shown, ![s].pc = "patchset"]
          /\ UNCHANGED astray
  /\ UNCHANGED <<rows, shown, job, made, deaths, raced>>

\* Slip: the whole entry of the collection goes.
PatchSetAll(s) ==
  LET a == req[s].at
      doc == [req[s].copy EXCEPT ![Target(a)] = {}]
  IN
  /\ At(s, "patchset")
  /\ shown' = doc
  /\ astray' = astray \cup Lost(req[s].copy, shown) \cup {b \in {a} : a \in doc[Nameless]}
  /\ After(s)
  /\ UNCHANGED <<rows, job, made, deaths, raced>>

PatchSet(s) ==
  LET a == req[s].at
      doc == [req[s].copy EXCEPT ![Target(a)] = @ \ {a}]
  IN
  /\ At(s, "patchset")
  /\ shown' = doc
  /\ astray' = astray \cup Lost(req[s].copy, shown) \cup {b \in {a} : a \in doc[Nameless]}
  /\ After(s)
  /\ UNCHANGED <<rows, job, made, deaths, raced>>

------------------------------------------------------------------------------
(* generateAutoCollectCache, every night: the approvals whose file is      *)
(* there, by collection.                                                   *)

Waiting == {a \in approvals : files[a.file] = "kept"}

RegenGet(s) ==
  /\ At(s, "idle")
  /\ \E N \in SUBSET {Target(a) : a \in Waiting} :
       /\ N # {} => FALSE \in Known
       /\ req' = [req EXCEPT ![s] = [Idle EXCEPT !.op = "regen", !.pc = "regenset",
            !.copy = [k \in Keys |->
              {a \in Waiting : k = IF Target(a) \in N THEN Nameless ELSE Target(a)}]]]
  /\ UNCHANGED <<rows, shown, job, made, deaths, raced, astray>>

RegenSet(s) ==
  LET doc == req[s].copy
      wrong == {a \in Ids : a \in doc[Nameless] \/ ~(a \in Waiting <=> a \in Listed(doc))}
  IN
  /\ At(s, "regenset")
  /\ shown' = doc
  /\ astray' = wrong
  /\ Done(s)
  /\ UNCHANGED <<rows, job, made, deaths, raced>>

------------------------------------------------------------------------------
(* A worker dies.  The queue runs the scans of the main worker once more   *)
(* when it finds them stalled, and gives them up the second time.          *)

\* Slip: nobody looks for the scans of a worker that has died.
RequeueNone(j) == [j EXCEPT !.pc = "stalled"]

Requeue(j) == IF j.run < 2 THEN [NoJob EXCEPT !.pc = "waiting", !.run = j.run]
              ELSE [NoJob EXCEPT !.pc = "failed", !.run = j.run]

MainDies ==
  /\ deaths < MaxDeaths /\ \E f \in Files : Working(f)
  /\ deaths' = deaths + 1
  /\ job' = [f \in Files |-> IF Working(f) THEN Requeue(job[f]) ELSE job[f]]
  /\ astray' = astray \cup {Current(f) : f \in {f \in Files : job[f].pc \in {"asked", "write"}}}
  /\ UNCHANGED <<rows, shown, req, made, raced>>

Crash(s) ==
  /\ deaths < MaxDeaths /\ ~At(s, "idle")
  /\ deaths' = deaths + 1
  /\ astray' = astray \cup ({req[s].at} \ {NoId})
  /\ Done(s)
  /\ UNCHANGED <<rows, shown, job, made, raced>>

------------------------------------------------------------------------------
Init ==
  /\ files = [f \in Files |-> "none"]
  /\ charge = [f \in Files |-> 0]
  /\ items = {} /\ approvals = {}
  /\ shown \in {NoList, Nothing}
  /\ job = [f \in Files |-> NoJob]
  /\ req = [s \in Slots |-> Idle]
  /\ made = 0 /\ deaths = 0 /\ raced = {} /\ astray = {}

Arrive(s) ==
  \/ \E f \in Files : Upload(s, f) \/ Delete(s, f) \/ Put(s, f) \/ \E c \in Collections : Take(s, f, c)
  \/ \E A \in SUBSET approvals, yes \in BOOLEAN : Act(s, A, yes)

Step(s) ==
  \/ Charge(s) \/ Enqueue(s)
  \/ Refund(s) \/ DeleteItems(s) \/ DeleteApprovals(s) \/ DeleteRow(s)
  \/ Create(s)
  \/ Approve(s) \/ Twice(s) \/ Destroy(s) \/ PatchGet(s) \/ PatchSet(s)
  \/ RegenSet(s)

Work(f) ==
  \/ Start(f) \/ Skip(f) \/ End(f) \/ Collect(f) \/ Ask(f) \/ ReadShown(f) \/ WriteShown(f)

Next ==
  \/ \E s \in Slots : Arrive(s) \/ Step(s) \/ RegenGet(s) \/ Crash(s)
  \/ \E f \in Files : Work(f)
  \/ MainDies

Spec == Init /\ [][Next]_vars

\* Handlers and scans run on, and the night comes again and again.
FairSpec ==
  /\ Spec
  /\ \A s \in Slots : WF_vars(Step(s))
  /\ \A f \in Files : WF_vars(Work(f))
  /\ WF_vars(\E s \in Slots : RegenGet(s))

------------------------------------------------------------------------------
Docs == {NoList} \cup [Keys -> SUBSET Ids]
Jobs == [pc : {"none", "waiting", "rule", "asked", "write", "done", "failed"}, run : 0..2,
         rule : 1..(Len(Rules) + 1), known : BOOLEAN, copy : Docs]
Requests == [op : {"none", "upload", "delete", "put", "act", "regen"},
             pc : {"idle", "charge", "enqueue", "refund", "items", "approvals", "row", "create", "act",
                   "destroy", "patchget", "patchset", "regenset"},
             file : Files \cup {NoFile}, yes : BOOLEAN, todo : SUBSET Ids, at : Ids \cup {NoId},
             copy : Docs]

TypeOK ==
  /\ files \in [Files -> {"none", "kept", "gone"}]
  /\ charge \in [Files -> Int]
  /\ items \subseteq Files \X Collections /\ approvals \subseteq Ids
  /\ shown \in Docs
  /\ job \in [Files -> Jobs]
  /\ req \in [Slots -> Requests]
  /\ made \in 0..MaxRequests /\ deaths \in 0..MaxDeaths
  /\ raced \subseteq Files /\ astray \subseteq Ids

AtRest == (\A s \in Slots : At(s, "idle")) /\ (\A f \in Files : Ended(f))

\* However the requests about a file overlap or die: its size is in the quota at most once,
\* and not at all once it is gone.
NeverOvercharged == \A f \in Files : charge[f] <= IF files[f] = "kept" THEN 1 ELSE 0

\* At rest, what is kept is counted and what is gone is not, unless two requests deleted the
\* file at once or one died between its writes.
ChargeIsExact ==
  AtRest /\ deaths = 0 =>
    \A f \in Files \ raced : charge[f] = IF files[f] = "kept" THEN 1 ELSE 0

\* A file that was deleted after its scan had ended leaves neither items nor approvals, unless
\* another request had found it and was still at work.  One that was deleted before leaves what
\* its rules then make of it: no key refers to the row.
GoneLeavesNothing ==
  AtRest => \A f \in Files \ raced : files[f] = "gone" =>
    /\ \A c \in Collections : <<f, c>> \notin items
    /\ \A a \in approvals : a.file # f

\* The quota, the items and the approvals follow the rows of the files.
UploadsAreAccounted == NeverOvercharged /\ ChargeIsExact /\ GoneLeavesNothing

\* At rest the document lists the approvals that wait, but for those that an overlapping
\* write, a death, a missing document or an entry without id has put astray.
ListTellsTheApprovals ==
  AtRest => \A a \in Ids \ astray : files[a.file] = "kept" =>
    (a \in approvals <=> shown # NoList /\ a \in Listed(shown))

\* A scan that is queued comes to an end, also when the worker dies under it.
ScansEnd == \A f \in Files : job[f].pc = "waiting" ~> Ended(f)

\* Once the requests are over, the nights bring the document in line with the table: what is
\* listed waits for the user and what waits is listed.
ListSettles == <>[](shown # NoList /\ Listed(shown) = Waiting)

\* What a scan and its approvals come to.
UploadsSettle == ScansEnd /\ ListSettles
==============================================================================
