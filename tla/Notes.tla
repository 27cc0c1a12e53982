-------------------------------- MODULE Notes ---------------------------------
(***************************************************************************)
(* One note of a workspace, the editors that have it open                  *)
(* (frontend/src/views/Workspaces/WorkspaceItem.vue) and its versions      *)
(* (note.service: saveNote, restoreVersion).  An editor sends its text     *)
(* with every change, but not twice within half a second; the server reads *)
(* the versions, checks the right to write, keeps a version if the latest  *)
(* is old enough, and overwrites the note.                                 *)
(***************************************************************************)
EXTENDS Integers, FiniteSets, FiniteSetsExt

CONSTANTS
  Editors, Writers,  \* members with the note open, those who may write
  Slots,             \* requests that may be in flight at once
  Auto, Manual,      \* age of a version, in ticks, after which a save keeps another:
                     \* five minutes, and half a minute when the user asked for the save
  MaxTime, MaxChanges, MaxSaves

Never == -1

NotesAssumption ==
  /\ Writers \subseteq Editors /\ Never \notin Editors
  /\ Manual \in Nat /\ Auto \in Nat /\ Manual <= Auto
  /\ {MaxTime, MaxChanges, MaxSaves} \subseteq Nat

Texts == 0 .. MaxChanges   \* what the n-th change made of the note
Times == 0 .. MaxTime

VARIABLES
  now,
  note,     \* Note.data
  kept,     \* the NoteVersion rows
  job,      \* saveNote and restoreVersion in flight
  shown,    \* the text in each editor
  changed,  \* onChange of the editor is due
  warm,     \* it has sent a text less than half a second ago
  changes, saves,
  \* history
  behind,   \* editors that may show something else than the note
  done,     \* when the saves that are over had decided about a version
  twins     \* saves that read the versions while another had still to write one

server == <<note, kept, job>>
editor == <<shown, changed, warm>>
history == <<behind, done, twins>>
vars == <<now, server, editor, changes, saves, history>>

Idle == [pc |-> "idle", by |-> Never, text |-> 0, manual |-> FALSE, last |-> Never, at |-> Never, id |-> 0]
InFlight == {s \in Slots : job[s].pc # "idle"}
Latest == IF kept = {} THEN Never ELSE Max({v.at : v \in kept})

Init ==
  /\ now = 0 /\ note = 0 /\ kept = {} /\ job = [s \in Slots |-> Idle]
  /\ shown = [c \in Editors |-> 0] /\ changed = [c \in Editors |-> FALSE]
  /\ warm = [c \in Editors |-> FALSE] /\ changes = 0 /\ saves = 0
  /\ behind = {} /\ done = {} /\ twins = {}

--------------------------------------------------------------------------------
(* The editors *)

\* The user changes the text.
Change(c) ==
  /\ changes < MaxChanges
  /\ changes' = changes + 1
  /\ shown' = [shown EXCEPT ![c] = changes + 1]
  /\ changed' = [changed EXCEPT ![c] = TRUE]
  /\ UNCHANGED <<now, server, warm, saves, history>>

\* A request arrives.
Arrive(record) ==
  /\ saves < MaxSaves /\ saves' = saves + 1
  /\ \E s \in Slots :
       /\ job[s].pc = "idle"
       /\ job' = [job EXCEPT ![s] = [record EXCEPT !.id = saves + 1]]

Sent(c) == note = shown[c] \/ \E s \in Slots : job[s].by = c /\ job[s].text = shown[c]

\* save, from onChange or from the shortcut: a text that follows another one too soon
\* is not sent at all.
Save(c, asked) ==
  /\ asked \/ changed[c]
  /\ changed' = [changed EXCEPT ![c] = @ /\ asked]
  /\ IF warm[c]
     THEN /\ behind' = IF Sent(c) THEN behind ELSE behind \cup {c}
          /\ UNCHANGED <<job, warm, saves>>
     ELSE /\ Arrive([Idle EXCEPT !.pc = "read", !.by = c, !.text = shown[c], !.manual = asked])
          /\ warm' = [warm EXCEPT ![c] = TRUE]
          /\ behind' = IF InFlight = {} THEN Editors \ {c} ELSE Editors
  /\ UNCHANGED <<now, note, kept, shown, changes, done, twins>>

\* Half a second has passed since the last text was sent.
Cool(c) ==
  /\ warm[c] /\ warm' = [warm EXCEPT ![c] = FALSE]
  /\ UNCHANGED <<now, server, shown, changed, changes, saves, history>>

\* The note is opened again.
Open(c) ==
  /\ ~changed[c] /\ shown' = [shown EXCEPT ![c] = note]
  /\ behind' = IF InFlight = {} THEN behind \ {c} ELSE behind \cup {c}
  /\ UNCHANGED <<now, server, changed, warm, changes, saves, done, twins>>

\* A member has a version put back: restoreVersion has read the note and its versions.
Restore(c, v) ==
  /\ v \in kept
  /\ Arrive([Idle EXCEPT !.pc = "store", !.by = c, !.text = v.text])
  /\ behind' = Editors
  /\ UNCHANGED <<now, note, kept, editor, changes, done, twins>>

--------------------------------------------------------------------------------
(* The server *)

\* Slip: the oldest version is taken for the latest.
ReadOldest(s) ==
  /\ job[s].pc = "read"
  /\ job' = [job EXCEPT ![s].pc = "check",
                        ![s].last = IF kept = {} THEN Never ELSE Min({v.at : v \in kept})]
  /\ twins' = IF \E r \in Slots \ {s} : job[r].pc \in {"check", "keep"}
              THEN twins \cup {job[s].id} ELSE twins
  /\ UNCHANGED <<now, note, kept, editor, changes, saves, behind, done>>

\* The note and its versions are read.
Read(s) ==
  /\ job[s].pc = "read"
  /\ job' = [job EXCEPT ![s].pc = "check", ![s].last = Latest]
  /\ twins' = IF \E r \in Slots \ {s} : job[r].pc \in {"check", "keep"}
              THEN twins \cup {job[s].id} ELSE twins
  /\ UNCHANGED <<now, note, kept, editor, changes, saves, behind, done>>

\* A version is due.
Due(j) ==
  \/ j.last = Never
  \/ now - j.last > Auto
  \/ j.manual /\ now - j.last > Manual

\* getWorkspace: the right to write, and the decision about a version.
Check(s) ==
  /\ job[s].pc = "check"
  /\ IF job[s].by \in Writers
     THEN /\ job' = [job EXCEPT ![s].pc = IF Due(job[s]) THEN "keep" ELSE "store", ![s].at = now]
          /\ UNCHANGED behind
     ELSE job' = [job EXCEPT ![s] = Idle] /\ behind' = behind \cup {job[s].by}
  /\ UNCHANGED <<now, note, kept, editor, changes, saves, done, twins>>

\* NoteVersion.create.
Keep(s) ==
  /\ job[s].pc = "keep"
  /\ kept' = kept \cup {[at |-> job[s].at, text |-> job[s].text, id |-> job[s].id]}
  /\ job' = [job EXCEPT ![s].pc = "store"]
  /\ UNCHANGED <<now, note, editor, changes, saves, history>>

\* Slip: a save that has kept a version is thought to be done.
StoreOrKept(s) ==
  /\ job[s].pc = "store"
  /\ note' = IF \E v \in kept : v.id = job[s].id THEN note ELSE job[s].text
  /\ job' = [job EXCEPT ![s] = Idle]
  /\ done' = IF job[s].at = Never THEN done ELSE done \cup {job[s].at}
  /\ UNCHANGED <<now, kept, editor, changes, saves, behind, twins>>

\* Note.update.
Store(s) ==
  /\ job[s].pc = "store"
  /\ note' = job[s].text
  /\ job' = [job EXCEPT ![s] = Idle]
  /\ done' = IF job[s].at = Never THEN done ELSE done \cup {job[s].at}
  /\ UNCHANGED <<now, kept, editor, changes, saves, behind, twins>>

Tick ==
  /\ now < MaxTime /\ now' = now + 1
  /\ UNCHANGED <<server, editor, changes, saves, history>>

Next ==
  \/ \E c \in Editors :
       \/ Change(c) \/ Cool(c) \/ Open(c)
       \/ \E asked \in BOOLEAN : Save(c, asked)
       \/ \E v \in kept : Restore(c, v)
  \/ \E s \in Slots : Read(s) \/ Check(s) \/ Keep(s) \/ Store(s)
  \/ Tick

Spec == Init /\ [][Next]_vars

--------------------------------------------------------------------------------
(* Properties *)

TypeOK ==
  /\ now \in Times /\ note \in Texts
  /\ kept \subseteq [at : Times, text : Texts, id : 1 .. MaxSaves]
  /\ job \in [Slots -> [pc : {"idle", "read", "check", "keep", "store"}, by : {Never} \cup Editors, text : Texts,
                        manual : BOOLEAN, last : {Never} \cup Times, at : {Never} \cup Times, id : 0 .. MaxSaves]]
  /\ shown \in [Editors -> Texts] /\ changed \in [Editors -> BOOLEAN] /\ warm \in [Editors -> BOOLEAN]
  /\ behind \subseteq Editors /\ done \subseteq Times /\ twins \subseteq 1 .. MaxSaves

\* An automatic save leaves a version that is not older than five minutes, its own or an
\* earlier one, however the saves overlap (note.service 626-641).
VersionsKeepUp == \A t \in done : \E v \in kept : v.at <= t /\ t - v.at <= Auto

\* The versions that a note keeps are more than half a minute apart; only saves that were
\* in flight together make twins (note.service 603-641).
VersionsApart == \A v, w \in kept :
  v # w /\ v.id \notin twins /\ w.id \notin twins => v.at - w.at > Manual \/ w.at - v.at > Manual

\* The versions are dense enough to go back to, and no denser than the pause between them.
VersionsAreSpaced == VersionsKeepUp /\ VersionsApart

\* When nothing is on its way, what an editor shows is what the note holds.  Excepted are
\* an editor whose last change came too soon after a save (it is never sent), or was refused;
\* one whose save was in flight together with another; and one that another member, or a
\* restored version, has overtaken.
StoredIsShown ==
  InFlight = {} => \A c \in Editors \ behind : changed[c] \/ shown[c] = note
==============================================================================
