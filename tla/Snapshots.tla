----------------------------- MODULE Snapshots ------------------------------
(***************************************************************************)
(* Saving the server to snapshot.json while it serves requests, and        *)
(* starting again from that file: SessionManager::to_snapshot and          *)
(* restore_from_snapshot (session.rs), the two tasks that save (lib.rs,    *)
(* run_server_inner) and write_atomic_secure (persist.rs).                 *)
(*                                                                         *)
(* A save reads the manager under three locks it takes one after the       *)
(* other, and then replaces the file through a temporary one whose name    *)
(* is the same for every save of a process.  The auto-save is a task of    *)
(* its own and nothing keeps it from overlapping with the save at          *)
(* shutdown.                                                               *)
(*                                                                         *)
(* The process may die between any two steps, and the end of a regular     *)
(* shutdown is no different.  What the sessions contain is left to Restart;*)
(* here all of them come back.                                             *)
(***************************************************************************)
EXTENDS Workspaces

CONSTANT Saver     \* the tasks that save: the auto-save, the save at shutdown

VARIABLES
  saver,   \* where each saving task is, and its locals
  tmp,     \* the temporary file
  disk     \* snapshot.json

saveVars == <<saver, tmp, disk>>
allVars  == <<vars, saveVars>>

\* What a file may hold besides a snapshot.  The program treats a file that
\* is not there and one that does not parse alike, and so does Loaded.
NoFile == [is |-> "missing"]
Empty  == [is |-> "empty"]
Torn   == [is |-> "torn"]

\* A snapshot: the workspace of each session, and the workspace state.
Snapshot(sessions, cur, names) ==
  [is |-> "snapshot", sessions |-> sessions, current |-> cur, known |-> names]

Waiting == [at |-> "wait"]
NoSession == [s \in {} |-> Default]

\* The steps of a save: the sessions still to visit, the workspaces read.
ReadingState(arcs)       == [at |-> "state", arcs |-> arcs]
Reading(todo, snap)      == [at |-> "sessions", todo |-> todo, snap |-> snap]
Opening(snap)            == [at |-> "open", snap |-> snap]
Writing(snap, file)      == [at |-> "write", snap |-> snap, file |-> file]
Publishing(file)         == [at |-> "rename", file |-> file]

SaverAt(t, at) == saver[t].at = at
SetSaver(t, s) == saver' = [saver EXCEPT ![t] = s]

SnapshotsInit ==
  /\ Init
  /\ saver = [t \in Saver |-> Waiting]
  /\ tmp = NoFile
  /\ disk = NoFile

-----------------------------------------------------------------------------
(***************************************************************************)
(* SessionManager::to_snapshot.                                            *)
(***************************************************************************)

\* The sessions are collected under the map lock ...
SaveCollect(t) ==
  /\ SaverAt(t, "wait") /\ ~ MapLocked
  /\ SetSaver(t, ReadingState(live))
  /\ UNCHANGED <<vars, tmp, disk>>

\* ... the names are read under workspace_state ...
SaveState(t) ==
  /\ SaverAt(t, "state")
  /\ SetSaver(t, Reading(saver[t].arcs, Snapshot(NoSession, current, known)))
  /\ UNCHANGED <<vars, tmp, disk>>

\* ... and the sessions are visited one by one, killed ones included.
SaveSession(t, s) ==
  /\ SaverAt(t, "sessions") /\ s \in saver[t].todo
  /\ LET seen == saver[t].snap.sessions
         read == [x \in DOMAIN seen \cup {s} |-> IF x = s THEN workspaceOf[s] ELSE seen[x]]
     IN  SetSaver(t, Reading(saver[t].todo \ {s}, [saver[t].snap EXCEPT !.sessions = read]))
  /\ UNCHANGED <<vars, tmp, disk>>

\* Mutant of SaveRead: a server without sessions is saved as well.
SaveReadAlways(t) ==
  /\ SaverAt(t, "sessions") /\ saver[t].todo = {}
  /\ SetSaver(t, Opening(saver[t].snap))
  /\ UNCHANGED <<vars, tmp, disk>>

\* Mutant of SaveRead: the auto-save ends when there is nothing to save.
SaveReadStops(t) ==
  /\ SaverAt(t, "sessions") /\ saver[t].todo = {}
  /\ SetSaver(t, IF DOMAIN saver[t].snap.sessions = {} THEN [at |-> "stopped"]
                                                      ELSE Opening(saver[t].snap))
  /\ UNCHANGED <<vars, tmp, disk>>

\* A server without sessions is not saved.
SaveRead(t) ==
  /\ SaverAt(t, "sessions") /\ saver[t].todo = {}
  /\ SetSaver(t, IF DOMAIN saver[t].snap.sessions = {} THEN Waiting ELSE Opening(saver[t].snap))
  /\ UNCHANGED <<vars, tmp, disk>>

-----------------------------------------------------------------------------
(***************************************************************************)
(* write_atomic_secure.  `file` is what the task's descriptor refers to: a *)
(* rename by another task turns the temporary file into the snapshot, and  *)
(* a second rename replaces that one.                                      *)
(***************************************************************************)

\* Mutant of SaveOpen: the file is published before it is written.
SaveOpenUnwritten(t) ==
  /\ SaverAt(t, "open")
  /\ tmp' = Empty
  /\ SetSaver(t, Publishing("tmp"))
  /\ UNCHANGED <<vars, disk>>

\* The temporary file is created, or truncated.
SaveOpen(t) ==
  /\ SaverAt(t, "open")
  /\ tmp' = Empty
  /\ SetSaver(t, Writing(saver[t].snap, "tmp"))
  /\ UNCHANGED <<vars, disk>>

\* A file that held nothing holds the snapshot; over what another task wrote
\* a shorter text leaves the end of the longer one in place.
Overwritten(old, snap) == IF old = Empty THEN {snap} ELSE {snap, Torn}

\* write_all and sync_all.
SaveWrite(t) ==
  /\ SaverAt(t, "write")
  /\ CASE saver[t].file = "tmp"  -> tmp' \in Overwritten(tmp, saver[t].snap) /\ UNCHANGED disk
       [] saver[t].file = "disk" -> disk' \in Overwritten(disk, saver[t].snap) /\ UNCHANGED tmp
       [] OTHER                  -> UNCHANGED <<tmp, disk>>
  /\ SetSaver(t, Publishing(saver[t].file))
  /\ UNCHANGED vars

\* What the other tasks' descriptors refer to after a rename.
FileAfterRename(f) == CASE f = "tmp" -> "disk" [] OTHER -> "gone"

\* rename: whatever the temporary file holds becomes the snapshot.  Without
\* one the save has failed.
SaveRename(t) ==
  /\ SaverAt(t, "rename")
  /\ IF tmp = NoFile
     THEN SetSaver(t, Waiting) /\ UNCHANGED <<tmp, disk>>
     ELSE /\ disk' = tmp
          /\ tmp' = NoFile
          /\ saver' = [u \in Saver |->
               IF u = t THEN Waiting
               ELSE IF saver[u].at \in {"write", "rename"}
                    THEN [saver[u] EXCEPT !.file = FileAfterRename(@)]
                    ELSE saver[u]]
  /\ UNCHANGED vars

\* Opening, writing or renaming fails: the guard removes the temporary file.
SaveFails(t) ==
  /\ saver[t].at \in {"open", "write", "rename"}
  /\ tmp' = NoFile
  /\ SetSaver(t, Waiting)
  /\ UNCHANGED <<vars, disk>>

-----------------------------------------------------------------------------
(***************************************************************************)
(* The process ends, by a crash or at the end of a shutdown, and starts    *)
(* again: load_snapshot and SessionManager::restore_from_snapshot.  The    *)
(* new process has another id, so another temporary file.                  *)
(***************************************************************************)

\* load_snapshot: the file, or a server without sessions.
Loaded == IF disk.is = "snapshot" THEN disk ELSE Snapshot(NoSession, Default, {Default})

\* The restored sessions in the order of their numbers.
Renumbered(f) ==
  LET before(s) == Cardinality({x \in DOMAIN f : x < s})
  IN  [i \in 1 .. Cardinality(DOMAIN f) |-> f[CHOOSE s \in DOMAIN f : before(s) = i - 1]]

\* Mutant of RestoredNames: the workspaces of the sessions are not added.
RestoredNamesSaved(snap) == {Default} \cup snap.known

\* The names known after a restore: those saved and those of the sessions.
RestoredNames(snap) ==
  {Default} \cup snap.known \cup {snap.sessions[s] : s \in DOMAIN snap.sessions}

Restart ==
  LET snap == Loaded
  IN  /\ known' = RestoredNames(snap)
      /\ current' = IF snap.current \in known' THEN snap.current ELSE Default
      /\ workspaceOf' = Renumbered(snap.sessions)
      /\ live' = 1 .. Cardinality(DOMAIN snap.sessions)
      /\ op' = [c \in Client |-> Idle]
      /\ saver' = [t \in Saver |-> Waiting]
      /\ tmp' = NoFile
      /\ UNCHANGED disk

-----------------------------------------------------------------------------
SaveStep(t) ==
  \/ SaveCollect(t) \/ SaveState(t) \/ SaveRead(t)
  \/ \E s \in Sessions : SaveSession(t, s)
  \/ SaveOpen(t) \/ SaveWrite(t) \/ SaveRename(t)

SnapshotsNext ==
  \/ Next /\ UNCHANGED saveVars
  \/ \E t \in Saver : SaveStep(t) \/ SaveFails(t)
  \/ Restart

SnapshotsSpec == SnapshotsInit /\ [][SnapshotsNext]_allVars

\* The saving tasks are scheduled, the session mutex serves waiters in the order
\* they came, and a session that is being created is inserted or given up.
Fairness ==
  /\ \A t \in Saver : SF_allVars(SaveStep(t))
  /\ \A c \in Client : WF_allVars((InsertSession(c) \/ CreateFails(c)) /\ UNCHANGED saveVars)

FairSnapshotsSpec == SnapshotsSpec /\ Fairness

-----------------------------------------------------------------------------
(***************************************************************************)
(* Properties.                                                             *)
(***************************************************************************)

IsSnapshot(x) ==
  /\ x.is = "snapshot" /\ DOMAIN x.sessions \subseteq 1 .. MaxSession
  /\ \A s \in DOMAIN x.sessions : x.sessions[s] \in Name
  /\ x.current \in Name /\ x.known \subseteq Name

\* The files hold nothing, parts of snapshots or snapshots; every task that is
\* saving holds a snapshot with a current workspace that it says is known.
SnapshotsTypeOK ==
  /\ tmp \in {NoFile, Empty, Torn} \/ IsSnapshot(tmp)
  /\ disk \in {NoFile, Empty, Torn} \/ (IsSnapshot(disk) /\ DOMAIN disk.sessions # {})
  /\ \A t \in Saver :
       saver[t].at \in {"open", "write"} =>
         IsSnapshot(saver[t].snap) /\ saver[t].snap.current \in saver[t].snap.known

\* Whenever the process dies, the file it leaves is missing or a snapshot that
\* parses: the atomic write "prevents snapshot corruption on crashes"
\* (persist.rs, write_atomic_secure).
FileIsWhole == disk = NoFile \/ IsSnapshot(disk)

\* A session is saved in time: it is in the file at some later moment, unless it
\* is killed first, provided the process stops dying and its saves stop failing.
\* No request, however often repeated, keeps the auto-save from the locks it needs.
OnDisk(s) == disk.is = "snapshot" /\ s \in DOMAIN disk.sessions
RunsWell == <>[][~ Restart /\ \A t \in Saver : ~ SaveFails(t)]_allVars
SessionsGetSaved ==
  RunsWell => \A s \in 1 .. MaxSession : s \in live ~> (s \notin live \/ OnDisk(s))
=============================================================================
