----------------------------- MODULE Workspaces -----------------------------
(***************************************************************************)
(* The workspaces of the SessionManager (nexterm-server/src/session.rs):   *)
(* the names it knows, the current one, and the workspace each session     *)
(* says it belongs to.                                                     *)
(*                                                                         *)
(* Three locks protect them and no operation holds all three: the map of   *)
(* sessions, workspace_state, and one lock per session.  Renaming and      *)
(* deleting a workspace release one before they take the next, and visit   *)
(* the sessions they collected one by one; each connection runs its        *)
(* requests in a task of its own, so these steps interleave.               *)
(***************************************************************************)
EXTENDS Integers, FiniteSets, Sequences

CONSTANTS
  Client,            \* the connections
  Name,              \* the workspace names requests use
  Default,           \* DEFAULT_WORKSPACE
  MaxSession,        \* bound on the sessions ever created
  ConcurrentAdmin,   \* may two renames or deletions overlap?
  CreateWhileDelete  \* may a session be created while a workspace is deleted?

ASSUME WorkspacesAssumption ==
  /\ Default \in Name
  /\ MaxSession \in Nat
  /\ ConcurrentAdmin \in BOOLEAN
  /\ CreateWhileDelete \in BOOLEAN

VARIABLES
  known,        \* WorkspaceState::known, as a set: no operation adds a name twice
  current,      \* WorkspaceState::current
  workspaceOf,  \* workspace_name of every session ever created
  live,         \* the sessions in the manager's map
  op            \* the operation each connection is in the middle of

state == <<known, current>>
vars  == <<state, workspaceOf, live, op>>

Sessions == 1 .. Len(workspaceOf)

Idle == [at |-> "idle"]

\* The operations that release a lock between two steps, and what their
\* locals hold there: the sessions still to visit and, for a deletion, the
\* sessions collected and the number that was counted.
Creating(w)            == [at |-> "create", ws |-> w]
Collecting(from, to)   == [at |-> "rename collect", from |-> from, to |-> to]
Renaming(from, to, todo) ==
  [at |-> "rename sessions", from |-> from, to |-> to, todo |-> todo]
Counting(name, force, arcs, todo, count) ==
  [at |-> "delete count", name |-> name, force |-> force, arcs |-> arcs, todo |-> todo,
   count |-> count]
Migrating(name, todo)  == [at |-> "delete migrate", name |-> name, todo |-> todo]

AtStep(c, at) == op[c].at = at
SetOp(c, o)   == op' = [op EXCEPT ![c] = o]

\* The map of sessions is locked while a session is being created.
MapLocked == \E c \in Client : AtStep(c, "create")

IsRenaming(c) == op[c].at \in {"rename collect", "rename sessions"}
IsDeleting(c) == op[c].at \in {"delete count", "delete migrate"}

\* What the two constants allow: with both TRUE, anything the code does.
MayAdminister == ConcurrentAdmin \/ \A c \in Client : ~ IsRenaming(c) /\ ~ IsDeleting(c)
MayCreate     == CreateWhileDelete \/ \A c \in Client : ~ IsDeleting(c)
MayDelete     == CreateWhileDelete \/ ~ MapLocked

Init ==
  /\ known = {Default}
  /\ current = Default
  /\ workspaceOf = <<>>
  /\ live = {}
  /\ op = [c \in Client |-> Idle]

-----------------------------------------------------------------------------
(***************************************************************************)
(* Sessions come and go.                                                   *)
(***************************************************************************)

\* Mutant of CreateSession: the map is not locked.
CreateSessionUnlocked(c) ==
  /\ op[c] = Idle /\ MayCreate
  /\ Len(workspaceOf) < MaxSession
  /\ SetOp(c, Creating(current))
  /\ UNCHANGED <<state, workspaceOf, live>>

\* get_or_create_and_attach, create_session: lock the map, read `current` ...
CreateSession(c) ==
  /\ op[c] = Idle /\ ~ MapLocked /\ MayCreate
  /\ Len(workspaceOf) < MaxSession
  /\ SetOp(c, Creating(current))
  /\ UNCHANGED <<state, workspaceOf, live>>

\* ... start the shell, insert the session and release the map.
InsertSession(c) ==
  /\ AtStep(c, "create")
  /\ workspaceOf' = Append(workspaceOf, op[c].ws)
  /\ live' = live \cup {Len(workspaceOf) + 1}
  /\ SetOp(c, Idle)
  /\ UNCHANGED state

\* The shell cannot be started: nothing is inserted.
CreateFails(c) ==
  /\ AtStep(c, "create")
  /\ SetOp(c, Idle)
  /\ UNCHANGED <<state, workspaceOf, live>>

\* kill_session.  A task that already holds the session's Arc keeps using it.
KillSession(c, s) ==
  /\ op[c] = Idle /\ ~ MapLocked
  /\ s \in live
  /\ live' = live \ {s}
  /\ UNCHANGED <<state, workspaceOf, op>>

-----------------------------------------------------------------------------
(***************************************************************************)
(* Workspaces.                                                             *)
(***************************************************************************)

CreateWorkspace(c, name) ==
  /\ op[c] = Idle
  /\ name \notin known
  /\ known' = known \cup {name}
  /\ UNCHANGED <<current, workspaceOf, live, op>>

SwitchWorkspace(c, name) ==
  /\ op[c] = Idle
  /\ name \in known
  /\ current' = name
  /\ UNCHANGED <<known, workspaceOf, live, op>>

\* rename_workspace: under workspace_state, the name changes in `known` and
\* `current` ...
RenameWorkspace(c, from, to) ==
  /\ op[c] = Idle /\ MayAdminister
  /\ from # to /\ from # Default
  /\ from \in known /\ to \notin known
  /\ known' = (known \ {from}) \cup {to}
  /\ current' = IF current = from THEN to ELSE current
  /\ SetOp(c, Collecting(from, to))
  /\ UNCHANGED <<workspaceOf, live>>

\* ... then, under the map lock, the sessions are collected ...
RenameCollect(c) ==
  /\ AtStep(c, "rename collect") /\ ~ MapLocked
  /\ SetOp(c, Renaming(op[c].from, op[c].to, live))
  /\ UNCHANGED <<state, workspaceOf, live>>

\* ... and visited one by one, each under its own lock.
RenameSession(c, s) ==
  /\ AtStep(c, "rename sessions") /\ s \in op[c].todo
  /\ workspaceOf' = [workspaceOf EXCEPT ![s] = IF @ = op[c].from THEN op[c].to ELSE @]
  /\ SetOp(c, Renaming(op[c].from, op[c].to, op[c].todo \ {s}))
  /\ UNCHANGED <<state, live>>

RenameDone(c) ==
  /\ AtStep(c, "rename sessions") /\ op[c].todo = {}
  /\ SetOp(c, Idle)
  /\ UNCHANGED <<state, workspaceOf, live>>

\* delete_workspace: the sessions are collected under the map lock ...
DeleteWorkspace(c, name, force) ==
  /\ op[c] = Idle /\ ~ MapLocked /\ MayAdminister /\ MayDelete
  /\ name # Default
  /\ SetOp(c, Counting(name, force, live, live, 0))
  /\ UNCHANGED <<state, workspaceOf, live>>

\* ... those of the workspace are counted one by one ...
DeleteCount(c, s) ==
  /\ AtStep(c, "delete count") /\ s \in op[c].todo
  /\ LET count == IF workspaceOf[s] = op[c].name THEN op[c].count + 1 ELSE op[c].count
     IN  SetOp(c, Counting(op[c].name, op[c].force, op[c].arcs, op[c].todo \ {s}, count))
  /\ UNCHANGED <<state, workspaceOf, live>>

\* The request is refused: unknown name, or sessions left and no force.
DeleteRefused(c) ==
  /\ AtStep(c, "delete count") /\ op[c].todo = {}
  /\ op[c].name \notin known \/ (op[c].count > 0 /\ ~ op[c].force)
  /\ SetOp(c, Idle)
  /\ UNCHANGED <<state, workspaceOf, live>>

\* Mutant of CurrentAfterDelete: the deleted workspace stays current.
CurrentUnchanged(name) == current

\* The current workspace once `name` is deleted.
CurrentAfterDelete(name) == IF current = name THEN Default ELSE current

\* Mutant of ToMigrate: a forced deletion skips the migration.
NobodyToMigrate(c) == {}

\* The sessions a deletion goes through to migrate them.
ToMigrate(c) == IF op[c].force THEN op[c].arcs ELSE {}

\* ... and the name goes from `known` under workspace_state.
DeleteFromKnown(c) ==
  /\ AtStep(c, "delete count") /\ op[c].todo = {}
  /\ op[c].name \in known
  /\ op[c].count = 0 \/ op[c].force
  /\ known' = known \ {op[c].name}
  /\ current' = CurrentAfterDelete(op[c].name)
  /\ SetOp(c, Migrating(op[c].name, ToMigrate(c)))
  /\ UNCHANGED <<workspaceOf, live>>

\* A forced deletion visits the same sessions again.
DeleteMigrate(c, s) ==
  /\ AtStep(c, "delete migrate") /\ s \in op[c].todo
  /\ workspaceOf' = [workspaceOf EXCEPT ![s] = IF @ = op[c].name THEN Default ELSE @]
  /\ SetOp(c, Migrating(op[c].name, op[c].todo \ {s}))
  /\ UNCHANGED <<state, live>>

DeleteDone(c) ==
  /\ AtStep(c, "delete migrate") /\ op[c].todo = {}
  /\ SetOp(c, Idle)
  /\ UNCHANGED <<state, workspaceOf, live>>

-----------------------------------------------------------------------------
Create(c) == CreateSession(c) \/ InsertSession(c) \/ CreateFails(c)

Rename(c) ==
  \/ \E from, to \in Name : RenameWorkspace(c, from, to)
  \/ RenameCollect(c) \/ RenameDone(c)
  \/ \E s \in Sessions : RenameSession(c, s)

Delete(c) ==
  \/ \E name \in Name, force \in BOOLEAN : DeleteWorkspace(c, name, force)
  \/ DeleteRefused(c) \/ DeleteFromKnown(c) \/ DeleteDone(c)
  \/ \E s \in Sessions : DeleteCount(c, s) \/ DeleteMigrate(c, s)

Next ==
  \E c \in Client :
    \/ Create(c) \/ Rename(c) \/ Delete(c)
    \/ \E s \in Sessions : KillSession(c, s)
    \/ \E name \in Name : CreateWorkspace(c, name) \/ SwitchWorkspace(c, name)

Spec == Init /\ [][Next]_vars

-----------------------------------------------------------------------------
(***************************************************************************)
(* Properties.                                                             *)
(***************************************************************************)

\* The steps at which a rename or a deletion, and a creation, is under way.
OpOver(N, S) ==
  {Idle}
    \cup [at : {"create"}, ws : N]
    \cup [at : {"rename collect"}, from : N, to : N]
    \cup [at : {"rename sessions"}, from : N, to : N, todo : SUBSET S]
    \cup [at : {"delete count"}, name : N, force : BOOLEAN, arcs : SUBSET S,
          todo : SUBSET S, count : Nat]
    \cup [at : {"delete migrate"}, name : N, todo : SUBSET S]

\* Every variable has its type, and only one session is created at a time.
TypeOK ==
  /\ known \subseteq Name /\ current \in Name
  /\ workspaceOf \in Seq(Name) /\ live \subseteq Sessions
  /\ op \in [Client -> OpOver(Name, Sessions)]
  /\ \A c, d \in Client : AtStep(c, "create") /\ AtStep(d, "create") => c = d

\* `default` is always known and so is the current workspace, whatever renames,
\* deletions and switches overlap (session.rs, WorkspaceState): a new session
\* is never put in a workspace that did not exist when `current` was read.
CurrentIsKnown == Default \in known /\ current \in known

\* When no request is under way, every session belongs to a workspace that is
\* known: a rename takes all its sessions along, and a deletion leaves none
\* behind (session.rs, rename_workspace and delete_workspace).
Quiet == \A c \in Client : op[c] = Idle
SessionsInKnownWorkspaces ==
  Quiet => \A s \in live : workspaceOf[s] \in known
=============================================================================
